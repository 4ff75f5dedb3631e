CONSTANTS
  j1 = j1
  u1 = u1
  u2 = u2
  h1 = h1
  p = p
  s = s
  requests = requests
  NoHolder = NoHolder
  NoItem = NoItem
  NoTransaction = NoTransaction
  Item = {}
  Job <- OneJob
  Unit <- TwoUnits
  Holder <- MCHolder
  JobOf <- MCJobOf
  ItemOf <- MCItemOf
  DependsOn <- MCDependsOn
  AllSucceeded <- TwoUnits
  ArtifactGroup = {u2}
  LeaseDuration = 1
  HeartbeatExtension = 1
  MaxHeartbeats = 0
  MaxSnapshots = 1
  MaxAttempts = 1
  RetryDelay <- NoRetryDelay
  RetryLeaseExpiry = TRUE
  Resource = {p, s}
  Process = p
  Storage = s
  PoolCapacity <- MCPool
  JobConcurrency <- MCLimit
  JobBudget <- MCLimit
  Capacity <- MCDemand
  Allowance <- MCDemand
  TerminationRequired <- TwoUnits
  Dimension = {requests}
  CreditsPerUnit = 3
  Burst <- MCBurst
  RefillRate <- MCRefillRate
  Grant <- MCGrant
  JobModelMax <- MCModelMax
  JobConcurrent <- MCConcurrent
  Invocations <- MCInvocations
  PoolConcurrent = 2
  MinBackpressure = 1
  MaxBackpressure = 1
  MaxOverrun = 1
  MaxTime = 1
SPECIFICATION CombinedSpec
INVARIANTS
  PoolHeadMatchesEvents
CHECK_DEADLOCK FALSE
