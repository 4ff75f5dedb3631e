CONSTANTS
  j1 = j1
  u1 = u1
  u2 = u2
  u3 = u3
  h1 = h1
  requests = requests
  NoHolder = NoHolder
  NoItem = NoItem
  Item = {}
  Job <- MCJob
  Holder <- MCHolder
  JobOf <- MCJobOf
  ItemOf <- MCItemOf
  DependsOn <- MCDependsOn
  Invocations <- MCInvocations
  RefillRate <- MCRefillRate
  Grant <- MCGrant
  CreditsPerUnit = 3
  MinBackpressure = 1
  LeaseDuration = 2
  HeartbeatExtension = 1
  MaxHeartbeats = 0
  MaxSnapshots = 1
  RetryLeaseExpiry = TRUE
  Unit <- MCUnit
  Dimension = {requests}
  AllSucceeded <- MCUnit
  ArtifactGroup = {u2}
  MaxAttempts = 1
  RetryDelay <- MCRetryDelay
  Burst <- MCBurst
  JobModelMax <- MCModelMax
  JobConcurrent <- MCConcurrent
  PoolConcurrent = 2
  MaxOverrun = 1
  MaxBackpressure = 2
  MaxTime = 3
SPECIFICATION ModelSpec
CONSTRAINT Scenario
INVARIANTS
  PoolHeadMatchesEvents
  RateConserved
  InvocationsBounded
  ModelBudgetHeld
  BackpressureHonoured
  WaitHintExact
CHECK_DEADLOCK FALSE
