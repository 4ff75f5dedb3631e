CONSTANTS
  j1 = j1
  u1 = u1
  u2 = u2
  h1 = h1
  p = p
  s = s
  n = n
  NoHolder = NoHolder
  NoItem = NoItem
  Item = {}
  Holder <- MCHolder
  ItemOf <- MCItemOf
  DependsOn <- MCDependsOn
  Resource = {p, n, s}
  Process = p
  Storage = s
  LeaseDuration = 1
  HeartbeatExtension = 1
  MaxHeartbeats = 1
  MaxSnapshots = 1
  Job <- OneJob
  Unit <- TwoUnits
  JobOf <- MCJobOf
  AllSucceeded <- TwoUnits
  ArtifactGroup = {u2}
  TerminationRequired = {u1}
  PoolCapacity <- MCPool
  JobConcurrency <- MCConcurrency
  JobBudget <- MCBudget
  Capacity <- MCDemand
  Allowance <- MCDemand
  MaxAttempts = 1
  RetryDelay <- NoRetryDelay
  RetryLeaseExpiry = TRUE
  MaxTime = 1
SPECIFICATION ResourceSpec
INVARIANTS
  HeadsMatchReservations
  WithinLimits
  StorageIsBudget
  ReservationFollowsLease
CHECK_DEADLOCK FALSE
