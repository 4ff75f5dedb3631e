CONSTANTS
  j1 = j1
  u1 = u1
  u2 = u2
  u3 = u3
  i1 = i1
  h1 = h1
  h2 = h2
  NoHolder = NoHolder
  NoItem = NoItem
  Job <- MCJob
  Unit <- MCUnit
  Item <- MCItem
  Holder <- MCHolder
  JobOf <- MCJobOf
  ItemOf <- MCItemOf
  DependsOn <- MCDependsOn
  AllSucceeded = {u1, u2}
  ArtifactGroup = {u3}
  LeaseDuration = 1
  HeartbeatExtension = 2
  MaxAttempts = 2
  RetryDelay <- MCRetryDelay
  RetryLeaseExpiry = TRUE
  MaxTime = 4
  MaxHeartbeats = 1
  MaxSnapshots = 1
CONSTRAINT Scenario
SYMMETRY MCSymmetry
SPECIFICATION Spec
INVARIANTS
  TypeOK
  FencesIncrease
  RetryDispatchable
  LeaseStageAgree
  HeadMatchesEvents
  CancellationComplete
  DependenciesHonoured
PROPERTIES
  ClosedAttemptFrozen
  KeepsAttemptLease
CHECK_DEADLOCK FALSE
