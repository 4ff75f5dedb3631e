\* Two runners of one task, a crash anywhere and a cancellation.
SPECIFICATION FairSpec
CONSTANTS
  t1 = t1
  w1 = w1
  w2 = w2
  k1 = k1
  k2 = k2
  Task = {t1}
  Runner = {w1, w2}
  Key = {k1, k2}
  MaxAttempts = 2
  Duration = 1
  Extension = 2
  RetryDelay = 1
  MaxTime = 4
  MaxHeartbeats = 1
  CancelLimit = 1
  CrashLimit = 1
INVARIANTS
  ResultFromLiveLease
  WorkspaceAgrees
  ReadyIsAcquirable
  UnwedgedIsSettleable
PROPERTIES
  KeepsAttemptLease
  LeasesEndOrWedge
CHECK_DEADLOCK FALSE
