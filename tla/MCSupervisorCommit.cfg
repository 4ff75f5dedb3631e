\* One runner that never crashes commits its workspace and completes too late.
SPECIFICATION FairSpec
CONSTANTS
  t1 = t1
  w1 = w1
  w2 = w2
  k1 = k1
  k2 = k2
  Task = {t1}
  Runner = {w1}
  Key = {k1}
  MaxAttempts = 1
  Duration = 1
  Extension = 2
  RetryDelay = 0
  MaxTime = 3
  MaxHeartbeats = 1
  CancelLimit = 0
  CrashLimit = 0
PROPERTY
  LeasesEnd
CHECK_DEADLOCK FALSE
