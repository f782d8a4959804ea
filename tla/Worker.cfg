SPECIFICATION FairSpec
CONSTANTS
  Threads = {t1, t2}
  NoThread = NoThread
  MaxObjects = 2
  Second = 2
  kMaxLogsPerSecond = 2
  MaxTime = 5
INVARIANTS
  TypeOK
  OneLiveModule
  FactoryFreedOnce
  LineReachesSource
  SlidingBound
  DroppedOnlyWhenFull
PROPERTY
  LockReleased
CHECK_DEADLOCK FALSE
