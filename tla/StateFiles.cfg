SPECIFICATION FairSpec
CONSTANTS
  Period = 100
  MaxAttempts = 2
  ChangeBound = 1
  FaultBound = 2
  CrashBound = 1
INVARIANT TypeOK
INVARIANT CacheIsOnDisk
INVARIANT FlushTellsOfShutdown
PROPERTY FilesCatchUp
PROPERTY ImplementsSnapshotFiles
CHECK_DEADLOCK FALSE
