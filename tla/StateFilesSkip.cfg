SPECIFICATION Spec
CONSTANTS
  Period = 2
  MaxAttempts = 2
  ChangeBound = 2
  FaultBound = 0
  CrashBound = 0
INVARIANT SkipMeansSame
