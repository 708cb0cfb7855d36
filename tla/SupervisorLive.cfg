SPECIFICATION FairSpec
CONSTANTS
  Resolutions = {hd}
  None = None
  PlaceholderEnabled = FALSE
  PlaceholderResolution = hd
  Unrenderable = {}
  MaxReconnectAttempts = 1
  ReconnectDelay = 3
  ReconnectMaxDelay = 4
  BackoffNumerator = 2
  BackoffDenominator = 1
  StalledRecoveryMaxAttempts = 2
  FrameTimeout = 1
  SenderMissingTimeout = 1
  ProlongedStall = 1
  MaxQueueSize = 1
  StallCountBound = 2
INVARIANT TypeOK
INVARIANT NoSilentStreamDeath
INVARIANT RetryCountersFresh
INVARIANT WatchdogInTime
INVARIANT CleanExit
PROPERTY FatalOnlyWhenExhausted
PROPERTY ShutdownCompletes
PROPERTY FirstFrameWaitEnds
PROPERTY StallEnds
