SPECIFICATION Spec
CONSTANTS
  Resolutions = {hd, sd}
  None = None
  PlaceholderEnabled = FALSE
  PlaceholderResolution = hd
  Unrenderable = {}
  MaxReconnectAttempts = 1
  ReconnectDelay = 1
  ReconnectMaxDelay = 1
  BackoffNumerator = 1
  BackoffDenominator = 1
  StalledRecoveryMaxAttempts = 0
  FrameTimeout = 1
  SenderMissingTimeout = 1
  ProlongedStall = 1
  MaxQueueSize = 1
  StallCountBound = 0
INVARIANT StreamingHasReceiver
VIEW LiveView
