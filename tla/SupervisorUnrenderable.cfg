SPECIFICATION PlaceholderSpec
CONSTANTS
  Resolutions = {hd, sd}
  None = None
  PlaceholderEnabled = TRUE
  PlaceholderResolution = hd
  Unrenderable = {sd}
  MaxReconnectAttempts = 0
  ReconnectDelay = 1
  ReconnectMaxDelay = 1
  BackoffNumerator = 1
  BackoffDenominator = 1
  StalledRecoveryMaxAttempts = 0
  FrameTimeout = 1
  SenderMissingTimeout = 1
  ProlongedStall = 1
  MaxQueueSize = 1
  StallCountBound = 0
PROPERTY PlaceholderReturns
