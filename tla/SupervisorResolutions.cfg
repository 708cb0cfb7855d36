SPECIFICATION Spec
CONSTANTS
  Resolutions = {hd, sd}
  None = None
  PlaceholderEnabled = TRUE
  PlaceholderResolution = hd
  Unrenderable = {sd}
  MaxReconnectAttempts = 1
  ReconnectDelay = 3
  ReconnectMaxDelay = 5
  BackoffNumerator = 3
  BackoffDenominator = 2
  StalledRecoveryMaxAttempts = 2
  FrameTimeout = 1
  SenderMissingTimeout = 1
  ProlongedStall = 2
  MaxQueueSize = 1
  StallCountBound = 2
INVARIANT EncodeThreadHasItsResources
INVARIANT ResourcesMatchState
INVARIANT HandoffHasSession
INVARIANT EncoderMatchesCurrent
INVARIANT PlaceholderOnItsEncoder
PROPERTY OwnershipWhileRunning
PROPERTY StartOnlyAfterJoin
PROPERTY RestartNeverBlack
PROPERTY ImplementsPublisher
VIEW LiveView
