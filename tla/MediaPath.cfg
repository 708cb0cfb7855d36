SPECIFICATION Spec
CONSTANTS
  Codec = "hardware"
  FallbackCodec = "software"
  PlaceholderEnabled = TRUE
INVARIANT TypeOK
INVARIANT NothingLeaks
INVARIANT PictureIsCurrent
INVARIANT FramesOfPresentReceiver
INVARIANT CpuEncoderGetsPixels
INVARIANT ReceiverModeMatchesEncoder
INVARIANT EncoderOnLiveDevice
PROPERTY SwitchStartsWithKey
PROPERTY StartsInItsMode
PROPERTY ImplementsPublisher
