SPECIFICATION Spec
CONSTANTS
  Codec = "hardware"
  FallbackCodec = "software"
  PlaceholderEnabled = TRUE
PROPERTY PoolMatchesSender
