SPECIFICATION FairSpec
CONSTANTS
  LengthSize = 2
  MaximumBufferSize = 3
  MaximumChunkSize = 2
  RateLimitBytesPerSecond = 120
  RateLimitInterval = 25
  Sizes = {1, 3, 4}
  MaxBuffers = 2
INVARIANTS TypeOK
PROPERTIES IsChannel BuffersArrive
CHECK_DEADLOCK FALSE
