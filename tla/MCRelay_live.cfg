SPECIFICATION FairSpec
CONSTANTS
  HighWatermark = 2
  LowWatermark  = 1
  BufferSize    = 2
  StreamLength  <- Request
  ReceiveQueue  = 1
  SendQueue     = 1
  Resettable    = {}
PROPERTIES
  EveryByteForwarded
  HalfCloseForwarded
  BothDoneRetires
