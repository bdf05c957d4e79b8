SPECIFICATION Spec
CONSTANTS
  HighWatermark = 2
  LowWatermark  = 1
  BufferSize    = 2
  StreamLength  <- TwoWay
  ReceiveQueue  = 1
  SendQueue     = 1
  Resettable    = {"client"}
INVARIANTS
  RelayInv
  RetiredOnlyWhenDone
PROPERTY
  ImplementsStreams
