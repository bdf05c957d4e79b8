SPECIFICATION Spec
CONSTANTS
  HighWatermark = 4
  LowWatermark  = 1
  BufferSize    = 3
  StreamLength  <- OneWay
  ReceiveQueue  = 2
  SendQueue     = 2
  Resettable    = {"client", "backend"}
INVARIANTS
  TypeOK
  StreamPrefix
  EofIsReal
  HalfCloseAfterLastByte
  NoLostWakeup
