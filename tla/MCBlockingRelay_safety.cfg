SPECIFICATION Spec
CONSTANTS
  BufferSize   = 2
  StreamLength <- TwoWay
  ReceiveQueue = 2
  SendQueue    = 1
  Resettable   = {"client", "backend"}
INVARIANTS
  TypeOK
  NobodyLeftBehind
  BlameHasItsCause
PROPERTIES
  ImplementsStreams
