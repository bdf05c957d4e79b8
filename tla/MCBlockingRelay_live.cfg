SPECIFICATION FairSpec
CONSTANTS
  BufferSize   = 2
  StreamLength <- Request
  ReceiveQueue = 2
  SendQueue    = 1
  Resettable   = {}
PROPERTIES
  BytesForwarded
  ThreadsEnd
