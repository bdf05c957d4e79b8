SPECIFICATION PathSpec
CONSTANTS
  Workers       = {w1, w2}
  Warmup        = 1
  Requests      = 1
  Latencies     = {1}
  MessageLength = 3
  BufferSize    = 2
  UpCapacity    = 2
  DownCapacity  = 1
  AcceptErrors  = TRUE
INVARIANTS
  ResponsesInStep
  NobodyStuck
PROPERTIES
  ImplementsLoadGenerator
  BackendThreadsEnd
CHECK_DEADLOCK FALSE
