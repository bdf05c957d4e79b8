SPECIFICATION Spec
CONSTANTS
  w1 = w1
  w2 = w2
  w3 = w3
  Workers  = {w1, w2, w3}
  Warmup   = 2
  Requests = 2
  Latencies = {1}
INVARIANTS
  EveryWorkerParticipates
CHECK_DEADLOCK FALSE
