SPECIFICATION FairSpec
CONSTANTS
  w1 = w1
  w2 = w2
  w3 = w3
  Workers  = {w1, w2, w3}
  Warmup   = 1
  Requests = 2
  Latencies = {1, 4}
INVARIANTS
  PercentilesAreRanks
  MeasuredWhenAllWarm
  FailedCountsConnections
PROPERTIES
  ReportsUnlessSetupFails
CHECK_DEADLOCK FALSE
