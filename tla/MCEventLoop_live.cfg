SPECIFICATION FairSpec
CONSTANTS
  MaxClients  = 1
  NumBackends = 3
  MaxFd       <- Descriptors
  MaxEvents   = 1
  SetupErrors = FALSE
PROPERTIES
  EveryCandidateTried
  SignalStops
  ConnectResolves
