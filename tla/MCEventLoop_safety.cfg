SPECIFICATION Spec
CONSTANTS
  MaxClients  = 2
  NumBackends = 2
  MaxFd       <- Descriptors
  MaxEvents   = 2
  SetupErrors = TRUE
INVARIANTS
  TypeOK
  MapsExact
  NoStaleDispatch
  NoDescriptorLeak
  ConnectIsWatched
PROPERTIES
  DrainAdmitsNobody
  EndsByOwnEvent
