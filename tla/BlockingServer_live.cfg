SPECIFICATION FairSpec
CONSTANTS
  MaxClients  = 1
  NumBackends = 2
  MaxChanges  = 2
  CheckErrors = FALSE
PROPERTIES
  HealthConverges
  StopsWithNextClient
