SPECIFICATION Spec
CONSTANTS
  MaxClients  = 2
  NumBackends = 2
  MaxChanges  = 0
  CheckErrors = TRUE
INVARIANTS
  TypeOK
  TurnedAwayForGoodReason
  EveryClientShut
