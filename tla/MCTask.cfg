SPECIFICATION FairSpec
CONSTANTS
  N = 5
  Owner <- NestedOwner
  Fuel <- NestedFuel
  Limits = {0, 1}
INVARIANTS
  NoReentry
  LinkIntegrity
  NoLostWakeup
  NoLogicError
  LimitRespected
PROPERTIES
  ReturnsWhenDone
  CallsReturn
CHECK_DEADLOCK FALSE
