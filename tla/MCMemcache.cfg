SPECIFICATION Spec
CONSTANTS
  Clients = {c1, c2}
  Keys = {k1}
  Top = 2
  Entries = 2
  MaxCalls = 2
  MaxSessions = 2
  MaxFaults = 1
INVARIANTS
  StreamInSync
PROPERTIES
  ImplementsStore
  CallEnds
CHECK_DEADLOCK FALSE
