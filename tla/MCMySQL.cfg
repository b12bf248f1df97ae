SPECIFICATION Spec
CONSTANTS
  SEQ = 4
  Columns = 2
  MaxRows = 2
  MaxScript = 2
  MaxEvents = 4
  MaxCalls = 2
  MaxConnects = 2
  MaxFaults = 1
INVARIANTS
  ResultsComplete
  StreamInSync
  InSequence
  EventsFaithful
PROPERTIES
  MethodsEnd
CHECK_DEADLOCK FALSE
