CONSTANTS
  c1 = c1  c2 = c2  c3 = c3
  Coro = {c1, c2, c3}
  MaxWrites = 2
SPECIFICATION SpecBoth
INVARIANTS
  FirstInFirstOut
  ItemForResumed
  LinkedUntilDrained
  ResumedInOrder
  OutcomeOrBadAccess
PROPERTIES
  AwaitersResume
CHECK_DEADLOCK FALSE
