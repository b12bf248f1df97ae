CONSTANTS
  Ids = {i1, i2}
  Starts = {4, 300}
  Times = {0, 59}
  Wide = 3
  MaxEvents = 6
SYMMETRY Symmetry
SPECIFICATION Spec
INVARIANTS
  RowsFaithful
  PositionFollows
  PlacesTrue
  TransactionBytes
CHECK_DEADLOCK FALSE
