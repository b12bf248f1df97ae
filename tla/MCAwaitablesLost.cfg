CONSTANTS
  c1 = c1  c2 = c2
  Coro = {c1, c2}
  MaxWrites = 3
SPECIFICATION SpecBoth
INVARIANT NoReaderLeftWaiting
CHECK_DEADLOCK FALSE
