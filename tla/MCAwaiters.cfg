CONSTANTS
  c1 = c1  c2 = c2
  Coro = {c1, c2}
  None = None
  Cap = 2
  MaxSize = 3
  MaxWritten = 6
  MaxAdded = 4
  Kinds = {"listen", "datagram"}
  MaxArrivals = 3
  MaxLength = 3
  max_size = 2
  MaxOps = 2
SPECIFICATION SpecAll
INVARIANTS
  StreamIntact
  OneOwner
  Delivers
  DestroyedOnce
  NothingDangling
  ResumedByOne
PROPERTIES
  NoMutualWait
  ServedOrFailed
  EndOfStreamReported
  WaitEnds
CHECK_DEADLOCK FALSE
