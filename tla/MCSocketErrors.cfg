CONSTANTS
  c1 = c1
  Coro = {c1}
  Kinds = {"listen", "datagram"}
  MaxArrivals = 2
  MaxLength = 1
  MaxSize = 2
SPECIFICATION FairSpec
PROPERTY ErrorsThrown
CHECK_DEADLOCK FALSE
