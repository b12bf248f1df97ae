CONSTANTS
  Cap = 2
  MaxSize = 2
  MaxBytes = 2
SPECIFICATION FairSpec
PROPERTY EndOfStreamReported
CHECK_DEADLOCK FALSE
