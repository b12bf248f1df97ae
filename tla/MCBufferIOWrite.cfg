CONSTANTS
  Cap = 2
  MaxSize = 2
  MaxBytes = 3
SPECIFICATION Spec
INVARIANT WritesGivenNumber
CHECK_DEADLOCK FALSE
