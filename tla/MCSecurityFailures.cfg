CONSTANTS
  c1 = c1
  c2 = c2
  Client <- MCClient
  Limit = 2
  Window = 3
  Threshold = 1
  MaxTime = 7
  MaxCount = 3
SPECIFICATION Spec
SYMMETRY MCSymmetry
CHECK_DEADLOCK FALSE
INVARIANTS
  TwiceTheLimit
PROPERTIES
  ImplementsWindows
