CONSTANTS
  t1 = t1
  t2 = t2
  Task <- MCTask
  Size <- MCSize
  Limit = 2
  MaxPieces = 3
SPECIFICATION FairSpec
INVARIANTS WholeBody FormOfBody
PROPERTIES Limited OneBody ReadEnds
CHECK_DEADLOCK FALSE
