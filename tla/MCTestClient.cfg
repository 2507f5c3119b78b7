CONSTANTS
  s1 = s1
  s2 = s2
  Scope <- MCScope
  NoScope = NoScope
  Drives <- MCDrives
SPECIFICATION ClientFairSpec
CHECK_DEADLOCK FALSE
INVARIANTS
  AnswersInOrder
  ActiveExact
  HandlersFinished
  EnteredMeansUp
  LeftMeansOver
PROPERTIES
  ShutdownAfterRequests
  CallsReturn
  ThreadsEnd
  ScopesEnd
