CONSTANTS
  s1 = s1
  s2 = s2
  Scope <- MCScope
  NoScope = NoScope
SPECIFICATION FairSpec
CHECK_DEADLOCK FALSE
INVARIANTS
  ActiveIsTrue
