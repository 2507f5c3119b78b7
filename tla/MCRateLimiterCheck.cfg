CONSTANTS
  Rule <- MCRule
  Requests <- MCRequests
  Window <- MCWindow
  Scope <- MCScope
  Custom <- MCCustom
  KeyFor <- MCKeyFor
  Endpoint <- MCEndpoint
  Rules <- MCRules
  Client <- MCClient
  Direct <- ShorterDirect
  MaxKeys = 1
  PerSecond = 2
  MaxTime = 3
SPECIFICATION Spec
CHECK_DEADLOCK FALSE
INVARIANTS
  QuotaKept
