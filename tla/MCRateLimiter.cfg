CONSTANTS
  Rule <- MCRule
  Requests <- MCRequests
  Window <- MCWindow
  Scope <- MCScope
  Custom <- MCCustom
  KeyFor <- MCKeyFor
  Endpoint <- MCEndpoint
  Rules <- MCRules
  Client <- MCClient
  Direct <- LongestDirect
  MaxKeys = 1
  PerSecond = 2
  MaxTime = 3
SPECIFICATION Spec
CHECK_DEADLOCK FALSE
INVARIANTS
  QuotaKept
  CountedOnce
  Bounded
  RetryHonest
PROPERTIES
  LostOnlyWhenCrowded
