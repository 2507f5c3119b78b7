CONSTANTS
  r1 = r1
  r2 = r2
  b1 = b1
  none = none
  cart = cart
  raw = raw
  Request <- OneRequest
  Browser <- MCBrowser
  Data <- MCData
  From <- OneFrom
  Empty = none
  Unserial = raw
  MetricsEnabled = TRUE
  HeadersSound = FALSE
  NBefore = 2
  NAfter = 2
  MaxTasks = 3
SPECIFICATION FairSpec
CHECK_DEADLOCK FALSE
INVARIANTS
  BackgroundContract
  EndpointGated
PROPERTIES
  Answered
