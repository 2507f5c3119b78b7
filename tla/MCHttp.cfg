CONSTANTS
  r1 = r1
  r2 = r2
  b1 = b1
  none = none
  cart = cart
  raw = raw
  Request <- MCRequest
  Browser <- MCBrowser
  Data <- MCData
  From <- MCFrom
  Empty = none
  Unserial = raw
  MetricsEnabled = TRUE
  HeadersSound = TRUE
  NBefore = 0
  NAfter = 0
  MaxTasks = 1
SPECIFICATION Spec
SYMMETRY MCSymmetry
CHECK_DEADLOCK FALSE
INVARIANTS
  NoSecondResponse
  GaugeExact
  ContextScoped
PROPERTIES
  JarFromEditors
  ImplementsExchange
