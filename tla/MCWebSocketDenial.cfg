CONSTANTS
  w1 = w1
  sender = sender
  closer = closer
  Socket <- MCSocket
  Helper <- NoHelper
  MaxTexts = 1
SPECIFICATION Spec
CHECK_DEADLOCK FALSE
INVARIANTS
  DeniedBeforeAcceptance
