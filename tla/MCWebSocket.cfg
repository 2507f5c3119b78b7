CONSTANTS
  w1 = w1
  sender = sender
  closer = closer
  Socket <- MCSocket
  Helper <- MCHelper
  MaxTexts = 1
SPECIFICATION Spec
SYMMETRY MCSymmetry
CHECK_DEADLOCK FALSE
INVARIANTS
  ProtocolLegal
  StateAgrees
  NothingLeftOpen
  GaugeExact
PROPERTIES
  NeverReopened
