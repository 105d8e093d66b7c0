SPECIFICATION Spec
CONSTANTS
  Events = {e1, e2, e3, e4}
  Direct = {e4}
  BatchSize = 2
  Signal = Signal
SYMMETRY Alike
INVARIANTS
  ExactlyOnePlace
  BufferBounded
  DirectAckIsStored
PROPERTIES
  DisorderNeedsOverlap
CHECK_DEADLOCK FALSE
