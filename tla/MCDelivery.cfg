SPECIFICATION DeliverySpec
CONSTANTS
  first = first
  twin1 = twin1
  twin2 = twin2
  last = last
  Rows <- MCRows
  CursorOf <- WithTie
  Matching = {first, twin1, twin2, last}
  Unscannable = {}
  Unparsable = {1}
  Minimal = 0
  BatchSize = 2
  Order = "arbitrary"
  MaxErrors = 0
  Conns = {c1, c2}
  None = None
  Window = 2
SYMMETRY Alike
INVARIANTS
  LossNeedsTieOrLateCommit
  ResendNeedsParseFailure
  CursorIsEvidence
  EndToEnd
  DuplicateNeedsBrokenWrite
PROPERTIES
  ReadsForward
CHECK_DEADLOCK FALSE
