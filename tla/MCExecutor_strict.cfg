SPECIFICATION FairSpec
CONSTANTS
  Rows <- MCRows
  CursorOf <- Increasing
  Matching = {1, 2, 3, 5, 6}
  Unscannable = {2}
  Unparsable = {4}
  Minimal = 0
  BatchSize = 2
  Order = "strict"
  MaxErrors = 2
INVARIANTS
  TypeOK
  NoGap
  RowsSentExact
  SkipsReported
PROPERTIES
  ImplementsCursorStream
  RowsDelivered
  ExitsAfterCancel
CHECK_DEADLOCK FALSE
