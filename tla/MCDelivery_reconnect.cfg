\* Cursor values as docs/queries.md asks for them; nothing fails but a connection.
SPECIFICATION DeliverySpec
CONSTANTS
  first = first
  twin1 = twin1
  twin2 = twin2
  last = last
  Rows <- MCRows
  CursorOf <- WithTie
  Matching = {first, twin1, twin2, last}
  Unscannable = {}
  Unparsable = {}
  Minimal = 0
  BatchSize = 2
  Order = "strict"
  MaxErrors = 0
  Conns = {c1, c2}
  None = None
  Window = 2
INVARIANTS
  ResentOnReconnect
CHECK_DEADLOCK FALSE
