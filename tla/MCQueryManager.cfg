SPECIFICATION FairSpec
CONSTANTS
  Ids = {q1, q2, q3}
  Callers = {k1, k2}
  MaxQueries = 2
  MaxRegs = 3
  None = None
INVARIANTS
  ManagerTypeOK
  NoOrphan
  CapacityRespected
  AtMostOneBatchAfterCancel
PROPERTIES
  CancelledEnds
  ImplementsManagerView
CHECK_DEADLOCK FALSE
