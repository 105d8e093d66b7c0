SPECIFICATION MetricsSpec
CONSTANTS
  Ids = {q1, q2, q3}
  Callers = {k1}
  MaxQueries = 2
  MaxRegs = 3
  None = None
SYMMETRY Alike
INVARIANTS
  MetricsExplained
CHECK_DEADLOCK FALSE
