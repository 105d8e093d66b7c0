SPECIFICATION Spec
CONSTANTS
  Requests <- MCRequests
  Tables = {"t", "u", "nowcast"}
  NoHint = NoHint
  BeginLike <- MCBeginLike
  EndLike <- MCEndLike
INVARIANTS
  VerdictRight
  PlanFaithful
  PollFailureExplained
CHECK_DEADLOCK FALSE
