SPECIFICATION FairSpec
CONSTANTS
  q1 = q1
  e1 = e1
  Ids = {q1}
  None = None
  Viewers = {v1, v2, e1}
  ViewOf <- MCViewOf
  ChanSize = 1
INVARIANTS
  ViewerListed
CHECK_DEADLOCK FALSE
PROPERTIES
  ViewerForgotten
  HubAnswers
