SPECIFICATION FairSpec
CONSTANTS
  Client = {c1, c2}
  Stranger = {}
  Mortal = {}
  Rounds <- OneTwice
  R2 = {x}
  Thread = {t1, t2}
  Fd = {4, 5, 6}
  Emfile = 24
  Einval = 22
  BindFails = FALSE
  InsertFirst = TRUE
  Exclusive = TRUE
  Slow = FALSE
  Stops = TRUE
  None = None
CHECK_DEADLOCK FALSE
INVARIANTS OwnSocket NoStaleEntry ServerSurvives
PROPERTIES Served StopEnds WaitEnds
