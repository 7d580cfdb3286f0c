SPECIFICATION Spec
CONSTANTS
  Client = {c1, c2}
  Stranger = {}
  Mortal = {}
  Rounds <- Once
  R2 = {x, y}
  Thread = {t1, t2}
  Fd = {4, 5, 6}
  Emfile = 24
  Einval = 22
  BindFails = FALSE
  InsertFirst = FALSE
  Exclusive = TRUE
  Slow = FALSE
  Stops = FALSE
  None = None
CHECK_DEADLOCK FALSE
INVARIANTS ServerSurvives
