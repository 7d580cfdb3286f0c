SPECIFICATION Spec
CONSTANTS
  Client = {c1, c2, c3}
  Stranger = {c3}
  Mortal = {c2}
  Rounds <- Once
  R2 = {x, y}
  Thread = {t1, t2}
  Fd = {4}
  Emfile = 4
  Einval = 22
  BindFails = TRUE
  InsertFirst = FALSE
  Exclusive = FALSE
  Slow = TRUE
  Stops = TRUE
  None = None
CHECK_DEADLOCK FALSE
INVARIANT TypeOK
PROPERTY RefinesAgreement
