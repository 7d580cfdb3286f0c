SPECIFICATION ArrangementFair
CONSTANTS
  p1 = p1
  c1 = c1
  c2 = c2
  Process = {p1}
  Calls <- TwoCalls
  Client = {c1, c2}
  Fd = {5, 6}
  Worker = {w1, w2}
  QueueMax = 2
  Requests = 1
  Beats <- OneBeatEach
  Split = FALSE
  Leaves = {}
  None = None
  ServerId = ServerId
  BodySize = 6
CHECK_DEADLOCK FALSE
INVARIANTS QuietCallGetsKey KeyIsServers EndsForAReason LockIsReleased
PROPERTIES QuietCallReturns
