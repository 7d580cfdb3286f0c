SPECIFICATION Spec
SYMMETRY AlikeWorkers
CONSTANTS
  c1 = c1
  c2 = c2
  Client = {c1, c2}
  Fd = {3, 4}
  Worker = {w1, w2}
  QueueMax = 1
  Requests = 1
  Beats <- OneBeats
  Split = TRUE
  Leaves = {c2}
  None = None
CHECK_DEADLOCK FALSE
INVARIANTS TypeOK AnsweredAtMostOnce ReactorReleased
