SPECIFICATION Spec
CONSTANTS
  c1 = c1
  c2 = c2
  Client = {c1, c2}
  Fd = {3, 4}
  Worker = {w1, w2}
  QueueMax = 2
  Requests = 1
  Beats <- NoBeats
  Split = FALSE
  Leaves = {}
  None = None
CHECK_DEADLOCK FALSE
INVARIANT AnswerGoesBack
