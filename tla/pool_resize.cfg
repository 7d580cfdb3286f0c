SPECIFICATION Spec
CONSTANTS
  MinThr = 1
  MaxThr = 3
  QueueMax = 2
  MinWaitTaskNum = 1
  ThreadVary = 2
  Task = {t1, t2, t3}
  Arg <- Task
  ArgOf <- OwnArg
  Caller = {c1, c2}
  Null = Null
  Junk = Junk
  SlotInit = {Junk}
  WaitExitInit <- AnySmall
  KillSeesExit = TRUE
  Spurious = FALSE
  Destroys = TRUE
  Orderly = FALSE
SYMMETRY TaskSymmetry
CHECK_DEADLOCK FALSE
INVARIANTS TypeOK LiveCountExact OneMissesShutdown RingConsistent TaskTakenOnce
