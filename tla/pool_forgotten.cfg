SPECIFICATION FairSpec
CONSTANTS
  MinThr = 1
  MaxThr = 2
  QueueMax = 2
  MinWaitTaskNum = 2
  ThreadVary = 2
  Task = {t1, t2, t3}
  Arg <- Task
  ArgOf <- OwnArg
  Caller = {c1}
  Null = Null
  Junk = Junk
  SlotInit = {Null}
  WaitExitInit <- OnlyZero
  KillSeesExit = TRUE
  Spurious = FALSE
  Destroys = FALSE
  Orderly = TRUE
PROPERTY TaskServed
