SPECIFICATION FairSpec
CONSTANTS
  MinThr = 2
  MaxThr = 2
  QueueMax = 2
  MinWaitTaskNum = 1
  ThreadVary = 2
  Task = {t1, t2, t3}
  Arg <- OneOwnArgs
  ArgOf <- OneOwn
  Caller = {c1}
  Null = Null
  Junk = Junk
  SlotInit = {Null}
  WaitExitInit <- OnlyZero
  KillSeesExit = TRUE
  Spurious = TRUE
  Destroys = TRUE
  Orderly = TRUE
INVARIANTS NoForgottenTask QueuedArgIntact NoThreadOutlivesPool
CHECK_DEADLOCK FALSE
PROPERTIES RefinesTaskQueue TaskServed AddReturns
