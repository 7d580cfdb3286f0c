----------------------------- MODULE ThreadPool -----------------------------
(***************************************************************************)
(* The thread pool of serverop/threadpool.c (the same file is in clientop/,*)
(* epoll/ and socket/): worker threads, the manager thread that grows and  *)
(* shrinks the pool, callers of threadpool_add and the thread that calls   *)
(* threadpool_destroy.                                                     *)
(*                                                                         *)
(* A worker is named by the index of its handle in pool->threads: a slot   *)
(* is reused only after the thread in it has exited.                       *)
(*                                                                         *)
(* A worker which decided to wait holds the lock for one step more         *)
(* ("idle"): destroy writes shutdown and broadcasts without the lock.  A   *)
(* threadpool_add that meets a shutdown unlocks a second time, whoever     *)
(* holds the lock then.  So the sections in which a worker is dismissed and*)
(* in which the manager creates threads are a step for each access to a    *)
(* counter; the others read, or write one field, and are one step.         *)
(***************************************************************************)
EXTENDS Integers, FiniteSets

CONSTANTS MinThr,          \* min_thr_num
          MaxThr,          \* max_thr_num
          QueueMax,        \* queue_max_size
          MinWaitTaskNum,  \* MIN_WAIT_TASK_NUM
          ThreadVary,      \* DEFAULT_THREAD_VARY
          Caller,          \* the threads that call threadpool_add
          Task,            \* the calls of threadpool_add they will make
          Arg,             \* the argument blocks the tasks are given
          ArgOf,           \* task -> its argument block, or Null
          Null,            \* the pointer NULL, and "no task", "no thread"
          Junk,            \* what malloc left in a task_queue slot, not NULL
          SlotInit,        \* the contents malloc may leave: subset of {Null, Junk}
          WaitExitInit,    \* what malloc may leave in wait_exit_thr_num
          KillSeesExit,    \* pthread_kill(tid, 0) = ESRCH for an exited thread
          Spurious,        \* pthread_cond_wait may return without a signal
          Destroys,        \* some thread calls threadpool_destroy
          Orderly          \* no threadpool_add overlaps or follows the destroy

Worker == 0 .. MaxThr - 1
Adjuster == -1             \* the manager, as a holder of the lock
Slot   == 0 .. QueueMax - 1

ASSUME SizeAssumption ==
  /\ MinThr \in Nat \ {0}
  /\ MaxThr \in Nat \ {0}
  /\ MinThr <= MaxThr
  /\ QueueMax \in Nat \ {0}
  /\ MinWaitTaskNum \in Nat
  /\ ThreadVary \in Nat \ {0}

ASSUME ArgAssumption ==
  /\ Null \notin Task \cup Arg \cup Worker \cup {Adjuster}
  /\ Junk \notin Task \cup Arg \cup {Null}
  /\ ArgOf \in [Task -> Arg \cup {Null}]
  /\ SlotInit \subseteq {Null, Junk}
  /\ WaitExitInit \subseteq Int

ASSUME FlagAssumption ==
  {KillSeesExit, Spurious, Destroys, Orderly} \subseteq BOOLEAN

VARIABLES
  \* struct threadpool_t
  lock, task_queue, queue_front, queue_rear, queue_size,
  live_thr_num, busy_thr_num, wait_exit_thr_num, shutdown,
  \* the threads
  pc,      \* Worker -> where its threadpool_thread stands
  task,    \* Worker -> the task it took from the queue
  reg,     \* Worker -> the value of a counter it has read to lower it
  call,    \* Caller -> where its threadpool_add stands
  adding,  \* Caller -> the task it is adding
  mgr,     \* the manager: pc, its samples, its loop, the value it has read
  dst,     \* the destroying thread: pc and the index of its loops
  \* history
  todo,    \* tasks not yet passed to threadpool_add
  done,    \* tasks whose function has returned
  frees    \* Arg \cup {Junk} -> how many times threadpool_add freed it

queueVars == <<task_queue, queue_front, queue_rear, queue_size>>
thrVars   == <<live_thr_num, busy_thr_num, wait_exit_thr_num>>
vars == <<lock, queueVars, thrVars, shutdown, pc, task, reg, call, adding,
          mgr, dst, todo, done, frees>>

WorkerPc == {"none", "ready", "idle", "waiting", "woken", "dismissed", "leaving",
             "lowering", "unlocking", "start", "run", "exiting", "exited"}
CallPc   == {"out", "waiting", "woken", "late", "unlocking"}
MgrPc    == {"head", "asleep", "busy", "grow", "create", "count", "raise",
             "shrink", "signal", "exited"}
DstPc    == {"open", "joinmgr", "bcast", "join", "free", "freed"}

MgrAtHead == [pc |-> "head", size |-> 0, live |-> 0, busy |-> 0, left |-> 0,
              i |-> 0, reg |-> 0]

PoolExists == dst.pc # "freed"
LockFree   == lock = Null

-----------------------------------------------------------------------------
(* threadpool_create: the struct is malloced, so wait_exit_thr_num and the *)
(* slots of task_queue, which it never writes, hold what malloc left.      *)
Init ==
  /\ lock = Null
  /\ task_queue \in [Slot -> SlotInit]
  /\ queue_front = 0 /\ queue_rear = 0 /\ queue_size = 0
  /\ live_thr_num = MinThr
  /\ busy_thr_num = 0
  /\ wait_exit_thr_num \in WaitExitInit
  /\ shutdown = FALSE
  /\ pc = [w \in Worker |-> IF w < MinThr THEN "ready" ELSE "none"]
  /\ task = [w \in Worker |-> Null]
  /\ reg = [w \in Worker |-> 0]
  /\ call = [c \in Caller |-> "out"]
  /\ adding = [c \in Caller |-> Null]
  /\ mgr = MgrAtHead
  /\ dst = [pc |-> "open", i |-> 0]
  /\ todo = Task
  /\ done = {}
  /\ frees = [a \in Arg \cup {Junk} |-> 0]

(* pthread_cond_signal and pthread_cond_broadcast.                         *)
Waiting == {w \in Worker : pc[w] = "waiting"}

SignalNotEmpty ==
  \/ Waiting = {} /\ pc' = pc
  \/ \E w \in Waiting : pc' = [pc EXCEPT ![w] = "woken"]

NobodyWakes == pc' = pc                             \* mutant of BroadcastNotEmpty
BroadcastNotEmpty ==
  pc' = [w \in Worker |-> IF w \in Waiting THEN "woken" ELSE pc[w]]

NoBroadcast == call' = call                         \* mutant of BroadcastNotFull
BroadcastNotFull ==
  call' = [c \in Caller |-> IF call[c] = "waiting" THEN "woken" ELSE call[c]]

-----------------------------------------------------------------------------
(* threadpool_add                                                          *)

QueueOverfull == queue_size > QueueMax              \* mutant of QueueFull
QueueFull == queue_size = QueueMax

SuccUnwrapped(i) == i + 1                           \* mutant of Succ
Succ(i) == (i + 1) % QueueMax

SlotArg(s) == IF s \in Task THEN ArgOf[s] ELSE s

FrontArg == SlotArg(task_queue[queue_front])        \* mutant of OldArg
OldArg   == SlotArg(task_queue[queue_rear])

\* The task is in the queue: wake a worker that waits for one.
NoSignal   == pc' = pc                              \* mutant of WakeWorker
WakeWorker == SignalNotEmpty

(* The argument left in the rear slot by an earlier task is freed, then    *)
(* the slot, the rear and the size are written and a worker is signalled.  *)
Enqueue(t) ==
  /\ frees' = [a \in DOMAIN frees |->
                 IF a = OldArg THEN frees[a] + 1 ELSE frees[a]]
  /\ task_queue' = [task_queue EXCEPT ![queue_rear] = t]
  /\ queue_rear' = Succ(queue_rear)
  /\ queue_size' = queue_size + 1
  /\ WakeWorker
  /\ UNCHANGED queue_front

(* From the loop on queue_not_full to the return, the lock being taken:    *)
(* wait, go on without the lock after a shutdown, or enqueue.              *)
AddBody(c, t) ==
  \/ /\ QueueFull /\ ~shutdown
     /\ call' = [call EXCEPT ![c] = "waiting"]
     /\ adding' = [adding EXCEPT ![c] = t]
     /\ UNCHANGED <<queueVars, pc, frees>>
  \/ /\ shutdown
     /\ call' = [call EXCEPT ![c] = "late"]
     /\ adding' = [adding EXCEPT ![c] = t]
     /\ UNCHANGED <<queueVars, pc, frees>>
  \/ /\ ~QueueFull /\ ~shutdown
     /\ Enqueue(t)
     /\ call' = [call EXCEPT ![c] = "out"]
     /\ adding' = [adding EXCEPT ![c] = Null]

AddCall(c, t) ==
  /\ PoolExists /\ LockFree
  /\ call[c] = "out" /\ t \in todo
  /\ Orderly => dst.pc = "open"
  /\ todo' = todo \ {t}
  /\ AddBody(c, t)
  /\ UNCHANGED <<lock, thrVars, shutdown, task, reg, mgr, dst, done>>

AddResume(c) ==
  /\ PoolExists /\ LockFree
  /\ call[c] = "woken"
  /\ AddBody(c, adding[c])
  /\ UNCHANGED <<lock, thrVars, shutdown, task, reg, mgr, dst, todo, done>>

(* After a shutdown threadpool_add has unlocked but not returned: it       *)
(* enqueues without the lock and unlocks again, whoever holds it now.  The *)
(* enqueueing is one step although two such calls may overlap: nobody takes*)
(* a task any more.                                                        *)
AddLate(c) ==
  /\ PoolExists
  /\ call[c] = "late"
  /\ Enqueue(adding[c])
  /\ call' = [call EXCEPT ![c] = "unlocking"]
  /\ adding' = [adding EXCEPT ![c] = Null]
  /\ UNCHANGED <<lock, thrVars, shutdown, task, reg, mgr, dst, todo, done>>

AddUnlock(c) ==
  /\ PoolExists
  /\ call[c] = "unlocking"
  /\ lock' = Null
  /\ call' = [call EXCEPT ![c] = "out"]
  /\ UNCHANGED <<queueVars, thrVars, shutdown, pc, task, reg, adding, mgr, dst,
                 todo, done, frees>>

-----------------------------------------------------------------------------
(* threadpool_thread                                                       *)

(* The loop on queue_not_empty, the shutdown test and the dequeue, with    *)
(* the lock held; every way out of it but "idle" gives the lock back.      *)
WorkerBody(w) ==
  \/ /\ queue_size = 0 /\ ~shutdown
     /\ pc' = [pc EXCEPT ![w] = "idle"]
     /\ lock' = w
     /\ UNCHANGED <<queueVars, task, call>>
  \/ /\ shutdown
     /\ pc' = [pc EXCEPT ![w] = "exiting"]
     /\ lock' = Null
     /\ UNCHANGED <<queueVars, task, call>>
  \/ /\ queue_size # 0 /\ ~shutdown
     /\ task' = [task EXCEPT ![w] = task_queue[queue_front]]
     /\ queue_front' = Succ(queue_front)
     /\ queue_size' = queue_size - 1
     /\ BroadcastNotFull
     /\ pc' = [pc EXCEPT ![w] = "start"]
     /\ lock' = Null
     /\ UNCHANGED <<task_queue, queue_rear>>

WorkerEnter(w) ==
  /\ PoolExists /\ LockFree
  /\ pc[w] = "ready"
  /\ WorkerBody(w)
  /\ UNCHANGED <<thrVars, shutdown, reg, adding, mgr, dst, todo, done, frees>>

(* pthread_cond_wait: the thread joins the waiters and gives the lock up.  *)
WorkerWait(w) ==
  /\ PoolExists
  /\ pc[w] = "idle"
  /\ pc' = [pc EXCEPT ![w] = "waiting"]
  /\ lock' = Null
  /\ UNCHANGED <<queueVars, thrVars, shutdown, task, reg, call, adding, mgr, dst,
                 todo, done, frees>>

SpuriousWake(w) ==
  /\ PoolExists /\ Spurious
  /\ pc[w] = "waiting"
  /\ pc' = [pc EXCEPT ![w] = "woken"]
  /\ UNCHANGED <<lock, queueVars, thrVars, shutdown, task, reg, call, adding, mgr,
                 dst, todo, done, frees>>

(* A woken worker that finds wait_exit_thr_num > 0 lowers it and leaves if *)
(* the pool has more than min_thr_num threads, whatever the queue holds.   *)
MayLeaveAnyway == TRUE                              \* mutant of MayLeave
MayLeave == live_thr_num > MinThr

WorkerWake(w) ==
  /\ PoolExists /\ LockFree
  /\ pc[w] = "woken"
  /\ \/ wait_exit_thr_num <= 0 /\ WorkerBody(w) /\ reg' = reg
     \/ /\ wait_exit_thr_num > 0
        /\ pc' = [pc EXCEPT ![w] = "dismissed"]
        /\ lock' = w
        /\ reg' = [reg EXCEPT ![w] = wait_exit_thr_num]
        /\ UNCHANGED <<queueVars, task, call>>
  /\ UNCHANGED <<thrVars, shutdown, adding, mgr, dst, todo, done, frees>>

(* The decrement may use the value that was tested, or read it again.      *)
WorkerDismissed(w) ==
  /\ PoolExists
  /\ pc[w] = "dismissed"
  /\ \E n \in {reg[w], wait_exit_thr_num} : wait_exit_thr_num' = n - 1
  /\ reg' = [reg EXCEPT ![w] = 0]
  /\ \/ /\ MayLeave \/ shutdown
        /\ pc' = [pc EXCEPT ![w] = IF MayLeave THEN "leaving" ELSE "unlocking"]
        /\ UNCHANGED <<lock, queueVars, task, call>>
     \/ ~MayLeave /\ ~shutdown /\ WorkerBody(w)
  /\ UNCHANGED <<live_thr_num, busy_thr_num, shutdown, adding, mgr, dst, todo,
                 done, frees>>

(* live_thr_num--, after the test and a printf, and the unlock.            *)
WorkerLeave(w) ==
  /\ PoolExists
  /\ pc[w] = "leaving"
  /\ reg' = [reg EXCEPT ![w] = live_thr_num]
  /\ pc' = [pc EXCEPT ![w] = "lowering"]
  /\ UNCHANGED <<lock, queueVars, thrVars, shutdown, task, call, adding, mgr,
                 dst, todo, done, frees>>

WorkerLower(w) ==
  /\ PoolExists
  /\ pc[w] = "lowering"
  /\ live_thr_num' = reg[w] - 1
  /\ reg' = [reg EXCEPT ![w] = 0]
  /\ pc' = [pc EXCEPT ![w] = "unlocking"]
  /\ UNCHANGED <<lock, queueVars, busy_thr_num, wait_exit_thr_num, shutdown, task,
                 call, adding, mgr, dst, todo, done, frees>>

WorkerUnlock(w) ==
  /\ PoolExists
  /\ pc[w] = "unlocking"
  /\ lock' = Null
  /\ pc' = [pc EXCEPT ![w] = "exiting"]
  /\ UNCHANGED <<queueVars, thrVars, shutdown, task, reg, call, adding, mgr, dst,
                 todo, done, frees>>

WorkerStart(w) ==
  /\ PoolExists
  /\ pc[w] = "start"
  /\ busy_thr_num' = busy_thr_num + 1
  /\ pc' = [pc EXCEPT ![w] = "run"]
  /\ UNCHANGED <<lock, queueVars, live_thr_num, wait_exit_thr_num, shutdown,
                 task, reg, call, adding, mgr, dst, todo, done, frees>>

(* The function of the task returns and the worker is not busy any more.   *)
WorkerFinish(w) ==
  /\ PoolExists
  /\ pc[w] = "run"
  /\ busy_thr_num' = busy_thr_num - 1
  /\ done' = done \cup {task[w]}
  /\ task' = [task EXCEPT ![w] = Null]
  /\ pc' = [pc EXCEPT ![w] = "ready"]
  /\ UNCHANGED <<lock, queueVars, live_thr_num, wait_exit_thr_num, shutdown,
                 reg, call, adding, mgr, dst, todo, frees>>

(* pthread_exit has been called; from this step on the thread is gone.     *)
WorkerGone(w) ==
  /\ pc[w] = "exiting"
  /\ pc' = [pc EXCEPT ![w] = "exited"]
  /\ UNCHANGED <<lock, queueVars, thrVars, shutdown, task, reg, call, adding, mgr,
                 dst, todo, done, frees>>

-----------------------------------------------------------------------------
(* adjust_thread                                                           *)

MgrUnchanged == UNCHANGED <<queueVars, shutdown, task, reg, call, adding,
                            dst, todo, done, frees, busy_thr_num>>

MgrLoop ==
  /\ PoolExists
  /\ mgr.pc = "head"
  /\ mgr' = [mgr EXCEPT !.pc = IF shutdown THEN "exited" ELSE "asleep"]
  /\ UNCHANGED <<lock, pc, live_thr_num, wait_exit_thr_num>> /\ MgrUnchanged

MgrSample ==
  /\ PoolExists /\ LockFree
  /\ mgr.pc = "asleep"
  /\ mgr' = [mgr EXCEPT !.pc = "busy", !.size = queue_size,
                        !.live = live_thr_num]
  /\ UNCHANGED <<lock, pc, live_thr_num, wait_exit_thr_num>> /\ MgrUnchanged

(* Both decisions are taken on the samples, not on the current values.     *)
WantsGrow(m)   == m.size >= MinWaitTaskNum /\ m.live < MaxThr
WantsShrink(m) == m.busy * 2 < m.live /\ m.live > MinThr

MgrReadBusy ==
  /\ PoolExists
  /\ mgr.pc = "busy"
  /\ LET m == [mgr EXCEPT !.busy = busy_thr_num]
     IN mgr' = IF WantsGrow(m) THEN [m EXCEPT !.pc = "grow"]
               ELSE IF WantsShrink(m) THEN [MgrAtHead EXCEPT !.pc = "shrink"]
               ELSE MgrAtHead
  /\ UNCHANGED <<lock, pc, live_thr_num, wait_exit_thr_num>> /\ MgrUnchanged

(* The slots a new thread may be put in: empty ones, and those whose       *)
(* thread pthread_kill reports as gone.                                    *)
Creatable == {w \in Worker : \/ pc[w] = "none"
                             \/ pc[w] = "exited" /\ KillSeesExit}

MgrGrow ==
  /\ PoolExists /\ LockFree
  /\ mgr.pc = "grow"
  /\ lock' = Adjuster
  /\ mgr' = [mgr EXCEPT !.pc = "create", !.i = 0, !.left = ThreadVary]
  /\ UNCHANGED <<pc, live_thr_num, wait_exit_thr_num>> /\ MgrUnchanged

GoesOnCreating == mgr.i < MaxThr /\ mgr.left > 0 /\ live_thr_num < MaxThr

(* One slot of the loop: a new thread is created before it is counted.     *)
MgrCreate ==
  /\ PoolExists
  /\ mgr.pc = "create" /\ GoesOnCreating
  /\ IF mgr.i \in Creatable
       THEN /\ pc' = [pc EXCEPT ![mgr.i] = "ready"]
            /\ mgr' = [mgr EXCEPT !.pc = "count", !.left = mgr.left - 1]
       ELSE /\ mgr' = [mgr EXCEPT !.i = mgr.i + 1]
            /\ pc' = pc
  /\ UNCHANGED <<lock, live_thr_num, wait_exit_thr_num>> /\ MgrUnchanged

MgrCount ==
  /\ PoolExists
  /\ mgr.pc = "count"
  /\ mgr' = [mgr EXCEPT !.pc = "raise", !.reg = live_thr_num]
  /\ UNCHANGED <<lock, pc, live_thr_num, wait_exit_thr_num>> /\ MgrUnchanged

MgrRaise ==
  /\ PoolExists
  /\ mgr.pc = "raise"
  /\ live_thr_num' = mgr.reg + 1
  /\ mgr' = [mgr EXCEPT !.pc = "create", !.i = mgr.i + 1, !.reg = 0]
  /\ UNCHANGED <<lock, pc, wait_exit_thr_num>> /\ MgrUnchanged

MgrUnlock ==
  /\ PoolExists
  /\ mgr.pc = "create" /\ ~GoesOnCreating
  /\ lock' = Null
  /\ mgr' = [MgrAtHead EXCEPT !.pc = IF WantsShrink(mgr) THEN "shrink"
                                     ELSE "head"]
  /\ UNCHANGED <<pc, live_thr_num, wait_exit_thr_num>> /\ MgrUnchanged

MgrShrink ==
  /\ PoolExists /\ LockFree
  /\ mgr.pc = "shrink"
  /\ wait_exit_thr_num' = ThreadVary
  /\ mgr' = [mgr EXCEPT !.pc = "signal", !.left = ThreadVary]
  /\ UNCHANGED <<lock, pc, live_thr_num>> /\ MgrUnchanged

MgrSignal ==
  /\ PoolExists
  /\ mgr.pc = "signal"
  /\ SignalNotEmpty
  /\ mgr' = [mgr EXCEPT !.left = mgr.left - 1,
                        !.pc = IF mgr.left = 1 THEN "head" ELSE "signal"]
  /\ UNCHANGED <<lock, live_thr_num, wait_exit_thr_num>> /\ MgrUnchanged

-----------------------------------------------------------------------------
(* threadpool_destroy                                                      *)

DstUnchanged == UNCHANGED <<lock, queueVars, thrVars, task, reg, call, adding, mgr,
                            todo, done, frees>>

DestroyCall ==
  /\ Destroys
  /\ dst.pc = "open"
  /\ Orderly => \A c \in Caller : call[c] = "out"
  /\ shutdown' = TRUE
  /\ dst' = [dst EXCEPT !.pc = "joinmgr"]
  /\ UNCHANGED pc /\ DstUnchanged

DestroyJoinManager ==
  /\ dst.pc = "joinmgr"
  /\ mgr.pc = "exited"
  /\ dst' = [dst EXCEPT !.pc = "bcast", !.i = 0]
  /\ UNCHANGED <<pc, shutdown>> /\ DstUnchanged

(* One broadcast per counted thread, without the lock.                     *)
DestroyBroadcast ==
  /\ dst.pc = "bcast"
  /\ IF dst.i < live_thr_num
       THEN /\ BroadcastNotEmpty
            /\ dst' = [dst EXCEPT !.i = dst.i + 1]
       ELSE /\ dst' = [dst EXCEPT !.pc = "join", !.i = 0]
            /\ pc' = pc
  /\ UNCHANGED shutdown /\ DstUnchanged

(* pthread_join of the first live_thr_num handles, in turn.                *)
JoinsLeftShort == dst.i < live_thr_num - 1          \* mutant of JoinsLeft
JoinsLeft == dst.i < live_thr_num

DestroyJoin ==
  /\ dst.pc = "join"
  /\ IF JoinsLeft
       THEN /\ pc[dst.i] = "exited"
            /\ dst' = [dst EXCEPT !.i = dst.i + 1]
       ELSE dst' = [dst EXCEPT !.pc = "free"]
  /\ UNCHANGED <<pc, shutdown>> /\ DstUnchanged

(* threadpool_free, which takes the lock before it destroys it.            *)
DestroyFree ==
  /\ dst.pc = "free" /\ LockFree
  /\ dst' = [dst EXCEPT !.pc = "freed"]
  /\ UNCHANGED <<pc, shutdown>> /\ DstUnchanged

-----------------------------------------------------------------------------
Add(c)     == \/ AddResume(c) \/ AddLate(c) \/ AddUnlock(c)
              \/ \E t \in todo : AddCall(c, t)
WorkerProgress(w) == \/ WorkerEnter(w) \/ WorkerWait(w) \/ WorkerWake(w)
                     \/ WorkerDismissed(w) \/ WorkerLeave(w) \/ WorkerLower(w)
                     \/ WorkerUnlock(w) \/ WorkerStart(w) \/ WorkerFinish(w)
                     \/ WorkerGone(w)
Manager    == \/ MgrLoop \/ MgrSample \/ MgrReadBusy \/ MgrGrow \/ MgrCreate
              \/ MgrCount \/ MgrRaise \/ MgrUnlock \/ MgrShrink \/ MgrSignal
DestroyProgress == \/ DestroyJoinManager \/ DestroyBroadcast \/ DestroyJoin
                   \/ DestroyFree

Next == \/ \E c \in Caller : Add(c)
        \/ \E w \in Worker : WorkerProgress(w) \/ SpuriousWake(w)
        \/ Manager
        \/ DestroyCall
        \/ DestroyProgress

Spec == Init /\ [][Next]_vars

(* Every started thread keeps running and every task function returns.  A  *)
(* thread that wants the mutex gets it if it is free again and again, hence*)
(* strong fairness.  Nobody has to call add or destroy, or wake spuriously.*)
Fairness ==
  /\ \A w \in Worker : SF_vars(WorkerProgress(w))
  /\ \A c \in Caller : SF_vars(AddResume(c) \/ AddLate(c) \/ AddUnlock(c))
  /\ SF_vars(Manager)
  /\ SF_vars(DestroyProgress)

FairSpec == Spec /\ Fairness

-----------------------------------------------------------------------------
(* Properties                                                              *)

InQueue(i) == (queue_front + i) % QueueMax
Queued  == {task_queue[InQueue(i)] : i \in 0 .. queue_size - 1}
Running == {task[w] : w \in {v \in Worker : pc[v] \in {"start", "run"}}}
Alive   == {w \in Worker : pc[w] \notin {"none", "exiting", "exited"}}
Busy    == {w \in Worker : pc[w] = "run"}

(* The fields of threadpool_t and the threads have values of their types.  *)
TypeOK ==
  /\ lock \in Worker \cup {Null, Adjuster}
  /\ task_queue \in [Slot -> Task \cup {Null, Junk}]
  /\ queue_front \in Slot /\ queue_rear \in Slot /\ queue_size \in Nat
  /\ live_thr_num \in Int /\ busy_thr_num \in Int
  /\ wait_exit_thr_num \in Int
  /\ shutdown \in BOOLEAN
  /\ pc \in [Worker -> WorkerPc]
  /\ task \in [Worker -> Task \cup {Null, Junk}]
  /\ reg \in [Worker -> Int]
  /\ call \in [Caller -> CallPc]
  /\ adding \in [Caller -> Task \cup {Null}]
  /\ mgr \in [pc : MgrPc, size : Nat, live : Int, busy : Int, left : Int,
             i : Nat, reg : Int]
  /\ dst \in [pc : DstPc, i : Nat]
  /\ todo \subseteq Task /\ done \subseteq Task \cup {Null, Junk}
  /\ frees \in [Arg \cup {Junk} -> Nat]

(* live_thr_num, on which growing, shrinking and the joins of destroy rely,*)
(* stays between the two sizes given to threadpool_create although the     *)
(* manager decides on stale samples, and whenever nobody holds the lock it *)
(* is exactly the number of threads that have not exited.  All this ends   *)
(* with the shutdown: threadpool_add may then give away the lock of a      *)
(* thread that has tested live_thr_num and not yet written it.             *)
LiveCountExact ==
  ~shutdown => /\ MinThr <= live_thr_num /\ live_thr_num <= MaxThr
               /\ LockFree => live_thr_num = Cardinality(Alive)

(* busy_thr_num, by which the manager decides to shrink, is the number of  *)
(* workers inside a task function: a worker counts itself before it runs a *)
(* task, whatever the manager, the callers and a destroy do meanwhile.     *)
BusyCountExact == busy_thr_num = Cardinality(Busy)

(* The ring: the rear is queue_size slots past the front, the size is      *)
(* within the capacity, and the slots in between hold distinct tasks that  *)
(* no worker has taken.  It holds until the shutdown: threadpool_add then  *)
(* writes to the ring without the lock.                                    *)
RingConsistent ==
  ~shutdown =>
    /\ queue_size <= QueueMax
    /\ queue_rear = (queue_front + queue_size) % QueueMax
    /\ Queued \subseteq Task
    /\ \A i, j \in 0 .. queue_size - 1 :
         task_queue[InQueue(i)] = task_queue[InQueue(j)] => i = j
    /\ Queued \cap (Running \cup done \cup todo) = {}

(* No task is being executed by two workers, and none that has finished.   *)
TaskTakenOnce ==
  \A v, w \in Worker :
    task[v] # Null => /\ task[v] \notin done \cup todo
                      /\ (task[v] = task[w] => v = w)

(* The argument threadpool_add frees when it reuses a slot belongs to a    *)
(* task that left the queue, and no argument is freed twice: "free" of     *)
(* threadpool_add never meets an argument still waiting in the queue, as   *)
(* long as that task alone has it.  An argument that tasks share, as all   *)
(* those of epoll2.cpp:203 do, is safe until every slot was used once.     *)
Sole == {a \in Arg : \A t, u \in Task : ArgOf[t] = a /\ ArgOf[u] = a => t = u}

QueuedArgIntact ==
  ~shutdown =>
    /\ \A t \in Queued : ArgOf[t] \in Sole => frees[ArgOf[t]] = 0
    /\ \A a \in Sole : frees[a] <= 1
    /\ (\E s \in Slot : task_queue[s] \notin Task) => \A a \in Arg : frees[a] = 0

(* threadpool.c:288: shutdown is written and broadcast without the lock, so*)
(* a worker between its test and its wait misses both and is never joined. *)
(* There is at most one: whatever the pool grew or shrank to, and whoever  *)
(* adds tasks meanwhile, every other worker is awake after the broadcasts. *)
Asleep(w) == pc[w] \in {"idle", "waiting"}

OneMissesShutdown ==
  dst.pc \in {"join", "free", "freed"} =>
    \A v, w \in Worker : Asleep(v) /\ Asleep(w) => v = w

(* A thread waits for work only if no task waits for a thread: a task in   *)
(* the queue while workers sleep has a woken or working thread on its way. *)
NoForgottenTask ==
  ~shutdown /\ queue_size > 0 =>
    \E w \in Worker : pc[w] \in {"ready", "woken", "dismissed", "start", "run"}

(* threadpool.c:153 says that adding a task wakes a waiting thread of the  *)
(* pool: a task in the queue is taken, as long as nobody destroys the pool.*)
TaskServed ==
  \A t \in Task : (t \in Queued) ~> (t \in done \/ shutdown)

(* A caller blocked on a full queue returns once a slot is free.           *)
AddReturns ==
  \A c \in Caller : (call[c] \in {"waiting", "woken"}) ~> (call[c] = "out" \/ shutdown)

(* threadpool.h:28: the pool is destroyed after its threads have stopped:  *)
(* when threadpool_free runs, every worker has left.                       *)
NoThreadOutlivesPool ==
  dst.pc \in {"free", "freed"} => Alive = {}

(* Refinement: the ring, read from the front, is the abstract queue.       *)
TQ == INSTANCE TaskQueue WITH
        Capacity <- QueueMax,
        pending <- [i \in 1 .. queue_size |-> task_queue[InQueue(i - 1)]],
        running <- Running

RefinesTaskQueue == TQ!TQSpec
=============================================================================
