-------------------------- MODULE ThreadPoolProofs --------------------------
(***************************************************************************)
(* Theorems about ThreadPool, for every number of threads, slots, callers  *)
(* and tasks, and for every choice of the platform constants: what its     *)
(* counters count and, for a pool of a fixed size, min_thr_num equal to    *)
(* max_thr_num, that no task waits while every worker sleeps and that      *)
(* threadpool_free finds no thread alive.                                  *)
(*                                                                         *)
(* Then theorems about its ring: until the shutdown it holds each waiting  *)
(* task once, no task is taken twice, no argument of a waiting task is     *)
(* freed if each task has its own, and, if no threadpool_add overlaps or   *)
(* follows the destroy, the pool implements TaskQueue.                     *)
(***************************************************************************)
EXTENDS ThreadPool, FiniteSetTheorems, SequenceTheorems, TLAPS

(* Signals and broadcasts move workers between legal places only.          *)
LEMMA SignalType ==
  ASSUME pc \in [Worker -> WorkerPc],
         SignalNotEmpty \/ BroadcastNotEmpty
  PROVE  pc' \in [Worker -> WorkerPc]
BY DEF SignalNotEmpty, BroadcastNotEmpty, Waiting, WorkerPc

LEMMA SuccType == \A i \in Slot : Succ(i) \in Slot
BY SizeAssumption DEF Succ, Slot

(* Writing a task of the right type into the ring keeps the ring's types.  *)
LEMMA EnqueueType ==
  ASSUME TypeOK, NEW t \in Task \cup {Null, Junk}, Enqueue(t)
  PROVE  /\ task_queue' \in [Slot -> Task \cup {Null, Junk}]
         /\ queue_front' \in Slot /\ queue_rear' \in Slot /\ queue_size' \in Nat
         /\ pc' \in [Worker -> WorkerPc]
         /\ frees' \in [Arg \cup {Junk} -> Nat]
<1>1. pc' \in [Worker -> WorkerPc]
  BY SignalType DEF TypeOK, Enqueue, WakeWorker
<1>2. queue_rear' \in Slot
  BY SuccType DEF TypeOK, Enqueue, WakeWorker
<1>3. frees' \in [Arg \cup {Junk} -> Nat]
  BY DEF TypeOK, Enqueue, WakeWorker
<1> QED  BY <1>1, <1>2, <1>3 DEF TypeOK, Enqueue, WakeWorker

LEMMA AddBodyType ==
  ASSUME TypeOK, NEW c \in Caller, NEW t \in Task \cup {Null}, AddBody(c, t)
  PROVE  /\ task_queue' \in [Slot -> Task \cup {Null, Junk}]
         /\ queue_front' \in Slot /\ queue_rear' \in Slot /\ queue_size' \in Nat
         /\ pc' \in [Worker -> WorkerPc]
         /\ frees' \in [Arg \cup {Junk} -> Nat]
         /\ call' \in [Caller -> CallPc]
         /\ adding' \in [Caller -> Task \cup {Null}]
<1>1. CASE Enqueue(t) /\ call' = [call EXCEPT ![c] = "out"]
                      /\ adding' = [adding EXCEPT ![c] = Null]
  BY <1>1, EnqueueType DEF TypeOK, CallPc
<1>2. CASE /\ call' \in {[call EXCEPT ![c] = "waiting"], [call EXCEPT ![c] = "late"]}
           /\ adding' = [adding EXCEPT ![c] = t]
           /\ UNCHANGED <<queueVars, pc, frees>>
  BY <1>2 DEF TypeOK, CallPc, queueVars
<1> QED  BY <1>1, <1>2 DEF AddBody

LEMMA WorkerBodyType ==
  ASSUME TypeOK, NEW w \in Worker, WorkerBody(w)
  PROVE  /\ lock' \in Worker \cup {Null, Adjuster}
         /\ task_queue' \in [Slot -> Task \cup {Null, Junk}]
         /\ queue_front' \in Slot /\ queue_rear' \in Slot /\ queue_size' \in Nat
         /\ pc' \in [Worker -> WorkerPc]
         /\ task' \in [Worker -> Task \cup {Null, Junk}]
         /\ call' \in [Caller -> CallPc]
<1>1. CASE queue_size # 0 /\ ~shutdown
  <2>1. call' \in [Caller -> CallPc]
    BY <1>1 DEF TypeOK, WorkerBody, BroadcastNotFull, CallPc
  <2>2. queue_front' \in Slot
    BY <1>1, SuccType DEF TypeOK, WorkerBody
  <2> QED  BY <1>1, <2>1, <2>2 DEF TypeOK, WorkerBody, WorkerPc
<1>2. CASE queue_size = 0 \/ shutdown
  BY <1>2 DEF TypeOK, WorkerBody, WorkerPc, queueVars
<1> QED  BY <1>1, <1>2

LEMMA WorkerTypes ==
  ASSUME TypeOK, NEW w \in Worker, WorkerProgress(w) \/ SpuriousWake(w)
  PROVE  TypeOK'
<1>1. CASE WorkerEnter(w)
  BY <1>1, WorkerBodyType DEF TypeOK, WorkerEnter, thrVars
<1>2. CASE WorkerWake(w)
  <2>1. CASE WorkerBody(w) /\ reg' = reg
    BY <1>2, <2>1, WorkerBodyType DEF TypeOK, WorkerWake, thrVars
  <2>2. CASE /\ pc' = [pc EXCEPT ![w] = "dismissed"] /\ lock' = w
             /\ reg' = [reg EXCEPT ![w] = wait_exit_thr_num]
             /\ UNCHANGED <<queueVars, task, call>>
    BY <1>2, <2>2 DEF TypeOK, WorkerWake, WorkerPc, queueVars, thrVars
  <2> QED
    BY <1>2, <2>1, <2>2 DEF WorkerWake
<1>3. CASE WorkerWait(w) \/ SpuriousWake(w) \/ WorkerGone(w)
  BY <1>3 DEF TypeOK, WorkerWait, SpuriousWake, WorkerGone, WorkerPc,
              queueVars, thrVars
<1>4. CASE WorkerDismissed(w)
  <2>1. /\ reg' \in [Worker -> Int] /\ wait_exit_thr_num' \in Int
        /\ UNCHANGED <<live_thr_num, busy_thr_num, shutdown, adding, mgr, dst, todo,
                       done, frees>>
    BY <1>4 DEF TypeOK, WorkerDismissed
  <2>2. CASE WorkerBody(w)
    BY <2>1, <2>2, WorkerBodyType DEF TypeOK
  <2>3. CASE /\ pc' = [pc EXCEPT ![w] = IF MayLeave THEN "leaving" ELSE "unlocking"]
             /\ UNCHANGED <<lock, queueVars, task, call>>
    BY <2>1, <2>3 DEF TypeOK, WorkerPc, queueVars
  <2> QED
    BY <1>4, <2>2, <2>3 DEF WorkerDismissed
<1>7. CASE WorkerLeave(w) \/ WorkerLower(w) \/ WorkerUnlock(w)
  BY <1>7 DEF TypeOK, WorkerLeave, WorkerLower, WorkerUnlock, WorkerPc, queueVars,
              thrVars
<1>5. CASE WorkerStart(w)
  BY <1>5 DEF TypeOK, WorkerStart, WorkerPc, queueVars
<1>6. CASE WorkerFinish(w)
  BY <1>6 DEF TypeOK, WorkerFinish, WorkerPc, queueVars
<1> QED  BY <1>1, <1>2, <1>3, <1>4, <1>5, <1>6, <1>7 DEF WorkerProgress

LEMMA CallerTypes ==
  ASSUME TypeOK, NEW c \in Caller, Add(c)
  PROVE  TypeOK'
<1>1. CASE AddResume(c)
  BY <1>1, AddBodyType DEF TypeOK, AddResume, thrVars
<1>2. CASE AddLate(c)
  BY <1>2, EnqueueType DEF TypeOK, AddLate, CallPc, thrVars
<1>3. ASSUME NEW t \in todo, AddCall(c, t)
      PROVE  TypeOK'
  BY <1>3, AddBodyType DEF TypeOK, AddCall, thrVars
<1>4. CASE AddUnlock(c)
  BY <1>4 DEF TypeOK, AddUnlock, CallPc, queueVars, thrVars
<1> QED  BY <1>1, <1>2, <1>3, <1>4 DEF Add

LEMMA WorkerFinite == IsFiniteSet(Worker)
BY SizeAssumption, FS_Interval DEF Worker

LEMMA CardinalityNat ==
  \A S \in SUBSET Worker : IsFiniteSet(S) /\ Cardinality(S) \in Nat
BY WorkerFinite, FS_Subset, FS_CardinalityType

MgrType == [pc : MgrPc, size : Nat, live : Int, busy : Int, left : Int,
            i : Nat, reg : Int]

(* The manager's local variables keep their types.                         *)
LEMMA ManagerLocals ==
  ASSUME TypeOK, Manager
  PROVE  mgr' \in MgrType
<1>1. /\ mgr \in MgrType
      /\ queue_size \in Nat /\ live_thr_num \in Int /\ busy_thr_num \in Int
      /\ ThreadVary \in Int /\ mgr.left - 1 \in Int /\ mgr.i + 1 \in Nat
  BY SizeAssumption DEF TypeOK, MgrType
<1>2. MgrAtHead \in MgrType /\ [MgrAtHead EXCEPT !.pc = "shrink"] \in MgrType
  BY DEF MgrAtHead, MgrType, MgrPc
<1>3. CASE MgrLoop
  BY <1>1, <1>3 DEF MgrLoop, MgrPc, MgrType
<1>4. CASE MgrSample
  BY <1>1, <1>4 DEF MgrSample, MgrPc, MgrType
<1>5. CASE MgrReadBusy
  <2>1. [[mgr EXCEPT !.busy = busy_thr_num] EXCEPT !.pc = "grow"] \in MgrType
    BY <1>1 DEF MgrPc, MgrType
  <2> QED
    BY <1>2, <1>5, <2>1 DEF MgrReadBusy
<1>6. CASE MgrGrow
  <2>1. ThreadVary \in Int /\ 0 \in Nat
    BY <1>1
  <2> QED
    BY <1>1, <1>6, <2>1 DEF MgrGrow, MgrPc, MgrType
<1>9. CASE MgrCreate \/ MgrCount \/ MgrRaise
  <2>1. mgr.left - 1 \in Int /\ mgr.i + 1 \in Nat
    BY <1>1
  <2>2. CASE MgrCreate
    <3>1. \/ mgr' = [mgr EXCEPT !.pc = "count", !.left = mgr.left - 1]
          \/ mgr' = [mgr EXCEPT !.i = mgr.i + 1]
      BY <2>2 DEF MgrCreate
    <3> QED
      BY <1>1, <2>1, <3>1 DEF MgrPc, MgrType
  <2>3. CASE MgrCount
    BY <1>1, <2>3 DEF MgrCount, MgrPc, MgrType
  <2>4. CASE MgrRaise
    <3>1. mgr' = [mgr EXCEPT !.pc = "create", !.i = mgr.i + 1, !.reg = 0] /\ 0 \in Int
      BY <2>4 DEF MgrRaise
    <3> QED
      BY <1>1, <2>1, <3>1 DEF MgrPc, MgrType
  <2> QED
    BY <1>9, <2>2, <2>3, <2>4
<1>7. CASE MgrUnlock
  BY <1>2, <1>7 DEF MgrUnlock, MgrAtHead, MgrPc, MgrType
<1>8. CASE MgrShrink \/ MgrSignal
  BY <1>1, <1>8 DEF MgrShrink, MgrSignal, MgrPc, MgrType
<1> QED
  BY <1>3, <1>4, <1>5, <1>6, <1>7, <1>8, <1>9 DEF Manager

LEMMA ManagerTypes ==
  ASSUME TypeOK, Manager
  PROVE  TypeOK'
<1>1. pc' \in [Worker -> WorkerPc]
  <2>1. CASE MgrCreate
    BY <2>1 DEF TypeOK, MgrCreate, WorkerPc
  <2>2. CASE MgrSignal
    BY <2>2, SignalType DEF TypeOK, MgrSignal
  <2> QED  BY <2>1, <2>2 DEF TypeOK, Manager, MgrLoop, MgrSample, MgrReadBusy,
                             MgrGrow, MgrCount, MgrRaise, MgrUnlock, MgrShrink
<1>2. live_thr_num' \in Int /\ lock' \in Worker \cup {Null, Adjuster}
  BY DEF TypeOK, Manager, MgrLoop, MgrSample, MgrReadBusy, MgrGrow, MgrCreate,
         MgrCount, MgrRaise, MgrUnlock, MgrShrink, MgrSignal
<1>3. wait_exit_thr_num' \in Int
  BY SizeAssumption DEF TypeOK, Manager, MgrLoop, MgrSample, MgrReadBusy,
                        MgrGrow, MgrCreate, MgrCount, MgrRaise, MgrUnlock,
                        MgrShrink, MgrSignal
<1>4. MgrUnchanged
  BY DEF Manager, MgrLoop, MgrSample, MgrReadBusy, MgrGrow, MgrCreate, MgrCount,
         MgrRaise, MgrUnlock, MgrShrink, MgrSignal
<1> QED  BY <1>1, <1>2, <1>3, <1>4, ManagerLocals
            DEF TypeOK, MgrType, MgrUnchanged, queueVars

LEMMA DestroyerTypes ==
  ASSUME TypeOK, DestroyCall \/ DestroyProgress
  PROVE  TypeOK'
<1>1. dst' \in [pc : DstPc, i : Nat]
  <2>1. dst \in [pc : DstPc, i : Nat] /\ dst.i + 1 \in Nat
    BY DEF TypeOK
  <2>2. \A p \in DstPc, n \in Nat :
          /\ [dst EXCEPT !.pc = p] \in [pc : DstPc, i : Nat]
          /\ [dst EXCEPT !.i = n] \in [pc : DstPc, i : Nat]
          /\ [dst EXCEPT !.pc = p, !.i = n] \in [pc : DstPc, i : Nat]
    BY <2>1
  <2>3. \E p \in DstPc, n \in Nat :
          dst' \in {[dst EXCEPT !.pc = p], [dst EXCEPT !.i = n],
                   [dst EXCEPT !.pc = p, !.i = n]}
    BY <2>1 DEF DestroyCall, DestroyProgress, DestroyJoinManager,
                DestroyBroadcast, DestroyJoin, DestroyFree, DstPc
  <2> QED  BY <2>2, <2>3
<1>2. pc' \in [Worker -> WorkerPc]
  <2>1. CASE DestroyBroadcast
    BY <2>1, SignalType DEF TypeOK, DestroyBroadcast
  <2> QED  BY <2>1 DEF TypeOK, DestroyProgress, DestroyCall,
                       DestroyJoinManager, DestroyJoin, DestroyFree
<1>3. shutdown' \in BOOLEAN /\ DstUnchanged
  BY DEF TypeOK, DestroyProgress, DestroyCall, DestroyJoinManager,
         DestroyBroadcast, DestroyJoin, DestroyFree
<1> QED  BY <1>1, <1>2, <1>3 DEF TypeOK, DstUnchanged, queueVars, thrVars

(* Type correctness of the pool, whoever calls it and however it resizes.  *)
THEOREM PoolTypeCorrect == Spec => []TypeOK
<1>1. Init => TypeOK
  <2> SUFFICES ASSUME Init PROVE TypeOK
    OBVIOUS
  <2>1. 0 \in Slot /\ MinThr \in Int
    BY SizeAssumption DEF Slot
  <2>2. task_queue \in [Slot -> Task \cup {Null, Junk}]
    BY ArgAssumption DEF Init
  <2>3. wait_exit_thr_num \in Int
    BY ArgAssumption DEF Init
  <2>4. mgr \in MgrType /\ dst \in [pc : DstPc, i : Nat]
    BY DEF Init, MgrAtHead, MgrType, MgrPc, DstPc
  <2>5. /\ pc \in [Worker -> WorkerPc]
        /\ call \in [Caller -> CallPc]
    BY DEF Init, WorkerPc, CallPc
  <2>6. /\ lock = Null /\ reg \in [Worker -> Int]
        /\ task \in [Worker -> Task \cup {Null, Junk}]
        /\ adding \in [Caller -> Task \cup {Null}]
        /\ frees \in [Arg \cup {Junk} -> Nat]
    BY DEF Init
  <2>7. /\ queue_front = 0 /\ queue_rear = 0 /\ queue_size = 0 /\ live_thr_num = MinThr
        /\ busy_thr_num = 0 /\ shutdown = FALSE /\ todo = Task /\ done = {}
        /\ 0 \in Int /\ 0 \in Nat
    BY DEF Init
  <2> QED  BY <2>1, <2>2, <2>3, <2>4, <2>5, <2>6, <2>7 DEF TypeOK, MgrType
<1>2. TypeOK /\ [Next]_vars => TypeOK'
  <2> SUFFICES ASSUME TypeOK, [Next]_vars PROVE TypeOK'
    OBVIOUS
  <2>1. CASE UNCHANGED vars
    BY <2>1 DEF TypeOK, vars, queueVars, thrVars
  <2> QED
    BY <2>1, CallerTypes, WorkerTypes, ManagerTypes, DestroyerTypes DEF Next
<1> QED  BY <1>1, <1>2, PTL DEF Spec

-----------------------------------------------------------------------------
(***************************************************************************)
(* Until the shutdown a thread inside one of the sections that take more   *)
(* than a step has the lock; threadpool_add gives it away only afterwards. *)
(***************************************************************************)
Inside(w) == pc[w] \in {"idle", "dismissed", "leaving", "lowering", "unlocking"}
Adjusting == mgr.pc \in {"create", "count", "raise"}

Locks ==
  /\ (dst.pc = "open") = ~shutdown
  /\ \A c \in Caller : call[c] \in {"late", "unlocking"} => shutdown
  /\ ~shutdown => /\ \A w \in Worker : Inside(w) => lock = w
                  /\ Adjusting => lock = Adjuster

LEMMA BroadcastCalls ==
  ASSUME TypeOK, BroadcastNotFull
  PROVE  \A c \in Caller : \A l \in {"out", "late", "unlocking"} :
           (call'[c] = l) = (call[c] = l)
BY DEF TypeOK, BroadcastNotFull

(* Signals and broadcasts leave everybody where it is who does not wait.   *)
LEMMA SignalMoves ==
  ASSUME TypeOK, SignalNotEmpty \/ BroadcastNotEmpty \/ pc' = pc
  PROVE  \A w \in Worker :
           pc'[w] = pc[w] \/ (pc[w] = "waiting" /\ pc'[w] = "woken")
BY DEF TypeOK, SignalNotEmpty, BroadcastNotEmpty, Waiting

LEMMA BodyMoves ==
  ASSUME TypeOK, NEW w \in Worker, WorkerBody(w)
  PROVE  /\ \A v \in Worker \ {w} : pc'[v] = pc[v]
         /\ pc'[w] \in {"idle", "exiting", "start"}
         /\ pc'[w] = "idle" => lock' = w /\ ~shutdown
         /\ pc'[w] # "idle" => lock' = Null
         /\ ~shutdown => pc'[w] # "exiting"
         /\ \A c \in Caller : \A l \in {"out", "late", "unlocking"} :
              (call'[c] = l) = (call[c] = l)
BY BroadcastCalls DEF WorkerBody, TypeOK

LEMMA AddMoves ==
  ASSUME TypeOK, Locks, NEW c \in Caller, Add(c)
  PROVE  /\ SignalNotEmpty \/ pc' = pc
         /\ UNCHANGED <<live_thr_num, shutdown, reg, mgr, dst>>
         /\ lock' = lock \/ shutdown
         /\ \A d \in Caller : call'[d] \in {"late", "unlocking"} => shutdown
<1>1. CASE \E t \in todo : AddCall(c, t)
  BY <1>1 DEF AddCall, AddBody, Enqueue, WakeWorker, thrVars, Locks, TypeOK
<1>2. CASE AddResume(c)
  BY <1>2 DEF AddResume, AddBody, Enqueue, WakeWorker, thrVars, Locks, TypeOK
<1>3. CASE AddLate(c) \/ AddUnlock(c)
  BY <1>3 DEF AddLate, AddUnlock, Enqueue, WakeWorker, thrVars, Locks, TypeOK
<1> QED
  BY <1>1, <1>2, <1>3 DEF Add

(* What a worker's step does to its place, to the lock and to the counter. *)
LEMMA WorkerMoves ==
  ASSUME TypeOK, NEW w \in Worker, WorkerProgress(w) \/ SpuriousWake(w)
  PROVE  /\ \A v \in Worker \ {w} : pc'[v] = pc[v] /\ reg'[v] = reg[v]
         /\ UNCHANGED <<shutdown, mgr, dst>>
         /\ ~Inside(w) => LockFree \/ (lock' = lock /\ ~Inside(w)')
         /\ Inside(w)' => lock' = w \/ (Inside(w) /\ lock' = lock)
         /\ ~WorkerLower(w) => live_thr_num' = live_thr_num
         /\ \A c \in Caller : \A l \in {"out", "late", "unlocking"} :
              (call'[c] = l) = (call[c] = l)
<1>1. CASE WorkerEnter(w)
  BY <1>1, BodyMoves DEF WorkerEnter, thrVars, Inside
<1>2. CASE WorkerWake(w)
  <2>1. CASE WorkerBody(w) /\ reg' = reg
    BY <1>2, <2>1, BodyMoves DEF WorkerWake, thrVars, Inside
  <2>2. CASE ~(WorkerBody(w) /\ reg' = reg)
    BY <1>2, <2>2 DEF WorkerWake, thrVars, Inside, TypeOK
  <2> QED
    BY <2>1, <2>2
<1>3. CASE WorkerDismissed(w)
  <2>1. CASE WorkerBody(w)
    BY <1>3, <2>1, BodyMoves DEF WorkerDismissed, Inside, TypeOK
  <2>2. CASE ~WorkerBody(w)
    BY <1>3, <2>2 DEF WorkerDismissed, Inside, TypeOK
  <2> QED
    BY <2>1, <2>2
<1>4. CASE WorkerLeave(w) \/ WorkerLower(w) \/ WorkerUnlock(w) \/ WorkerWait(w)
  BY <1>4 DEF WorkerLeave, WorkerLower, WorkerUnlock, WorkerWait, thrVars, Inside,
              TypeOK
<1>5. CASE SpuriousWake(w) \/ WorkerStart(w) \/ WorkerFinish(w) \/ WorkerGone(w)
  BY <1>5 DEF SpuriousWake, WorkerStart, WorkerFinish, WorkerGone, thrVars, Inside,
              TypeOK
<1> QED
  BY <1>1, <1>2, <1>3, <1>4, <1>5 DEF WorkerProgress

(* The manager creates a thread while it has the lock, and one at a time.  *)
LEMMA ManagerMoves ==
  ASSUME TypeOK, Manager
  PROVE  /\ UNCHANGED <<shutdown, call, reg, dst>>
         /\ ~MgrCreate => SignalNotEmpty \/ pc' = pc
         /\ MgrCreate => \A w \in Worker : \/ pc'[w] = pc[w]
                                           \/ /\ pc[w] \in {"none", "exited"}
                                              /\ pc'[w] = "ready"
         /\ ~MgrRaise => live_thr_num' = live_thr_num
<1>1. MgrUnchanged
  BY DEF Manager, MgrLoop, MgrSample, MgrReadBusy, MgrGrow, MgrCreate, MgrCount,
         MgrRaise, MgrUnlock, MgrShrink, MgrSignal
<1>2. ~MgrCreate => SignalNotEmpty \/ pc' = pc
  BY DEF Manager, MgrLoop, MgrSample, MgrReadBusy, MgrGrow, MgrCount,
         MgrRaise, MgrUnlock, MgrShrink, MgrSignal
<1>3. MgrCreate => \A w \in Worker : \/ pc'[w] = pc[w]
                                     \/ /\ pc[w] \in {"none", "exited"}
                                        /\ pc'[w] = "ready"
  BY DEF MgrCreate, Creatable, TypeOK
<1>4. ~MgrRaise => live_thr_num' = live_thr_num
  BY DEF Manager, MgrLoop, MgrSample, MgrReadBusy, MgrGrow, MgrCreate, MgrCount,
         MgrUnlock, MgrShrink, MgrSignal
<1> QED
  BY <1>1, <1>2, <1>3, <1>4 DEF MgrUnchanged

LEMMA ManagerLock ==
  ASSUME TypeOK, Manager
  PROVE  /\ ~Adjusting => LockFree \/ (lock' = lock /\ ~Adjusting')
         /\ Adjusting' => lock' = Adjuster \/ (Adjusting /\ lock' = lock)
<1>1. mgr \in MgrType
  BY DEF TypeOK, MgrType
<1>2. CASE MgrLoop \/ MgrSample \/ MgrShrink \/ MgrSignal
  BY <1>1, <1>2 DEF MgrLoop, MgrSample, MgrShrink, MgrSignal, Adjusting, MgrType
<1>3. CASE MgrReadBusy
  <2>1. mgr'.pc \in {"grow", "shrink", "head"}
    BY <1>1, <1>3 DEF MgrReadBusy, MgrAtHead, MgrType
  <2> QED
    BY <1>3, <2>1 DEF MgrReadBusy, Adjusting
<1>4. CASE MgrGrow \/ MgrCreate \/ MgrCount \/ MgrRaise
  BY <1>1, <1>4 DEF MgrGrow, MgrCreate, MgrCount, MgrRaise, Adjusting, MgrType
<1>5. CASE MgrUnlock
  <2>1. mgr'.pc \in {"shrink", "head"}
    BY <1>5 DEF MgrUnlock, MgrAtHead
  <2> QED
    BY <1>5, <2>1 DEF MgrUnlock, Adjusting
<1> QED
  BY <1>2, <1>3, <1>4, <1>5 DEF Manager

LEMMA DestroyerMoves ==
  ASSUME TypeOK, DestroyCall \/ DestroyProgress
  PROVE  /\ BroadcastNotEmpty \/ pc' = pc
         /\ UNCHANGED <<lock, live_thr_num, call, reg, mgr>>
         /\ dst'.pc # "open"
         /\ DestroyCall => shutdown'
         /\ DestroyProgress => shutdown' = shutdown /\ dst.pc # "open"
<1>1. dst \in [pc : DstPc, i : Nat]
  BY DEF TypeOK
<1>2. DestroyCall => /\ pc' = pc /\ DstUnchanged /\ dst'.pc = "joinmgr"
                     /\ shutdown' /\ dst.pc = "open"
  BY <1>1 DEF DestroyCall
<1>3. DestroyJoinManager \/ DestroyJoin \/ DestroyFree =>
        /\ pc' = pc /\ DstUnchanged /\ dst'.pc # "open"
        /\ shutdown' = shutdown /\ dst.pc # "open"
  BY <1>1 DEF DestroyJoinManager, DestroyJoin, DestroyFree
<1>4. DestroyBroadcast =>
        /\ BroadcastNotEmpty \/ pc' = pc
        /\ DstUnchanged /\ dst'.pc # "open"
        /\ shutdown' = shutdown /\ dst.pc # "open"
  BY <1>1 DEF DestroyBroadcast
<1> QED
  BY <1>2, <1>3, <1>4 DEF DestroyProgress, DstUnchanged, thrVars

LEMMA LocksStep ==
  ASSUME TypeOK, Locks, [Next]_vars
  PROVE  Locks'
<1>1. CASE UNCHANGED vars
  BY <1>1 DEF vars, Locks, Inside, Adjusting
<1>2. ASSUME NEW c \in Caller, Add(c) PROVE Locks'
  <2>1. \A w \in Worker : Inside(w)' = Inside(w)
    BY <1>2, AddMoves, SignalMoves DEF Inside
  <2> QED
    BY <1>2, <2>1, AddMoves DEF Locks, Adjusting
<1>3. ASSUME NEW w \in Worker, WorkerProgress(w) \/ SpuriousWake(w) PROVE Locks'
  <2>1. \A v \in Worker \ {w} : Inside(v)' = Inside(v)
    BY <1>3, WorkerMoves DEF Inside
  <2>2. \A c \in Caller : call'[c] \in {"late", "unlocking"} => shutdown
    BY <1>3, WorkerMoves DEF Locks
  <2>3. ASSUME ~shutdown
        PROVE  /\ \A v \in Worker : Inside(v)' => lock' = v
               /\ Adjusting' => lock' = Adjuster
    <3>1. Null # Adjuster /\ \A v \in Worker : v # Adjuster /\ v # Null
      BY ArgAssumption, SizeAssumption DEF Worker, Adjuster
    <3>2. CASE LockFree \/ lock = w
      <4>1. ~Adjusting /\ \A v \in Worker \ {w} : ~Inside(v)
        BY <2>3, <3>1, <3>2 DEF Locks, LockFree
      <4>2. Inside(w)' => lock' = w
        BY <1>3, <2>3, WorkerMoves DEF Locks
      <4> QED
        BY <1>3, <2>1, <4>1, <4>2, WorkerMoves DEF Adjusting
    <3>3. CASE ~LockFree /\ lock # w
      <4>1. ~Inside(w) /\ lock' = lock /\ ~Inside(w)'
        BY <1>3, <2>3, <3>3, WorkerMoves DEF Locks
      <4> QED
        BY <1>3, <2>1, <2>3, <4>1, WorkerMoves DEF Locks, Adjusting
    <3> QED
      BY <3>2, <3>3
  <2> QED
    BY <1>3, <2>2, <2>3, WorkerMoves DEF Locks
<1>4. CASE Manager
  <2>1. \A w \in Worker : Inside(w)' = Inside(w)
    BY <1>4, ManagerMoves, SignalMoves DEF Inside
  <2>2. Null # Adjuster /\ \A v \in Worker : v # Adjuster /\ v # Null
    BY ArgAssumption, SizeAssumption DEF Worker, Adjuster
  <2> QED
    BY <1>4, <2>1, <2>2, ManagerMoves, ManagerLock DEF Locks, LockFree
<1>5. CASE DestroyCall \/ DestroyProgress
  <2>1. \A w \in Worker : Inside(w)' = Inside(w)
    BY <1>5, DestroyerMoves, SignalMoves DEF Inside
  <2> QED
    BY <1>5, <2>1, DestroyerMoves DEF Locks, Adjusting
<1> QED
  BY <1>1, <1>2, <1>3, <1>4, <1>5 DEF Next

LEMMA LocksHold == Spec => [](TypeOK /\ Locks)
<1>1. Init => Locks
  BY DEF Init, Locks, Inside, Adjusting, MgrAtHead
<1>2. TypeOK /\ Locks /\ [Next]_vars => Locks'
  BY LocksStep
<1> QED
  BY <1>1, <1>2, PoolTypeCorrect, PTL DEF Spec

-----------------------------------------------------------------------------
(***************************************************************************)
(* live_thr_num until the shutdown.  A retiring worker lowers it before it *)
(* unlocks, the manager raises it after it has created a thread.           *)
(***************************************************************************)
Counted == {w \in Worker : pc[w] \notin {"none", "unlocking", "exiting", "exited"}}
Created == mgr.pc \in {"count", "raise"}
Due     == IF Created THEN 1 ELSE 0
Retires(w) == pc[w] \in {"leaving", "lowering"}

Counts ==
  /\ MinThr <= live_thr_num /\ live_thr_num <= MaxThr
  /\ Cardinality(Counted) = live_thr_num + Due
  /\ \A w \in Worker : Retires(w) => live_thr_num > MinThr
  /\ \A w \in Worker : pc[w] = "lowering" => reg[w] = live_thr_num
  /\ Created => live_thr_num < MaxThr
  /\ mgr.pc = "raise" => mgr.reg = live_thr_num

(* A step that counts nobody, retires nobody and creates nobody.           *)
LEMMA CountsStay ==
  ASSUME Counts, UNCHANGED <<live_thr_num, mgr>>, Counted' = Counted,
         \A w \in Worker : /\ Retires(w)' => Retires(w)
                           /\ pc'[w] = "lowering" => pc[w] = "lowering" /\ reg'[w] = reg[w]
  PROVE  Counts'
BY DEF Counts, Created, Due

LEMMA SignalCounts ==
  ASSUME TypeOK, SignalNotEmpty \/ BroadcastNotEmpty \/ pc' = pc, reg' = reg
  PROVE  /\ Counted' = Counted
         /\ \A w \in Worker : /\ Retires(w)' = Retires(w)
                              /\ (pc'[w] = "lowering") = (pc[w] = "lowering")
<1>1. \A w \in Worker : pc'[w] = pc[w] \/ (pc[w] = "waiting" /\ pc'[w] = "woken")
  BY SignalMoves
<1> QED
  BY <1>1 DEF Counted, Retires

LEMMA WorkerCounts ==
  ASSUME TypeOK, Locks, Counts, ~shutdown, NEW w \in Worker,
         WorkerProgress(w) \/ SpuriousWake(w)
  PROVE  Counts'
<1>1. /\ \A v \in Worker \ {w} : pc'[v] = pc[v] /\ reg'[v] = reg[v]
      /\ mgr' = mgr
  BY WorkerMoves
<1>2. ASSUME live_thr_num' = live_thr_num, w \in Counted' <=> w \in Counted,
             Retires(w)' => Retires(w),
             pc'[w] = "lowering" => pc[w] = "lowering" /\ reg'[w] = reg[w]
      PROVE  Counts'
  <2>1. Counted' = Counted
    BY <1>1, <1>2 DEF Counted
  <2> QED
    BY <1>1, <1>2, <2>1, CountsStay DEF Retires
<1>3. CASE WorkerEnter(w) \/ WorkerWake(w)
  <2>1. /\ pc[w] \in {"ready", "woken"} /\ live_thr_num' = live_thr_num
        /\ pc'[w] \in {"idle", "start", "dismissed"}
    <3>1. CASE WorkerBody(w)
      BY <1>3, <3>1, BodyMoves DEF WorkerEnter, WorkerWake, thrVars
    <3>2. CASE ~WorkerBody(w)
      BY <1>3, <3>2 DEF WorkerEnter, WorkerWake, thrVars, TypeOK
    <3> QED
      BY <3>1, <3>2
  <2> QED
    BY <1>2, <2>1 DEF Counted, Retires
<1>4. CASE WorkerDismissed(w)
  <2>1. CASE ~MayLeave
    <3>1. /\ pc[w] = "dismissed" /\ live_thr_num' = live_thr_num
          /\ pc'[w] \in {"idle", "start"}
      BY <1>4, <2>1, BodyMoves DEF WorkerDismissed
    <3> QED
      BY <1>2, <3>1 DEF Counted, Retires
  <2>2. CASE MayLeave
    <3>1. /\ pc[w] = "dismissed" /\ live_thr_num' = live_thr_num
          /\ pc' = [pc EXCEPT ![w] = "leaving"]
      BY <1>4, <2>2 DEF WorkerDismissed
    <3>2. Counted' = Counted
      BY <1>1, <3>1 DEF Counted, TypeOK
    <3>3. pc'[w] = "leaving" /\ live_thr_num > MinThr
      BY <2>2, <3>1 DEF MayLeave, TypeOK
    <3> QED
      BY <1>1, <3>1, <3>2, <3>3 DEF Counts, Created, Due, Retires
  <2> QED
    BY <2>1, <2>2
<1>5. CASE WorkerLeave(w)
  <2>1. /\ pc[w] = "leaving" /\ live_thr_num' = live_thr_num
        /\ pc'[w] = "lowering" /\ reg'[w] = live_thr_num
    BY <1>5 DEF WorkerLeave, thrVars, TypeOK
  <2>2. Counted' = Counted
    BY <1>1, <2>1 DEF Counted
  <2> QED
    BY <1>1, <2>1, <2>2 DEF Counts, Created, Due, Retires
<1>6. CASE WorkerLower(w)
  <2>1. /\ pc[w] = "lowering" /\ live_thr_num' = live_thr_num - 1
        /\ pc'[w] = "unlocking"
    BY <1>6 DEF WorkerLower, TypeOK, Counts
  <2>2. lock = w /\ ~Created /\ \A v \in Worker \ {w} : ~Retires(v)
    <3>1. lock = w /\ w # Adjuster
      BY <2>1, SizeAssumption DEF Locks, Inside, Worker, Adjuster
    <3> QED
      BY <3>1 DEF Locks, Inside, Adjusting, Created, Retires
  <2>3. Counted' = Counted \ {w} /\ w \in Counted
    BY <1>1, <2>1 DEF Counted
  <2>4. Cardinality(Counted') = Cardinality(Counted) - 1
    BY <2>3, CardinalityNat, FS_RemoveElement DEF Counted
  <2>5. live_thr_num > MinThr /\ live_thr_num \in Int /\ MinThr \in Int /\ MaxThr \in Int
    BY <2>1, SizeAssumption DEF Counts, Retires, TypeOK
  <2>6. ~Created' /\ ~Retires(w)' /\ \A v \in Worker \ {w} : ~Retires(v)'
    BY <1>1, <2>1, <2>2 DEF Created, Retires
  <2> QED
    BY <1>1, <2>1, <2>2, <2>4, <2>5, <2>6 DEF Counts, Created, Due, Retires
<1>7. CASE WorkerUnlock(w) \/ WorkerGone(w)
  <2>1. /\ w \notin Counted /\ w \notin Counted' /\ ~Retires(w)'
        /\ pc'[w] # "lowering" /\ live_thr_num' = live_thr_num
    BY <1>7 DEF WorkerUnlock, WorkerGone, Counted, Retires, thrVars, TypeOK
  <2> QED
    BY <1>2, <2>1
<1>8. CASE WorkerWait(w) \/ SpuriousWake(w) \/ WorkerStart(w) \/ WorkerFinish(w)
  <2>1. /\ w \in Counted /\ w \in Counted' /\ ~Retires(w)'
        /\ pc'[w] # "lowering" /\ live_thr_num' = live_thr_num
    BY <1>8 DEF WorkerWait, SpuriousWake, WorkerStart, WorkerFinish, Counted, Retires,
                thrVars, TypeOK
  <2> QED
    BY <1>2, <2>1
<1> QED
  BY <1>3, <1>4, <1>5, <1>6, <1>7, <1>8 DEF WorkerProgress

(* The threads the manager creates are new living threads, and they are    *)
(* counted; the stale sample cannot make it pass max_thr_num.              *)
LEMMA ManagerCounts ==
  ASSUME TypeOK, Locks, Counts, ~shutdown, Manager
  PROVE  Counts'
<1>1. mgr \in MgrType /\ reg' = reg
  BY ManagerMoves DEF TypeOK, MgrType
<1>2. ASSUME ~MgrCreate, ~MgrRaise, ~MgrCount
      PROVE  Counts'
  <2>1. /\ live_thr_num' = live_thr_num /\ Counted' = Counted
        /\ \A w \in Worker : /\ Retires(w)' = Retires(w)
                             /\ (pc'[w] = "lowering") = (pc[w] = "lowering")
    BY <1>1, <1>2, ManagerMoves, SignalCounts
  <2>2. mgr.pc \notin {"count", "raise"} /\ mgr'.pc \notin {"count", "raise"}
    <3>1. CASE MgrReadBusy
      BY <1>1, <3>1 DEF MgrReadBusy, MgrAtHead, MgrType
    <3>2. CASE MgrUnlock
      BY <3>2 DEF MgrUnlock, MgrAtHead
    <3>3. CASE MgrLoop \/ MgrSample \/ MgrGrow \/ MgrShrink \/ MgrSignal
      BY <1>1, <3>3 DEF MgrLoop, MgrSample, MgrGrow, MgrShrink, MgrSignal, MgrType
    <3> QED
      BY <1>2, <3>1, <3>2, <3>3 DEF Manager
  <2> QED
    BY <1>1, <2>1, <2>2 DEF Counts, Created, Due
<1>3. CASE MgrCreate /\ mgr.i \in Creatable
  <2>1. /\ mgr.pc = "create" /\ mgr'.pc = "count" /\ live_thr_num < MaxThr
        /\ live_thr_num' = live_thr_num
        /\ pc' = [pc EXCEPT ![mgr.i] = "ready"]
    BY <1>1, <1>3 DEF MgrCreate, GoesOnCreating, MgrType
  <2>2. mgr.i \in Worker \ Counted /\ Counted' = Counted \cup {mgr.i}
    BY <1>3, <2>1 DEF Creatable, Counted, TypeOK
  <2>3. Cardinality(Counted') = Cardinality(Counted) + 1
    BY <2>2, CardinalityNat, FS_AddElement DEF Counted
  <2>4. \A w \in Worker : /\ Retires(w)' => Retires(w)
                          /\ pc'[w] = "lowering" => pc[w] = "lowering"
    BY <2>1 DEF Retires, TypeOK
  <2> QED
    BY <1>1, <2>1, <2>3, <2>4 DEF Counts, Created, Due, TypeOK
<1>4. CASE MgrCreate /\ mgr.i \notin Creatable
  <2>1. /\ mgr.pc = "create" /\ mgr'.pc = "create" /\ pc' = pc
        /\ live_thr_num' = live_thr_num
    BY <1>1, <1>4 DEF MgrCreate, MgrType
  <2>2. Counted' = Counted
    BY <2>1 DEF Counted
  <2> QED
    BY <1>1, <2>1, <2>2 DEF Counts, Created, Due, Retires
<1>5. CASE MgrCount
  <2>1. /\ mgr.pc = "count" /\ mgr'.pc = "raise" /\ pc' = pc
        /\ live_thr_num' = live_thr_num /\ mgr'.reg = live_thr_num
    BY <1>1, <1>5, ManagerMoves DEF MgrCount, MgrType
  <2>2. Counted' = Counted
    BY <2>1 DEF Counted
  <2> QED
    BY <1>1, <2>1, <2>2 DEF Counts, Created, Due, Retires
<1>6. CASE MgrRaise
  <2>1. /\ mgr.pc = "raise" /\ mgr'.pc = "create" /\ pc' = pc
        /\ live_thr_num' = live_thr_num + 1
    BY <1>1, <1>6 DEF MgrRaise, MgrType, Counts
  <2>2. \A w \in Worker : ~Retires(w)
    <3>1. lock = Adjuster /\ \A w \in Worker : w # Adjuster
      BY <2>1, SizeAssumption DEF Locks, Adjusting, Worker, Adjuster
    <3> QED
      BY <3>1 DEF Locks, Inside, Retires
  <2>3. Counted' = Counted
    BY <2>1 DEF Counted
  <2>4. live_thr_num < MaxThr /\ live_thr_num \in Int /\ MinThr \in Int /\ MaxThr \in Int
    BY <2>1, SizeAssumption DEF Counts, Created, TypeOK
  <2> QED
    BY <1>1, <2>1, <2>2, <2>3, <2>4 DEF Counts, Created, Due, Retires
<1> QED
  BY <1>2, <1>3, <1>4, <1>5, <1>6

LEMMA CountsHold == Spec => [](TypeOK /\ Locks /\ (~shutdown => Counts))
<1>1. Init => (~shutdown => Counts)
  <2> SUFFICES ASSUME Init PROVE Counts
    OBVIOUS
  <2>1. Counted = 0 .. MinThr - 1
    BY SizeAssumption DEF Init, Counted, Worker
  <2>2. Cardinality(0 .. MinThr - 1) = MinThr
    BY SizeAssumption, FS_Interval
  <2>3. Due = 0 /\ ~Created /\ mgr.pc = "head" /\ live_thr_num = MinThr
        /\ \A w \in Worker : pc[w] \in {"ready", "none"}
    BY DEF Init, Due, Created, MgrAtHead
  <2> QED  BY <2>1, <2>2, <2>3, SizeAssumption DEF Counts, Retires
<1>2. TypeOK /\ Locks /\ (~shutdown => Counts) /\ [Next]_vars
        => (~shutdown => Counts)'
  <2> SUFFICES ASSUME TypeOK, Locks, ~shutdown => Counts, [Next]_vars, ~shutdown'
               PROVE  Counts'
    OBVIOUS
  <2>1. CASE UNCHANGED vars
    <3>1. Counted' = Counted /\ shutdown' = shutdown
      BY <2>1 DEF vars, Counted
    <3> QED
      BY <2>1, <3>1, CountsStay DEF vars, thrVars, Retires
  <2>2. ASSUME NEW c \in Caller, Add(c) PROVE Counts'
    BY <2>2, AddMoves, SignalCounts, CountsStay
  <2>3. ASSUME NEW w \in Worker, WorkerProgress(w) \/ SpuriousWake(w) PROVE Counts'
    BY <2>3, WorkerMoves, WorkerCounts
  <2>4. CASE Manager
    BY <2>4, ManagerMoves, ManagerCounts
  <2>5. CASE DestroyCall \/ DestroyProgress
    <3>1. DestroyProgress /\ ~shutdown
      BY <2>5, DestroyerMoves
    <3> QED
      BY <3>1, DestroyerMoves DEF Locks
  <2> QED
    BY <2>1, <2>2, <2>3, <2>4, <2>5 DEF Next
<1> QED
  BY <1>1, <1>2, LocksHold, PTL DEF Spec

(* Until the shutdown live_thr_num stays between the two sizes and,        *)
(* whenever the lock is free, is the number of threads that have not       *)
(* exited, whatever the pool grows and shrinks to on stale samples.        *)
THEOREM LiveCountCorrect == Spec => []LiveCountExact
<1>1. TypeOK /\ Locks /\ (~shutdown => Counts) => LiveCountExact
  <2> SUFFICES ASSUME TypeOK, Locks, Counts, ~shutdown, LockFree
               PROVE  live_thr_num = Cardinality(Alive)
    BY DEF LiveCountExact, Counts
  <2>1. ~Created /\ \A w \in Worker : ~Inside(w)
    BY ArgAssumption DEF Locks, LockFree, Adjusting, Created
  <2>2. Alive = Counted
    BY <2>1 DEF Alive, Counted, Inside
  <2>3. live_thr_num \in Int
    BY DEF TypeOK
  <2> QED
    BY <2>1, <2>2, <2>3 DEF Counts, Due
<1> QED
  BY <1>1, CountsHold, PTL

-----------------------------------------------------------------------------
(* Only a worker that starts or finishes a task changes the set of busy    *)
(* workers; no signal, broadcast or new thread does.                       *)
LEMMA BusySteady ==
  ASSUME TypeOK, [Next]_vars,
         \A w \in Worker : ~WorkerStart(w) /\ ~WorkerFinish(w)
  PROVE  Busy' = Busy /\ busy_thr_num' = busy_thr_num
<1>1. ASSUME SignalNotEmpty \/ BroadcastNotEmpty \/ pc' = pc
      PROVE  Busy' = Busy
  BY <1>1 DEF TypeOK, SignalNotEmpty, BroadcastNotEmpty, Waiting, Busy
<1>2. ASSUME NEW c \in Caller, Add(c)
      PROVE  Busy' = Busy /\ busy_thr_num' = busy_thr_num
  BY <1>1, <1>2 DEF Add, AddCall, AddResume, AddLate, AddUnlock, AddBody, Enqueue,
     WakeWorker, thrVars
<1>3. ASSUME NEW w \in Worker, WorkerProgress(w) \/ SpuriousWake(w)
      PROVE  Busy' = Busy /\ busy_thr_num' = busy_thr_num
  <2>1. busy_thr_num' = busy_thr_num
    BY <1>3 DEF WorkerProgress, SpuriousWake, WorkerEnter, WorkerWait, WorkerWake,
       WorkerDismissed, WorkerLeave, WorkerLower, WorkerUnlock, WorkerGone, thrVars
  <2>2. pc[w] # "run"
    BY <1>3 DEF WorkerProgress, SpuriousWake, WorkerEnter, WorkerWait, WorkerWake,
       WorkerDismissed, WorkerLeave, WorkerLower, WorkerUnlock, WorkerGone
  <2>3. \E p \in WorkerPc \ {"run"} : pc' = [pc EXCEPT ![w] = p]
    BY <1>3 DEF WorkerProgress, SpuriousWake, WorkerEnter, WorkerWait, WorkerWake,
       WorkerDismissed, WorkerLeave, WorkerLower, WorkerUnlock, WorkerGone,
       WorkerBody, WorkerPc
  <2> QED  BY <2>1, <2>2, <2>3 DEF TypeOK, Busy
<1>4. ASSUME Manager
      PROVE  Busy' = Busy /\ busy_thr_num' = busy_thr_num
  <2>1. busy_thr_num' = busy_thr_num
    BY <1>4 DEF Manager, MgrLoop, MgrSample, MgrReadBusy, MgrGrow, MgrCreate, MgrCount,
       MgrRaise, MgrUnlock, MgrShrink, MgrSignal, MgrUnchanged
  <2>2. CASE MgrCreate
    <3>1. \A w \in Worker : (pc'[w] = "run") = (pc[w] = "run")
      BY <1>4, <2>2, ManagerMoves
    <3> QED
      BY <2>1, <3>1 DEF Busy
  <2>3. CASE ~MgrCreate
    BY <1>1, <1>4, <2>1, <2>3, ManagerMoves
  <2> QED  BY <2>2, <2>3
<1>5. ASSUME DestroyCall \/ DestroyProgress
      PROVE  Busy' = Busy /\ busy_thr_num' = busy_thr_num
  BY <1>1, <1>5 DEF DestroyCall, DestroyProgress, DestroyJoinManager,
                    DestroyBroadcast, DestroyJoin, DestroyFree, DstUnchanged,
                    thrVars
<1>6. CASE UNCHANGED vars
  BY <1>6 DEF vars, thrVars, Busy
<1> QED  BY <1>2, <1>3, <1>4, <1>5, <1>6 DEF Next

(* busy_thr_num is the number of workers inside a task function.           *)
THEOREM BusyCountCorrect == Spec => []BusyCountExact
<1>1. Init => BusyCountExact
  <2> SUFFICES ASSUME Init PROVE BusyCountExact
    OBVIOUS
  <2>1. Busy = {}
    BY DEF Init, Busy
  <2> QED  BY <2>1, FS_EmptySet DEF Init, BusyCountExact
<1>2. TypeOK /\ BusyCountExact /\ [Next]_vars => BusyCountExact'
  <2> SUFFICES ASSUME TypeOK, BusyCountExact, [Next]_vars
               PROVE  BusyCountExact'
    OBVIOUS
  <2>1. IsFiniteSet(Busy) /\ Cardinality(Busy) \in Nat
    BY CardinalityNat DEF Busy
  <2>2. ASSUME NEW w \in Worker, WorkerStart(w)
        PROVE  BusyCountExact'
    <3>1. Busy' = Busy \cup {w} /\ w \notin Busy
      BY <2>2 DEF TypeOK, WorkerStart, Busy
    <3>2. Cardinality(Busy') = Cardinality(Busy) + 1
      BY <2>1, <3>1, FS_AddElement
    <3> QED  BY <2>2, <3>2 DEF WorkerStart, BusyCountExact
  <2>3. ASSUME NEW w \in Worker, WorkerFinish(w)
        PROVE  BusyCountExact'
    <3>1. Busy' = Busy \ {w} /\ w \in Busy
      BY <2>3 DEF TypeOK, WorkerFinish, Busy
    <3>2. Cardinality(Busy') = Cardinality(Busy) - 1
      BY <2>1, <3>1, FS_RemoveElement
    <3> QED  BY <2>3, <3>2 DEF WorkerFinish, BusyCountExact
  <2> QED  BY <2>2, <2>3, BusySteady DEF BusyCountExact
<1> QED  BY <1>1, <1>2, PoolTypeCorrect, PTL DEF Spec

-----------------------------------------------------------------------------
(***************************************************************************)
(* The broadcasts of a destroy.  A worker holds the lock from its test of  *)
(* shutdown to its wait, so that at most one is between the two when       *)
(* shutdown is written, and nobody gets there afterwards; the first        *)
(* broadcast wakes all that wait.  There is a broadcast if there is anybody*)
(* to wake: even where the lock is given away, and live_thr_num no longer  *)
(* the number of threads, it is at least the number of those that wait or  *)
(* were waiting.                                                           *)
(***************************************************************************)
Sleepy == {w \in Worker : pc[w] \in {"idle", "waiting", "woken", "dismissed",
                                     "leaving", "lowering"}}

Sleepers ==
  /\ Cardinality(Sleepy) <= live_thr_num
  /\ \A w \in Worker : pc[w] = "lowering" => Cardinality(Sleepy) <= reg[w]
  /\ mgr.pc = "raise" => Cardinality(Sleepy) <= mgr.reg

LEMMA SleepyLess ==
  ASSUME Sleepy' \subseteq Sleepy
  PROVE  /\ Cardinality(Sleepy) \in Nat /\ Cardinality(Sleepy)' \in Nat
         /\ Cardinality(Sleepy)' <= Cardinality(Sleepy)
<1>1. IsFiniteSet(Sleepy) /\ Cardinality(Sleepy) \in Nat
  BY CardinalityNat DEF Sleepy
<1>2. Cardinality(Sleepy') \in Nat /\ Cardinality(Sleepy') <= Cardinality(Sleepy)
  BY <1>1, FS_Subset, FS_CardinalityType
<1> QED
  BY <1>1, <1>2

(* Nobody falls asleep, no counter is written or read to be written.       *)
LEMMA SleepersStay ==
  ASSUME TypeOK, Sleepers, Sleepy' \subseteq Sleepy, live_thr_num' = live_thr_num,
         mgr'.pc = "raise" => mgr.pc = "raise" /\ mgr'.reg = mgr.reg,
         \A w \in Worker : pc'[w] = "lowering" => pc[w] = "lowering" /\ reg'[w] = reg[w]
  PROVE  Sleepers'
<1>1. mgr.reg \in Int /\ live_thr_num \in Int /\ \A w \in Worker : reg[w] \in Int
  BY DEF TypeOK
<1> QED
  BY <1>1, SleepyLess DEF Sleepers

LEMMA SignalSleepy ==
  ASSUME TypeOK, SignalNotEmpty \/ BroadcastNotEmpty \/ pc' = pc
  PROVE  /\ Sleepy' = Sleepy
         /\ \A w \in Worker : (pc'[w] = "lowering") = (pc[w] = "lowering")
<1>1. \A w \in Worker : pc'[w] = pc[w] \/ (pc[w] = "waiting" /\ pc'[w] = "woken")
  BY SignalMoves
<1> QED
  BY <1>1 DEF Sleepy

LEMMA WorkerSleepers ==
  ASSUME TypeOK, Locks, ~shutdown => Counts, Sleepers, NEW w \in Worker,
         WorkerProgress(w) \/ SpuriousWake(w)
  PROVE  Sleepers'
<1>1. /\ \A v \in Worker \ {w} : pc'[v] = pc[v] /\ reg'[v] = reg[v]
      /\ mgr' = mgr
  BY WorkerMoves
<1>2. ASSUME live_thr_num' = live_thr_num, w \in Sleepy' => w \in Sleepy,
             pc'[w] # "lowering"
      PROVE  Sleepers'
  <2>1. Sleepy' \subseteq Sleepy
    BY <1>1, <1>2 DEF Sleepy
  <2> QED
    BY <1>1, <1>2, <2>1, SleepersStay
<1>3. CASE WorkerEnter(w)
  <2>1. WorkerBody(w) /\ pc[w] = "ready" /\ live_thr_num' = live_thr_num /\ LockFree
    BY <1>3 DEF WorkerEnter, thrVars
  <2>2. CASE pc'[w] # "idle"
    BY <1>2, <2>1, <2>2, BodyMoves DEF Sleepy
  <2>3. CASE pc'[w] = "idle"
    <3>1. Counts /\ ~Created /\ \A v \in Worker : ~Inside(v)
      BY <2>1, <2>3, BodyMoves, ArgAssumption DEF Locks, LockFree, Adjusting, Created
    <3>2. Sleepy' \subseteq Counted
      BY <1>1, <2>1, <2>3 DEF Sleepy, Counted
    <3>3. IsFiniteSet(Counted)
      BY CardinalityNat DEF Counted
    <3>4. Cardinality(Sleepy') <= Cardinality(Counted)
      BY <3>2, <3>3, FS_Subset
    <3>5. Cardinality(Sleepy') <= live_thr_num
      <4>1. live_thr_num + 0 = live_thr_num
        BY DEF TypeOK
      <4> QED
        BY <3>1, <3>4, <4>1 DEF Counts, Due
    <3>6. \A v \in Worker : pc'[v] # "lowering"
      BY <1>1, <2>3, <3>1 DEF Inside
    <3>7. mgr'.pc # "raise"
      BY <1>1, <3>1 DEF Created
    <3> QED
      BY <2>1, <3>5, <3>6, <3>7 DEF Sleepers
  <2> QED
    BY <2>2, <2>3
<1>4. CASE WorkerWake(w) \/ WorkerDismissed(w)
  <2>1. /\ pc[w] \in {"woken", "dismissed"} /\ live_thr_num' = live_thr_num
        /\ pc'[w] # "lowering"
    <3>1. CASE WorkerBody(w)
      BY <1>4, <3>1, BodyMoves DEF WorkerWake, WorkerDismissed, thrVars
    <3>2. CASE ~WorkerBody(w)
      BY <1>4, <3>2 DEF WorkerWake, WorkerDismissed, thrVars, TypeOK
    <3> QED
      BY <3>1, <3>2
  <2> QED
    BY <1>2, <2>1 DEF Sleepy
<1>5. CASE WorkerLeave(w)
  <2>1. /\ pc[w] = "leaving" /\ live_thr_num' = live_thr_num
        /\ pc'[w] = "lowering" /\ reg'[w] = live_thr_num
    BY <1>5 DEF WorkerLeave, thrVars, TypeOK
  <2>2. Sleepy' = Sleepy
    BY <1>1, <2>1 DEF Sleepy
  <2> QED
    BY <1>1, <2>1, <2>2 DEF Sleepers
<1>6. CASE WorkerLower(w)
  <2>1. /\ pc[w] = "lowering" /\ live_thr_num' = reg[w] - 1
        /\ pc'[w] = "unlocking"
    BY <1>6 DEF WorkerLower, TypeOK
  <2>2. Sleepy' = Sleepy \ {w} /\ w \in Sleepy
    BY <1>1, <2>1 DEF Sleepy
  <2>3. Cardinality(Sleepy') = Cardinality(Sleepy) - 1 /\ Cardinality(Sleepy) \in Nat
    BY <2>2, CardinalityNat, FS_RemoveElement DEF Sleepy
  <2>4. mgr.reg \in Int /\ \A v \in Worker : reg[v] \in Int
    BY DEF TypeOK
  <2> QED
    BY <1>1, <2>1, <2>3, <2>4 DEF Sleepers
<1>7. CASE \/ WorkerUnlock(w) \/ WorkerGone(w) \/ WorkerWait(w) \/ SpuriousWake(w)
           \/ WorkerStart(w) \/ WorkerFinish(w)
  <2>1. /\ live_thr_num' = live_thr_num /\ pc'[w] # "lowering"
        /\ w \in Sleepy' => w \in Sleepy
    BY <1>7 DEF WorkerUnlock, WorkerGone, WorkerWait, SpuriousWake, WorkerStart,
       WorkerFinish, Sleepy, thrVars, TypeOK
  <2> QED
    BY <1>2, <2>1
<1> QED
  BY <1>3, <1>4, <1>5, <1>6, <1>7 DEF WorkerProgress

LEMMA ManagerSleepers ==
  ASSUME TypeOK, Sleepers, Manager
  PROVE  Sleepers'
<1>1. mgr \in MgrType /\ reg' = reg /\ live_thr_num \in Int
  BY ManagerMoves DEF TypeOK, MgrType
<1>2. /\ Sleepy' = Sleepy
      /\ \A w \in Worker : (pc'[w] = "lowering") = (pc[w] = "lowering")
  <2>1. CASE MgrCreate
    BY <2>1, ManagerMoves DEF Sleepy
  <2>2. CASE ~MgrCreate
    BY <2>2, ManagerMoves, SignalSleepy
  <2> QED
    BY <2>1, <2>2
<1>3. CASE MgrCount
  <2>1. mgr'.reg = live_thr_num /\ live_thr_num' = live_thr_num
    BY <1>1, <1>3 DEF MgrCount, MgrType
  <2> QED
    BY <1>1, <1>2, <2>1 DEF Sleepers
<1>4. CASE MgrRaise
  <2>1. mgr.pc = "raise" /\ mgr'.pc = "create" /\ live_thr_num' = mgr.reg + 1
    BY <1>1, <1>4 DEF MgrRaise, MgrType
  <2>2. mgr.reg \in Int /\ Cardinality(Sleepy) \in Nat
    BY <1>1, CardinalityNat DEF MgrType, Sleepy
  <2> QED
    BY <1>1, <1>2, <2>1, <2>2 DEF Sleepers
<1>5. CASE ~MgrCount /\ ~MgrRaise
  <2>1. mgr'.pc # "raise"
    <3>1. CASE MgrReadBusy
      BY <1>1, <3>1 DEF MgrReadBusy, MgrAtHead, MgrType
    <3>2. CASE MgrUnlock
      BY <3>2 DEF MgrUnlock, MgrAtHead
    <3>3. CASE MgrLoop \/ MgrSample \/ MgrGrow \/ MgrCreate \/ MgrShrink \/ MgrSignal
      BY <1>1, <3>3 DEF MgrLoop, MgrSample, MgrGrow, MgrCreate, MgrShrink, MgrSignal,
                        MgrType
    <3> QED
      BY <1>5, <3>1, <3>2, <3>3 DEF Manager
  <2> QED
    BY <1>1, <1>2, <1>5, <2>1, SleepersStay, ManagerMoves
<1> QED
  BY <1>3, <1>4, <1>5

LEMMA SleepersHold == Spec => [](TypeOK /\ Locks /\ (~shutdown => Counts) /\ Sleepers)
<1>1. Init => Sleepers
  <2> SUFFICES ASSUME Init PROVE Sleepers
    OBVIOUS
  <2>1. \A w \in Worker : pc[w] \in {"ready", "none"}
    BY DEF Init
  <2>2. Sleepy = {} /\ mgr.pc = "head" /\ live_thr_num = MinThr
    BY <2>1 DEF Init, Sleepy, MgrAtHead
  <2>3. Cardinality(Sleepy) = 0
    BY <2>2, FS_EmptySet
  <2> QED
    BY <2>1, <2>2, <2>3, SizeAssumption DEF Sleepers
<1>2. /\ TypeOK /\ Locks /\ (~shutdown => Counts) /\ Sleepers /\ [Next]_vars
      => Sleepers'
  <2> SUFFICES ASSUME TypeOK, Locks, ~shutdown => Counts, Sleepers, [Next]_vars
               PROVE  Sleepers'
    OBVIOUS
  <2>1. CASE UNCHANGED vars
    BY <2>1 DEF vars, thrVars, Sleepers, Sleepy
  <2>2. ASSUME NEW c \in Caller, Add(c) PROVE Sleepers'
    BY <2>2, AddMoves, SignalSleepy, SleepersStay
  <2>3. CASE DestroyCall \/ DestroyProgress
    BY <2>3, DestroyerMoves, SignalSleepy, SleepersStay
  <2> QED
    BY <2>1, <2>2, <2>3, WorkerSleepers, ManagerSleepers DEF Next
<1> QED
  BY <1>1, <1>2, CountsHold, PTL DEF Spec

(* The first broadcast has been made.                                      *)
Told == \/ dst.pc = "bcast" /\ dst.i > 0
        \/ dst.pc \in {"join", "free", "freed"}

LastIdle ==
  /\ \A v, w \in Worker : pc[v] = "idle" /\ pc[w] = "idle" => v = w
  /\ Told => \A v, w \in Worker : Asleep(v) /\ Asleep(w) => v = w

(* After the shutdown nobody falls asleep.                                 *)
LEMMA NobodySleeps ==
  ASSUME TypeOK, Locks, shutdown, [Next]_vars
  PROVE  \A w \in Worker : /\ pc'[w] = "idle" => pc[w] = "idle"
                           /\ Asleep(w)' => Asleep(w)
<1>1. SignalNotEmpty \/ BroadcastNotEmpty \/ pc' = pc =>
        \A w \in Worker : /\ pc'[w] = "idle" => pc[w] = "idle"
                          /\ Asleep(w)' => Asleep(w)
  BY SignalMoves DEF Asleep
<1>2. ASSUME NEW w \in Worker, WorkerProgress(w) \/ SpuriousWake(w)
      PROVE  /\ pc'[w] = "idle" => pc[w] = "idle"
             /\ Asleep(w)' => Asleep(w)
  <2>1. CASE WorkerBody(w)
    BY <2>1, BodyMoves DEF Asleep
  <2>2. CASE ~WorkerBody(w)
    BY <1>2, <2>2 DEF WorkerProgress, SpuriousWake, WorkerEnter, WorkerWait, WorkerWake,
       WorkerDismissed, WorkerLeave, WorkerLower, WorkerUnlock, WorkerStart,
       WorkerFinish, WorkerGone, Asleep, TypeOK
  <2> QED
    BY <2>1, <2>2
<1>3. ASSUME NEW w \in Worker, WorkerProgress(w) \/ SpuriousWake(w)
      PROVE  \A v \in Worker : /\ pc'[v] = "idle" => pc[v] = "idle"
                               /\ Asleep(v)' => Asleep(v)
  BY <1>2, <1>3, WorkerMoves DEF Asleep
<1>4. Manager => \A w \in Worker : /\ pc'[w] = "idle" => pc[w] = "idle"
                                   /\ Asleep(w)' => Asleep(w)
  BY <1>1, ManagerMoves DEF Asleep
<1>5. UNCHANGED vars => pc' = pc
  BY DEF vars
<1> QED
  BY <1>1, <1>3, <1>4, <1>5, AddMoves, DestroyerMoves DEF Next

(* The loop of broadcasts ends after one at least, or nobody waits.        *)
LEMMA DestroyerLastIdle ==
  ASSUME TypeOK, Locks, Sleepers, LastIdle, DestroyCall \/ DestroyProgress
  PROVE  Told' => \A v, w \in Worker : Asleep(v)' /\ Asleep(w)' => v = w
<1>1. \A w \in Worker : /\ pc'[w] = "idle" => pc[w] = "idle"
                        /\ Asleep(w)' => Asleep(w)
  BY DestroyerMoves, SignalMoves DEF Asleep
<1>2. CASE DestroyCall \/ DestroyJoinManager
  <2>1. \/ dst' = [dst EXCEPT !.pc = "joinmgr"]
        \/ dst' = [dst EXCEPT !.pc = "bcast", !.i = 0]
    BY <1>2 DEF DestroyCall, DestroyJoinManager
  <2>2. dst \in [pc : DstPc, i : Nat]
    BY DEF TypeOK
  <2>3. dst'.pc = "joinmgr" \/ (dst'.pc = "bcast" /\ dst'.i = 0)
    BY <2>1, <2>2
  <2> QED
    BY <2>3 DEF Told
<1>3. CASE DestroyBroadcast /\ dst.i < live_thr_num
  <2>1. \A w \in Worker : Asleep(w)' => pc[w] = "idle"
    BY <1>3 DEF DestroyBroadcast, BroadcastNotEmpty, Waiting, Asleep, TypeOK
  <2> QED
    BY <2>1 DEF LastIdle
<1>4. CASE DestroyBroadcast /\ ~(dst.i < live_thr_num)
  <2>1. dst.pc = "bcast" /\ pc' = pc /\ dst.i \in Nat /\ live_thr_num \in Int
    BY <1>4 DEF DestroyBroadcast, TypeOK
  <2>2. CASE dst.i > 0
    <3>1. Told
      BY <2>1, <2>2 DEF Told
    <3> QED
      BY <1>1, <3>1 DEF LastIdle
  <2>3. CASE dst.i = 0
    <3>1. IsFiniteSet(Sleepy) /\ Cardinality(Sleepy) = 0
      BY <1>4, <2>1, <2>3, CardinalityNat DEF Sleepers, Sleepy
    <3>2. Sleepy = {}
      BY <3>1, FS_EmptySet
    <3> QED
      BY <1>1, <3>2 DEF Asleep, Sleepy
  <2> QED
    BY <2>1, <2>2, <2>3
<1>5. CASE DestroyJoin \/ DestroyFree
  <2>1. Told
    BY <1>5 DEF DestroyJoin, DestroyFree, Told
  <2> QED
    BY <1>1, <2>1 DEF LastIdle
<1> QED
  BY <1>2, <1>3, <1>4, <1>5 DEF DestroyProgress

LEMMA LastIdleStep ==
  ASSUME TypeOK, Locks, Locks', Sleepers, LastIdle, [Next]_vars
  PROVE  LastIdle'
<1>1. CASE DestroyCall \/ DestroyProgress
  <2>1. \A w \in Worker : pc'[w] = "idle" => pc[w] = "idle"
    BY <1>1, DestroyerMoves, SignalMoves
  <2> QED
    BY <1>1, <2>1, DestroyerLastIdle DEF LastIdle
<1>2. CASE ~(DestroyCall \/ DestroyProgress)
  <2>1. UNCHANGED <<dst, shutdown>>
    BY <1>2, AddMoves, WorkerMoves, ManagerMoves DEF Next, vars
  <2>2. Told' = Told /\ (Told => shutdown)
    BY <2>1 DEF Told, Locks
  <2>3. CASE shutdown
    BY <2>2, <2>3, NobodySleeps DEF LastIdle
  <2>4. CASE ~shutdown
    <3>1. \A v \in Worker : pc'[v] = "idle" => lock' = v
      BY <2>1, <2>4 DEF Locks, Inside
    <3> QED
      BY <2>2, <2>4, <3>1 DEF LastIdle
  <2> QED
    BY <2>3, <2>4
<1> QED
  BY <1>1, <1>2

(* OneMissesShutdown: after the broadcasts at most one worker sleeps, or is*)
(* about to, and it alone can keep threadpool_destroy in pthread_join.  A  *)
(* threadpool_add that gives a worker's lock away does not change that.    *)
THEOREM OneWorkerMissesShutdown == Spec => []OneMissesShutdown
<1>1. Init => LastIdle
  BY DEF Init, LastIdle, Told
<1>2. /\ TypeOK /\ Locks /\ Locks' /\ Sleepers /\ LastIdle /\ [Next]_vars
      => LastIdle'
  BY LastIdleStep
<1>3. LastIdle => OneMissesShutdown
  BY DEF LastIdle, Told, OneMissesShutdown
<1> QED
  BY <1>1, <1>2, <1>3, SleepersHold, PTL DEF Spec

-----------------------------------------------------------------------------
(* A pool of a fixed size.  One that may shrink has neither of the two     *)
(* properties below.                                                       *)

Fixed == MinThr = MaxThr

(* The manager creates nobody and no worker retires, the shutdown or not.  *)
FixedCount ==
  /\ live_thr_num = MaxThr
  /\ ~Created /\ \A w \in Worker : ~Retires(w)

LEMMA NobodyIsCreated ==
  ASSUME TypeOK, FixedCount
  PROVE  ~MgrCreate /\ ~MgrCount /\ ~MgrRaise
BY SizeAssumption DEF FixedCount, MgrCreate, MgrCount, MgrRaise, GoesOnCreating,
   Created, TypeOK

LEMMA NobodyMayLeave ==
  ASSUME Fixed, TypeOK, FixedCount
  PROVE  ~MayLeave
BY SizeAssumption DEF Fixed, FixedCount, MayLeave, TypeOK

LEMMA FixedStep ==
  ASSUME Fixed, TypeOK, Locks, FixedCount, [Next]_vars
  PROVE  FixedCount'
<1>1. CASE UNCHANGED vars
  BY <1>1 DEF vars, thrVars, FixedCount, Created, Retires
<1>2. ASSUME NEW c \in Caller, Add(c) PROVE FixedCount'
  BY <1>2, AddMoves, SignalCounts DEF FixedCount, Created
<1>3. CASE DestroyCall \/ DestroyProgress
  BY <1>3, DestroyerMoves, SignalCounts DEF FixedCount, Created
<1>4. ASSUME NEW w \in Worker, WorkerProgress(w) \/ SpuriousWake(w) PROVE FixedCount'
  <2>1. ~WorkerLower(w) /\ ~WorkerLeave(w) /\ ~MayLeave
    BY NobodyMayLeave DEF WorkerLower, WorkerLeave, FixedCount, Retires
  <2>2. ~Retires(w)'
    <3>1. CASE WorkerBody(w)
      BY <3>1, BodyMoves DEF Retires
    <3>2. CASE ~WorkerBody(w)
      BY <1>4, <2>1, <3>2 DEF WorkerProgress, SpuriousWake, WorkerEnter, WorkerWait,
         WorkerWake, WorkerDismissed, WorkerUnlock, WorkerStart, WorkerFinish,
         WorkerGone, Retires, TypeOK
    <3> QED
      BY <3>1, <3>2
  <2> QED
    BY <1>4, <2>1, <2>2, WorkerMoves DEF FixedCount, Created, Retires
<1>5. CASE Manager
  <2>1. ~MgrCreate /\ ~MgrCount /\ ~MgrRaise
    BY NobodyIsCreated
  <2>2. mgr'.pc \notin {"count", "raise"}
    <3>1. mgr \in MgrType
      BY DEF TypeOK, MgrType
    <3>2. CASE MgrReadBusy
      BY <3>1, <3>2 DEF MgrReadBusy, MgrAtHead, MgrType
    <3>3. CASE MgrUnlock
      BY <3>3 DEF MgrUnlock, MgrAtHead
    <3>4. CASE MgrLoop \/ MgrSample \/ MgrGrow \/ MgrShrink \/ MgrSignal
      BY <3>1, <3>4 DEF MgrLoop, MgrSample, MgrGrow, MgrShrink, MgrSignal, MgrType
    <3> QED
      BY <1>5, <2>1, <3>2, <3>3, <3>4 DEF Manager
  <2> QED
    BY <1>5, <2>1, <2>2, ManagerMoves, SignalCounts DEF FixedCount, Created
<1> QED
  BY <1>1, <1>2, <1>3, <1>4, <1>5 DEF Next

LEMMA FixedHolds ==
  ASSUME Fixed
  PROVE  Spec => [](TypeOK /\ Locks /\ (~shutdown => Counts) /\ FixedCount)
<1>1. Init => FixedCount
  BY DEF Init, FixedCount, Fixed, Created, Retires, MgrAtHead
<1>2. TypeOK /\ Locks /\ FixedCount /\ [Next]_vars => FixedCount'
  BY FixedStep
<1> QED
  BY <1>1, <1>2, CountsHold, PTL DEF Spec

-----------------------------------------------------------------------------
(* A worker that decided to wait holds the lock until it waits, so no task *)
(* is added in between; some worker is awake whenever there is a task.     *)
Awake(w) == pc[w] \in {"ready", "woken", "dismissed", "start", "run"}

IdleMeansEmpty ==
  ~shutdown => \A w \in Worker : pc[w] = "idle" => queue_size = 0

FInv == IdleMeansEmpty /\ NoForgottenTask

(* With the lock free before the shutdown a thread waits, or is awake.     *)
LEMMA SomeoneIsThere ==
  ASSUME TypeOK, Locks, Counts, FixedCount, ~shutdown, LockFree
  PROVE  Waiting # {} \/ \E w \in Worker : Awake(w)
<1>1. Cardinality(Counted) # 0
  <2>1. MaxThr + 0 # 0
    BY SizeAssumption
  <2> QED
    BY <2>1 DEF Counts, FixedCount, Due
<1>2. PICK w \in Worker : w \in Counted
  BY <1>1, FS_EmptySet DEF Counted
<1>3. ~Inside(w)
  BY ArgAssumption DEF Locks, LockFree
<1> QED
  BY <1>2, <1>3 DEF Counted, Inside, Awake, Waiting, TypeOK, WorkerPc

(* A signal wakes one of the threads that wait and disturbs no other.      *)
LEMMA SignalWakes ==
  ASSUME TypeOK, SignalNotEmpty \/ BroadcastNotEmpty \/ pc' = pc
  PROVE  /\ \A w \in Worker : Awake(w) => Awake(w)'
         /\ \A w \in Worker : (pc'[w] = "idle") = (pc[w] = "idle")
         /\ SignalNotEmpty /\ Waiting # {} => \E w \in Worker : Awake(w)'
BY DEF TypeOK, SignalNotEmpty, BroadcastNotEmpty, Waiting, Awake

(* A step that leaves the queue alone and puts no worker to sleep keeps    *)
(* the invariant.                                                          *)
LEMMA WakingKeeps ==
  ASSUME FInv, UNCHANGED <<queue_size, shutdown>>,
         \A w \in Worker : Awake(w) => Awake(w)',
         \A w \in Worker : pc'[w] = "idle" => pc[w] = "idle"
  PROVE  FInv'
BY DEF FInv, IdleMeansEmpty, NoForgottenTask, Awake

LEMMA AddKeeps ==
  ASSUME TypeOK, Locks, Counts, FixedCount, FInv, ~shutdown, NEW c \in Caller, Add(c)
  PROVE  FInv'
<1>1. shutdown' = shutdown /\ ~AddLate(c) /\ ~AddUnlock(c)
  BY AddMoves DEF AddLate, AddUnlock, Locks
<1>2. LockFree /\ \E t : AddBody(c, t)
  BY <1>1 DEF Add, AddCall, AddResume
<1>3. PICK t : AddBody(c, t)
  BY <1>2
<1>4. \A w \in Worker : pc[w] # "idle"
  BY <1>2, ArgAssumption DEF Locks, Inside, LockFree
<1>5. CASE pc' = pc /\ queue_size' = queue_size
  BY <1>1, <1>5 DEF FInv, IdleMeansEmpty, NoForgottenTask
<1>6. CASE SignalNotEmpty
  <2>1. \E w \in Worker : Awake(w)'
    BY <1>2, <1>6, SomeoneIsThere, SignalWakes
  <2>2. \A w \in Worker : pc'[w] # "idle"
    BY <1>4, <1>6, SignalWakes
  <2> QED
    BY <2>1, <2>2 DEF FInv, IdleMeansEmpty, NoForgottenTask, Awake
<1> QED
  BY <1>3, <1>5, <1>6 DEF AddBody, Enqueue, WakeWorker, queueVars

(* The part of a worker's turn under the lock: it sleeps only if there is  *)
(* no task, and leaves only after the shutdown.                            *)
LEMMA TurnKeeps ==
  ASSUME TypeOK, ~shutdown, NEW w \in Worker, WorkerBody(w), shutdown' = shutdown,
         \A v \in Worker : pc[v] # "idle"
  PROVE  FInv'
<1>1. queue_size = 0 => pc' = [pc EXCEPT ![w] = "idle"] /\ queue_size' = 0
  BY DEF WorkerBody, queueVars
<1>2. queue_size # 0 => pc' = [pc EXCEPT ![w] = "start"]
  BY DEF WorkerBody
<1>3. IdleMeansEmpty'
  BY <1>1, <1>2 DEF IdleMeansEmpty, TypeOK
<1>4. NoForgottenTask'
  BY <1>1, <1>2 DEF NoForgottenTask, TypeOK
<1> QED
  BY <1>3, <1>4 DEF FInv

LEMMA WorkerKeeps ==
  ASSUME Fixed, TypeOK, Locks, FixedCount, FInv, ~shutdown, NEW w \in Worker,
         WorkerProgress(w) \/ SpuriousWake(w)
  PROVE  FInv'
<1>1. shutdown' = shutdown /\ \A v \in Worker \ {w} : pc'[v] = pc[v]
  BY WorkerMoves
<1>2. CASE WorkerBody(w)
  <2>1. LockFree \/ (lock = w /\ pc[w] = "dismissed")
    BY <1>2, BodyMoves DEF WorkerProgress, SpuriousWake, WorkerEnter, WorkerWait,
       WorkerWake, WorkerDismissed, WorkerLeave, WorkerLower, WorkerUnlock, WorkerStart,
       WorkerFinish, WorkerGone, Locks, Inside, TypeOK
  <2>2. \A v \in Worker : pc[v] # "idle"
    BY <2>1, ArgAssumption DEF Locks, Inside, LockFree
  <2> QED
    BY <1>1, <1>2, <2>2, TurnKeeps
<1>3. CASE WorkerWait(w)
  <2>1. /\ pc' = [pc EXCEPT ![w] = "waiting"] /\ pc[w] = "idle"
        /\ queue_size' = queue_size
    BY <1>3 DEF WorkerWait, queueVars
  <2>2. queue_size = 0
    BY <2>1 DEF FInv, IdleMeansEmpty
  <2> QED
    BY <1>1, <2>1, <2>2 DEF FInv, IdleMeansEmpty, NoForgottenTask, TypeOK
<1>4. CASE ~WorkerBody(w) /\ ~WorkerWait(w)
  <2>1. /\ queue_size' = queue_size /\ pc'[w] # "idle"
        /\ Awake(w) => Awake(w)'
    BY <1>4, NobodyMayLeave DEF WorkerProgress, SpuriousWake, WorkerEnter, WorkerWake,
       WorkerDismissed, WorkerLeave, WorkerLower, WorkerUnlock, WorkerStart,
       WorkerFinish, WorkerGone, Awake, queueVars, TypeOK
  <2>2. \A v \in Worker : /\ Awake(v) => Awake(v)'
                          /\ pc'[v] = "idle" => pc[v] = "idle"
    BY <1>1, <2>1 DEF Awake
  <2> QED
    BY <1>1, <2>1, <2>2, WakingKeeps
<1> QED
  BY <1>2, <1>3, <1>4

LEMMA OthersKeep ==
  ASSUME TypeOK, FixedCount, FInv, Manager \/ DestroyProgress
  PROVE  FInv'
<1>1. SignalNotEmpty \/ BroadcastNotEmpty \/ pc' = pc
  BY NobodyIsCreated, ManagerMoves, DestroyerMoves
<1>2. UNCHANGED <<queue_size, shutdown>>
  BY DestroyerMoves
     DEF Manager, MgrLoop, MgrSample, MgrReadBusy, MgrGrow, MgrCreate, MgrCount,
         MgrRaise, MgrUnlock, MgrShrink, MgrSignal, MgrUnchanged,
         DestroyProgress, DestroyJoinManager, DestroyBroadcast, DestroyJoin,
         DestroyFree, DstUnchanged, queueVars
<1> QED
  BY <1>1, <1>2, SignalWakes, WakingKeeps

(* NoForgottenTask: in a pool of a fixed size some worker is awake, or has *)
(* been woken, whenever a task waits: no signal is lost between a worker's *)
(* test of queue_size and its wait.                                        *)
THEOREM NoTaskIsForgotten == ASSUME Fixed PROVE Spec => []NoForgottenTask
<1>1. Init => FInv
  BY DEF Init, FInv, IdleMeansEmpty, NoForgottenTask
<1>2. /\ TypeOK /\ Locks /\ (~shutdown => Counts) /\ FixedCount /\ FInv
      /\ [Next]_vars
      => FInv'
  <2> SUFFICES ASSUME TypeOK, Locks, ~shutdown => Counts, FixedCount, FInv,
                      [Next]_vars
               PROVE  FInv'
    OBVIOUS
  <2>1. CASE UNCHANGED vars
    BY <2>1 DEF vars, queueVars, FInv, IdleMeansEmpty, NoForgottenTask
  <2>2. CASE shutdown
    <3>1. shutdown'
      BY <2>1, <2>2, AddMoves, WorkerMoves, ManagerMoves, DestroyerMoves DEF Next, vars
    <3> QED
      BY <3>1 DEF FInv, IdleMeansEmpty, NoForgottenTask
  <2>3. CASE DestroyCall
    BY <2>3, DestroyerMoves DEF FInv, IdleMeansEmpty, NoForgottenTask
  <2> QED
    BY <2>1, <2>2, <2>3, AddKeeps, WorkerKeeps, OthersKeep DEF Next
<1>3. FInv => NoForgottenTask
  BY DEF FInv
<1> QED
  BY <1>1, <1>2, <1>3, FixedHolds, PTL DEF Spec

-----------------------------------------------------------------------------
(* threadpool_destroy joins every handle of a pool that has always had     *)
(* max_thr_num threads, and a thread that has exited stays so.             *)
Joined ==
  /\ dst.pc = "join" => \A w \in Worker : w < dst.i => pc[w] = "exited"
  /\ dst.pc \in {"free", "freed"} => \A w \in Worker : pc[w] = "exited"

LEMMA ExitedStays ==
  ASSUME TypeOK, Locks, FixedCount, [Next]_vars
  PROVE  \A w \in Worker : pc[w] = "exited" => pc'[w] = "exited"
<1>1. SignalNotEmpty \/ BroadcastNotEmpty \/ pc' = pc
        => \A w \in Worker : pc[w] = "exited" => pc'[w] = "exited"
  BY SignalMoves
<1>2. ASSUME NEW w \in Worker, WorkerProgress(w) \/ SpuriousWake(w)
      PROVE  pc[w] # "exited" /\ \A v \in Worker \ {w} : pc'[v] = pc[v]
  BY <1>2, WorkerMoves
     DEF WorkerProgress, WorkerEnter, WorkerWait, WorkerWake, WorkerDismissed,
         WorkerLeave, WorkerLower, WorkerUnlock, WorkerStart, WorkerFinish,
         WorkerGone, SpuriousWake
<1>3. Manager => SignalNotEmpty \/ pc' = pc
  BY NobodyIsCreated, ManagerMoves
<1>4. UNCHANGED vars => pc' = pc
  BY DEF vars
<1> QED
  BY <1>1, <1>2, <1>3, <1>4, AddMoves, DestroyerMoves DEF Next

LEMMA JoinKeeps ==
  ASSUME TypeOK, Locks, FixedCount, Joined, [Next]_vars
  PROVE  Joined'
<1>1. CASE dst' = dst
  BY <1>1, ExitedStays DEF Joined
<1>2. CASE DestroyJoin
  <2>1. CASE JoinsLeft
    <3>1. /\ dst.pc = "join" /\ pc[dst.i] = "exited" /\ pc' = pc
          /\ dst'.pc = dst.pc /\ dst'.i = dst.i + 1 /\ dst.i \in Nat
      BY <1>2, <2>1 DEF DestroyJoin, TypeOK
    <3>2. \A w \in Worker : w < dst.i + 1 => w < dst.i \/ w = dst.i
      BY <3>1, SizeAssumption DEF Worker
    <3> QED
      BY <3>1, <3>2 DEF Joined
  <2>2. CASE ~JoinsLeft
    <3>1. /\ dst.pc = "join" /\ pc' = pc /\ dst'.pc = "free" /\ dst.i \in Nat
      BY <1>2, <2>2 DEF DestroyJoin, TypeOK
    <3>2. \A w \in Worker : w < dst.i
      BY <2>2, <3>1, SizeAssumption DEF FixedCount, JoinsLeft, Worker
    <3> QED
      BY <3>1, <3>2 DEF Joined
  <2> QED
    BY <2>1, <2>2
<1>3. CASE DestroyCall \/ DestroyJoinManager \/ DestroyBroadcast
  <2>1. /\ dst.pc \in {"open", "joinmgr", "bcast"}
        /\ \/ dst'.pc \in {"joinmgr", "bcast"}
           \/ dst'.pc = "join" /\ dst'.i = 0
    BY <1>3 DEF DestroyCall, DestroyJoinManager, DestroyBroadcast, TypeOK
  <2> QED
    BY <2>1, SizeAssumption DEF Joined, Worker
<1>4. CASE DestroyFree
  BY <1>4 DEF DestroyFree, Joined, TypeOK
<1>5. dst' = dst \/ DestroyCall \/ DestroyProgress
  BY AddMoves, WorkerMoves, ManagerMoves DEF Next, vars
<1> QED
  BY <1>1, <1>2, <1>3, <1>4, <1>5 DEF DestroyProgress

(* NoThreadOutlivesPool: threadpool_free destroys the lock and frees the   *)
(* queue of a pool of a fixed size after the last of its threads is gone,  *)
(* even if threadpool_add is called while it is being destroyed.           *)
THEOREM NobodyOutlivesPool == ASSUME Fixed PROVE Spec => []NoThreadOutlivesPool
<1>1. Init => Joined
  BY DEF Init, Joined
<1>2. TypeOK /\ Locks /\ FixedCount /\ Joined /\ [Next]_vars => Joined'
  BY JoinKeeps
<1>3. Joined => NoThreadOutlivesPool
  BY DEF Joined, NoThreadOutlivesPool, Alive
<1> QED
  BY <1>1, <1>2, <1>3, FixedHolds, PTL DEF Spec

-----------------------------------------------------------------------------
(***************************************************************************)
(* The ring.                                                               *)
(***************************************************************************)
Holds(w) == pc[w] \in {"start", "run"}
Adds(c)  == call[c] \in {"waiting", "woken", "late"}

(* Every call of threadpool_add and every worker has its task for itself.  *)
Owned ==
  /\ \A w \in Worker : /\ Holds(w) => task[w] \in Task /\ task[w] \notin done \cup todo
                       /\ ~Holds(w) => task[w] = Null
  /\ \A v, w \in Worker : task[v] # Null /\ task[v] = task[w] => v = w
  /\ \A c \in Caller : /\ Adds(c) => adding[c] \in Task \ (done \cup todo)
                       /\ ~Adds(c) => adding[c] = Null
  /\ \A c, d \in Caller : adding[c] # Null /\ adding[c] = adding[d] => c = d
  /\ \A c \in Caller, w \in Worker : adding[c] # Null => adding[c] # task[w]
  /\ done \subseteq Task /\ done \cap todo = {}

(* Where a destroy stands, and what the rules of the header exclude.       *)
Closing ==
  /\ (dst.pc = "open") = ~shutdown
  /\ \A c \in Caller : call[c] \in {"late", "unlocking"} => shutdown
  /\ Orderly /\ shutdown => \A c \in Caller : call[c] = "out"

Ring ==
  /\ queue_size <= QueueMax
  /\ queue_rear = InQueue(queue_size)
  /\ Queued \subseteq Task
  /\ \A i, j \in 0 .. queue_size - 1 :
       task_queue[InQueue(i)] = task_queue[InQueue(j)] => i = j

Apart ==
  \A t \in Queued : /\ t \notin done \cup todo
                    /\ \A w \in Worker : task[w] # t
                    /\ \A c \in Caller : adding[c] # t

(* With TypeOK and Closing this is the inductive invariant: after a         *)
(* shutdown an add that breaks the rules may overwrite a waiting task.     *)
Rest == Owned /\ (~shutdown \/ Orderly => Ring /\ Apart)

Pending == [i \in 1 .. queue_size |-> task_queue[InQueue(i - 1)]]

-----------------------------------------------------------------------------
(* Indices modulo queue_max_size.                                          *)
Wrap(x) == IF x < QueueMax THEN x ELSE x - QueueMax

LEMMA ModQueue ==
  \A f \in Slot : \A i \in 0 .. QueueMax : (f + i) % QueueMax = Wrap(f + i)
<1> SUFFICES ASSUME NEW f \in Slot, NEW i \in 0 .. QueueMax
             PROVE  (f + i) % QueueMax = Wrap(f + i)
  OBVIOUS
<1>1. QueueMax \in Nat \ {0} /\ f \in Nat /\ f < QueueMax
  BY SizeAssumption DEF Slot
<1>2. \A x \in 0 .. QueueMax - 1 : x % QueueMax = x
  BY <1>1
<1>3. \A x \in QueueMax .. 2 * QueueMax - 1 : x % QueueMax = x - QueueMax
  BY <1>1
<1> QED
  BY <1>1, <1>2, <1>3 DEF Wrap

LEMMA QueueMaxIsPositive == QueueMax \in Nat /\ QueueMax > 0 /\ Slot = 0 .. QueueMax - 1
  BY SizeAssumption DEF Slot

LEMMA SuccIsWrap == \A s \in Slot : Succ(s) = Wrap(s + 1)
  BY ModQueue, QueueMaxIsPositive DEF Succ, Wrap

LEMMA InQueueIsWrap ==
  ASSUME queue_front \in Slot
  PROVE  \A i \in 0 .. QueueMax : InQueue(i) = Wrap(queue_front + i)
BY ModQueue, Zenon DEF InQueue

LEMMA InQueueInjective ==
  ASSUME queue_front \in Slot
  PROVE  /\ \A i \in 0 .. QueueMax : InQueue(i) \in Slot
         /\ \A i, j \in 0 .. QueueMax - 1 : InQueue(i) = InQueue(j) => i = j
         /\ InQueue(0) = queue_front
<1>1. \A i \in 0 .. QueueMax - 1 : i \in 0 .. QueueMax
  BY QueueMaxIsPositive
<1> QED
  BY <1>1, InQueueIsWrap, QueueMaxIsPositive DEF Wrap

LEMMA SuccRear ==
  ASSUME queue_front \in Slot, NEW n \in 0 .. QueueMax - 1
  PROVE  Succ(InQueue(n)) = InQueue(n + 1)
<1>1. n \in 0 .. QueueMax /\ n + 1 \in 0 .. QueueMax
  BY QueueMaxIsPositive
<1>2. InQueue(n) \in Slot /\ Succ(InQueue(n)) = Wrap(InQueue(n) + 1)
  BY <1>1, InQueueInjective, SuccIsWrap
<1>3. InQueue(n) = Wrap(queue_front + n) /\ InQueue(n + 1) = Wrap(queue_front + (n + 1))
  BY <1>1, InQueueIsWrap
<1> QED
  BY <1>2, <1>3, QueueMaxIsPositive DEF Wrap

LEMMA SuccFront ==
  ASSUME queue_front \in Slot, queue_front' = Succ(queue_front),
         NEW n \in 0 .. QueueMax - 1
  PROVE  (queue_front' + n) % QueueMax = InQueue(n + 1)
<1>1. n \in 0 .. QueueMax /\ n + 1 \in 0 .. QueueMax
  BY QueueMaxIsPositive
<1>2. queue_front' \in Slot /\ queue_front' = Wrap(queue_front + 1)
  BY SuccIsWrap, SuccType
<1>3. (queue_front' + n) % QueueMax = Wrap(queue_front' + n)
  BY <1>1, <1>2, ModQueue, Zenon
<1>4. InQueue(n + 1) = Wrap(queue_front + (n + 1))
  BY <1>1, InQueueIsWrap
<1>5. Wrap(queue_front' + n) = Wrap(queue_front + (n + 1))
  BY <1>2, QueueMaxIsPositive DEF Wrap
<1> QED
  BY <1>3, <1>4, <1>5

(* Enqueue puts the task behind those that wait, into a slot of its own.   *)
LEMMA EnqueueRing ==
  ASSUME TypeOK, Ring, ~QueueFull, NEW t \in Task, t \notin Queued, Enqueue(t)
  PROVE  Ring' /\ Queued' = Queued \cup {t} /\ Pending' = Append(Pending, t)
<1> USE QueueMaxIsPositive
<1> DEFINE n == queue_size
<1>1. n \in 0 .. QueueMax - 1 /\ n' = n + 1 /\ queue_front' = queue_front
  BY DEF TypeOK, Ring, QueueFull, Enqueue
<1>2. /\ \A i \in 0 .. QueueMax : InQueue(i)' = InQueue(i) /\ InQueue(i) \in Slot
      /\ \A i, j \in 0 .. QueueMax - 1 : InQueue(i) = InQueue(j) => i = j
  BY <1>1, InQueueInjective DEF TypeOK, InQueue
<1>3. task_queue' = [task_queue EXCEPT ![InQueue(n)] = t] /\ queue_rear' = InQueue(n + 1)
  BY <1>1, SuccRear DEF TypeOK, Ring, Enqueue
<1>4. /\ task_queue'[InQueue(n)] = t
      /\ \A i \in 0 .. n - 1 : task_queue'[InQueue(i)] = task_queue[InQueue(i)]
  <2>1. \A i \in 0 .. n - 1 : InQueue(i) \in Slot /\ InQueue(i) # InQueue(n)
    <3>1. \A i \in 0 .. n - 1 : i \in 0 .. QueueMax /\ i \in 0 .. QueueMax - 1 /\ i # n
      BY <1>1
    <3> QED
      BY <1>1, <1>2, <3>1
  <2>2. InQueue(n) \in Slot /\ task_queue \in [Slot -> Task \cup {Null, Junk}]
    BY <1>1, <1>2 DEF TypeOK
  <2> QED
    BY <1>3, <2>1, <2>2
<1>5. Queued' = {task_queue'[InQueue(i)] : i \in 0 .. n}
  <2>1. n' - 1 = n
    BY <1>1
  <2>2. \A i \in 0 .. n : InQueue(i)' = InQueue(i)
    BY <1>1, <1>2
  <2> QED
    BY <2>1, <2>2 DEF Queued
<1>6. Queued' = Queued \cup {t}
  <2>1. 0 .. n = (0 .. n - 1) \cup {n}
    BY <1>1
  <2> QED
    BY <1>4, <1>5, <2>1 DEF Queued
<1>7. \A i, j \in 0 .. n : task_queue'[InQueue(i)] = task_queue'[InQueue(j)] => i = j
  <2>1. \A i \in 0 .. n - 1 : task_queue[InQueue(i)] # t
    BY DEF Queued
  <2>2. \A i \in 0 .. n : i \in 0 .. n - 1 \/ i = n
    BY <1>1
  <2> QED
    BY <1>4, <2>1, <2>2 DEF Ring
<1>8. Ring'
  <2>1. n' - 1 = n /\ n' <= QueueMax
    BY <1>1
  <2>2. (queue_rear = InQueue(queue_size))'
    BY <1>1, <1>3 DEF InQueue
  <2>3. Queued' \subseteq Task
    BY <1>6 DEF Ring
  <2>4. \A i \in 0 .. n : InQueue(i)' = InQueue(i)
    BY <1>1, <1>2
  <2>5. \A i, j \in 0 .. n' - 1 : task_queue'[InQueue(i)'] = task_queue'[InQueue(j)'] => i = j
    BY <1>7, <2>1, <2>4
  <2> QED
    BY <2>1, <2>2, <2>3, <2>5 DEF Ring
<1>9. Pending' = Append(Pending, t)
  <2>1. Pending' = [i \in 1 .. n + 1 |-> task_queue'[InQueue(i - 1)]]
    <3>1. \A i \in 1 .. n + 1 : InQueue(i - 1)' = InQueue(i - 1)
      BY <1>1, <1>2
    <3> QED
      BY <1>1, <3>1 DEF Pending
  <2>2. Pending \in Seq(Task) /\ Len(Pending) = n
    <3>1. \A i \in 1 .. n : task_queue[InQueue(i - 1)] \in Task
      BY <1>1 DEF Ring, Queued
    <3> QED
      BY <1>1, <3>1 DEF Pending
  <2>3. \A i \in 1 .. n + 1 :
          task_queue'[InQueue(i - 1)] = IF i = n + 1 THEN t ELSE Pending[i]
    BY <1>1, <1>4 DEF Pending
  <2>4. /\ Append(Pending, t) \in Seq(Task) /\ Len(Append(Pending, t)) = n + 1
        /\ \A i \in 1 .. n : Append(Pending, t)[i] = Pending[i]
        /\ Append(Pending, t)[n + 1] = t
    BY <2>2, AppendProperties
  <2>5. Pending' \in Seq(Task) /\ Len(Pending') = n + 1
    <3>1. \A i \in 1 .. n + 1 : task_queue'[InQueue(i - 1)] \in Task
      <4>1. \A i \in 1 .. n : Pending[i] \in Task
        BY <2>2
      <4>2. \A i \in 1 .. n + 1 : i = n + 1 \/ i \in 1 .. n
        BY <1>1
      <4> QED
        BY <2>3, <4>1, <4>2
    <3> QED
      BY <1>1, <2>1, <3>1
  <2>6. \A i \in 1 .. n + 1 : Pending'[i] = Append(Pending, t)[i]
    BY <1>1, <2>1, <2>3, <2>4
  <2> QED
    BY <2>4, <2>5, <2>6, SeqEqual
<1> QED
  BY <1>6, <1>8, <1>9

(* A worker takes the oldest task out of the ring.                         *)
LEMMA DequeueRing ==
  ASSUME TypeOK, Ring, queue_size # 0,
         queue_front' = Succ(queue_front), queue_size' = queue_size - 1,
         UNCHANGED <<task_queue, queue_rear>>
  PROVE  /\ Ring' /\ task_queue[queue_front] \in Queued
         /\ Queued' = Queued \ {task_queue[queue_front]}
         /\ Pending # << >> /\ Head(Pending) = task_queue[queue_front]
         /\ Pending' = Tail(Pending)
<1> USE QueueMaxIsPositive
<1> DEFINE n == queue_size
<1>1. n \in 1 .. QueueMax /\ n' = n - 1 /\ n' \in 0 .. QueueMax - 1
  BY DEF TypeOK, Ring
<1>2. \A i \in 0 .. QueueMax - 1 : InQueue(i)' = InQueue(i + 1)
  BY SuccFront DEF TypeOK, InQueue
<1>3. InQueue(0) = queue_front
  BY InQueueInjective DEF TypeOK
<1>4. Queued' = {task_queue[InQueue(i)] : i \in 1 .. n - 1}
  <2>1. Queued' = {task_queue[InQueue(i + 1)] : i \in 0 .. n - 2}
    <3>1. n' - 1 = n - 2 /\ \A i \in 0 .. n - 2 : InQueue(i)' = InQueue(i + 1)
      BY <1>1, <1>2
    <3> QED
      BY <3>1 DEF Queued
  <2>2. \A i \in 1 .. n - 1 : i - 1 \in 0 .. n - 2 /\ (i - 1) + 1 = i
    BY <1>1
  <2>3. \A i \in 0 .. n - 2 : i + 1 \in 1 .. n - 1
    BY <1>1
  <2> QED
    BY <2>1, <2>2, <2>3
<1>5. Queued = {task_queue[InQueue(i)] : i \in 0 .. n - 1}
  BY DEF Queued
<1>6. 0 .. n - 1 = (1 .. n - 1) \cup {0} /\ 0 \notin 1 .. n - 1
  BY <1>1
<1>7. task_queue[queue_front] \in Queued /\ Queued' = Queued \ {task_queue[queue_front]}
  <2>1. \A i \in 1 .. n - 1 : task_queue[InQueue(i)] # task_queue[InQueue(0)]
    BY <1>6 DEF Ring
  <2> QED
    BY <1>3, <1>4, <1>5, <1>6, <2>1
<1>8. Ring'
  <2>1. (queue_rear = InQueue(queue_size))'
    <3>1. n - 1 \in 0 .. QueueMax - 1 /\ (n - 1) + 1 = n
      BY <1>1
    <3>2. (queue_front' + (n - 1)) % QueueMax = InQueue(n)
      BY <3>1, SuccFront DEF TypeOK
    <3> QED
      BY <1>1, <3>2 DEF Ring, InQueue
  <2>2. \A i, j \in 0 .. n' - 1 : task_queue'[InQueue(i)'] = task_queue'[InQueue(j)'] => i = j
    <3>1. \A i \in 0 .. n' - 1 : InQueue(i)' = InQueue(i + 1) /\ i + 1 \in 0 .. n - 1 /\ i \in Int
      BY <1>1, <1>2
    <3>2. \A i, j \in 0 .. n' - 1 : i + 1 = j + 1 => i = j
      BY <1>1
    <3> QED
      BY <3>1, <3>2 DEF Ring
  <2>3. Queued' \subseteq Task
    BY <1>7 DEF Ring
  <2> QED
    BY <1>1, <2>1, <2>2, <2>3 DEF Ring
<1>9. Pending \in Seq(Task) /\ Len(Pending) = n
  <2>1. \A i \in 1 .. n : task_queue[InQueue(i - 1)] \in Task
    BY <1>1 DEF Ring, Queued
  <2> QED
    BY <1>1, <2>1 DEF Pending
<1>10. Pending # << >> /\ Head(Pending) = task_queue[queue_front]
  <2>1. Head(Pending) = Pending[1] /\ Pending # << >>
    BY <1>1, <1>9
  <2>2. Pending[1] = task_queue[InQueue(1 - 1)] /\ 1 - 1 = 0
    BY <1>1 DEF Pending
  <2> QED
    BY <1>3, <2>1, <2>2
<1>11. Pending' = Tail(Pending)
  <2>1. /\ Tail(Pending) \in Seq(Task) /\ Len(Tail(Pending)) = n - 1
        /\ \A i \in 1 .. n - 1 : Tail(Pending)[i] = Pending[i + 1]
    BY <1>9, <1>10, HeadTailProperties
  <2>2. \A i \in 1 .. n - 1 : Pending[i + 1] = task_queue[InQueue(i)] /\ InQueue(i - 1)' = InQueue(i)
    <3>1. \A i \in 1 .. n - 1 : /\ i + 1 \in 1 .. n /\ (i + 1) - 1 = i
                                /\ i - 1 \in 0 .. QueueMax - 1 /\ (i - 1) + 1 = i
      BY <1>1
    <3> QED
      BY <1>2, <3>1 DEF Pending
  <2>3. Pending' = [i \in 1 .. n - 1 |-> task_queue[InQueue(i - 1)']]
    BY <1>1 DEF Pending
  <2>4. \A i \in 1 .. n - 1 : Pending'[i] = Tail(Pending)[i]
    BY <2>1, <2>2, <2>3
  <2>5. Pending' \in Seq(Task) /\ Len(Pending') = n - 1
    <3>1. \A i \in 1 .. n - 1 : task_queue[InQueue(i - 1)'] \in Task
      BY <1>1, <2>2 DEF Ring, Queued
    <3> QED
      BY <1>1, <2>3, <3>1
  <2> QED
    BY <2>1, <2>4, <2>5, SeqEqual
<1> QED
  BY <1>7, <1>8, <1>10, <1>11

-----------------------------------------------------------------------------
(* A step that moves no task: what is queued, held and added stays.        *)
Still ==
  /\ UNCHANGED <<queueVars, task, done, todo, adding>>
  /\ \A w \in Worker : Holds(w)' = Holds(w)
  /\ \A c \in Caller : Adds(c)' = Adds(c)

LEMMA StillRest ==
  ASSUME Rest, Still, shutdown => shutdown' PROVE Rest'
<1>1. Owned'
  BY DEF Rest, Still, Owned
<1>2. Queued' = Queued /\ (Ring => Ring') /\ (Apart => Apart')
  <2>1. Queued' = Queued
    BY DEF Still, queueVars, Queued, InQueue
  <2>2. Ring => Ring'
    BY <2>1 DEF Still, queueVars, Ring, InQueue
  <2>3. Apart => Apart'
    BY <2>1 DEF Still, Apart
  <2> QED
    BY <2>1, <2>2, <2>3
<1> QED
  BY <1>1, <1>2 DEF Rest

(* Signals and broadcasts reach waiting threads only.                      *)
LEMMA SignalHolds ==
  ASSUME TypeOK, SignalNotEmpty \/ BroadcastNotEmpty \/ pc' = pc
  PROVE  \A w \in Worker : Holds(w)' = Holds(w)
BY DEF TypeOK, SignalNotEmpty, BroadcastNotEmpty, Waiting, Holds

LEMMA BroadcastAdds ==
  ASSUME TypeOK, BroadcastNotFull
  PROVE  \A c \in Caller : Adds(c)' = Adds(c)
BY DEF TypeOK, BroadcastNotFull, Adds

(* A call that has to wait, or that goes on after a shutdown, keeps its    *)
(* task.                                                                   *)
LEMMA KeepTask ==
  ASSUME TypeOK, Rest, NEW c \in Caller, NEW t \in Task, NEW l \in {"waiting", "late"},
         t \in todo \/ t = adding[c], ~Adds(c) \/ t = adding[c],
         todo' = todo \ {t},
         call' = [call EXCEPT ![c] = l], adding' = [adding EXCEPT ![c] = t],
         UNCHANGED <<queueVars, pc, task, done, shutdown>>
  PROVE  Rest'
<1>1. /\ adding'[c] = t /\ call'[c] = l
      /\ \A d \in Caller \ {c} : adding'[d] = adding[d] /\ call'[d] = call[d]
  BY DEF TypeOK
<1>2. t \in Task /\ t # Null /\ t \notin done /\ \A w \in Worker : task[w] # t
  BY ArgAssumption DEF Rest, Owned
<1>3. \A d \in Caller \ {c} : adding[d] # t
  BY <1>2 DEF Rest, Owned
<1>4. Owned'
  <2>1. \A w \in Worker : Holds(w)' = Holds(w)
    BY DEF Holds
  <2> QED
    BY <1>1, <1>2, <1>3, <2>1 DEF Rest, Owned, Adds
<1>5. Queued' = Queued /\ (Ring => Ring')
  <2>1. Queued' = Queued
    BY DEF queueVars, Queued, InQueue
  <2> QED
    BY <2>1 DEF queueVars, Ring, InQueue
<1>6. Ring /\ Apart => Apart'
  <2>1. Ring /\ Apart => t \notin Queued
    BY DEF Apart
  <2> QED
    BY <1>1, <1>5, <2>1 DEF Apart
<1> QED
  BY <1>4, <1>5, <1>6 DEF Rest

(* A call that puts its task into the ring has none left.                  *)
LEMMA GiveTask ==
  ASSUME TypeOK, Rest, NEW c \in Caller, NEW t \in Task, NEW l \in {"out", "unlocking"},
         t \in todo \/ t = adding[c], ~Adds(c) \/ t = adding[c],
         todo' = todo \ {t}, Enqueue(t),
         call' = [call EXCEPT ![c] = l], adding' = [adding EXCEPT ![c] = Null],
         UNCHANGED <<task, done, shutdown>>,
         ~shutdown \/ Orderly => ~QueueFull
  PROVE  /\ Rest'
         /\ ~shutdown \/ Orderly =>
              /\ t \notin Queued \cup done /\ \A w \in Worker : task[w] # t
              /\ Pending' = Append(Pending, t)
<1>1. /\ adding'[c] = Null /\ call'[c] = l
      /\ \A d \in Caller \ {c} : adding'[d] = adding[d] /\ call'[d] = call[d]
  BY DEF TypeOK
<1>2. t \in Task /\ t # Null /\ t \notin done /\ \A w \in Worker : task[w] # t
  BY ArgAssumption DEF Rest, Owned
<1>3. \A d \in Caller \ {c} : adding[d] # t
  BY <1>2 DEF Rest, Owned
<1>4. Owned'
  <2>1. \A w \in Worker : Holds(w)' = Holds(w)
    BY SignalHolds DEF Enqueue, WakeWorker
  <2> QED
    BY <1>1, <1>2, <1>3, <2>1 DEF Rest, Owned, Adds
<1>5. ASSUME ~shutdown \/ Orderly
      PROVE  Ring' /\ Apart' /\ t \notin Queued /\ Pending' = Append(Pending, t)
  <2>1. Ring /\ Apart /\ t \notin Queued
    BY <1>5 DEF Rest, Apart
  <2>2. Ring' /\ Queued' = Queued \cup {t} /\ Pending' = Append(Pending, t)
    BY <1>5, <2>1, EnqueueRing
  <2>3. Apart'
    <3> SUFFICES ASSUME NEW u \in Queued \cup {t}
                 PROVE  /\ u \notin done \cup todo' /\ \A w \in Worker : task[w] # u
                        /\ \A d \in Caller : adding'[d] # u
      BY <2>2 DEF Apart
    <3>1. CASE u = t
      BY <1>1, <1>2, <1>3, <3>1
    <3>2. CASE u \in Queued
      <4>1. u \in Task /\ u # Null
        BY <2>1, <3>2, ArgAssumption DEF Ring
      <4> QED
        BY <1>1, <2>1, <3>2, <4>1 DEF Apart
    <3> QED
      BY <3>1, <3>2
  <2> QED
    BY <2>1, <2>2, <2>3
<1> QED
  BY <1>2, <1>4, <1>5 DEF Rest

(* A worker takes the oldest task, which nobody else holds.                *)
LEMMA TakeTask ==
  ASSUME TypeOK, Rest, NEW w \in Worker, ~Holds(w), ~shutdown, shutdown' = shutdown,
         queue_size # 0, task' = [task EXCEPT ![w] = task_queue[queue_front]],
         queue_front' = Succ(queue_front), queue_size' = queue_size - 1,
         pc' = [pc EXCEPT ![w] = "start"], BroadcastNotFull,
         UNCHANGED <<task_queue, queue_rear, adding, done, todo>>
  PROVE  /\ Rest' /\ task'[w] \in Task /\ Pending # << >> /\ task'[w] = Head(Pending)
         /\ Pending' = Tail(Pending)
<1> DEFINE t == task_queue[queue_front]
<1>1. Ring /\ Apart /\ Owned
  BY DEF Rest
<1>2. /\ Ring' /\ t \in Queued /\ Queued' = Queued \ {t}
      /\ Pending # << >> /\ Head(Pending) = t /\ Pending' = Tail(Pending)
  BY <1>1, DequeueRing
<1>3. /\ t \in Task /\ t # Null /\ t \notin done \cup todo
      /\ \A v \in Worker : task[v] # t /\ \A c \in Caller : adding[c] # t
  BY <1>1, <1>2, ArgAssumption DEF Ring, Apart
<1> HIDE DEF t
<1>4. /\ task'[w] = t /\ \A v \in Worker \ {w} : task'[v] = task[v]
  BY DEF TypeOK, t
<1>5. Holds(w)' /\ \A v \in Worker \ {w} : Holds(v)' = Holds(v)
  BY DEF TypeOK, Holds
<1>6. Owned'
  <2>1. \A c \in Caller : Adds(c)' = Adds(c)
    BY BroadcastAdds
  <2>2. \A v \in Worker : /\ Holds(v)' => task'[v] \in Task /\ task'[v] \notin done \cup todo
                          /\ ~Holds(v)' => task'[v] = Null
    BY <1>1, <1>3, <1>4, <1>5 DEF Owned
  <2>3. \A v, u \in Worker : task'[v] # Null /\ task'[v] = task'[u] => v = u
    BY <1>1, <1>3, <1>4 DEF Owned
  <2>4. \A c \in Caller, v \in Worker : adding[c] # Null => adding[c] # task'[v]
    BY <1>1, <1>3, <1>4 DEF Owned
  <2> QED
    BY <1>1, <2>1, <2>2, <2>3, <2>4 DEF Owned
<1>7. Apart'
  BY <1>1, <1>2, <1>4 DEF Apart
<1> QED
  BY <1>2, <1>3, <1>4, <1>6, <1>7 DEF Rest

-----------------------------------------------------------------------------
(* The three ways a step can show in TaskQueue.                            *)

LEMMA PendingQueued ==
  ASSUME TypeOK, Ring
  PROVE  /\ Pending \in Seq(Task) /\ Len(Pending) = queue_size
         /\ {Pending[i] : i \in 1 .. Len(Pending)} = Queued
<1> USE QueueMaxIsPositive
<1> DEFINE n == queue_size
<1>1. n \in Nat
  BY DEF TypeOK
<1>2. \A i \in 1 .. n : task_queue[InQueue(i - 1)] \in Task /\ i - 1 \in 0 .. n - 1
  BY <1>1 DEF Ring, Queued
<1>3. Pending \in Seq(Task) /\ Len(Pending) = n
  BY <1>1, <1>2 DEF Pending
<1>4. \A i \in 0 .. n - 1 : i + 1 \in 1 .. n /\ (i + 1) - 1 = i
  BY <1>1
<1>5. \A i \in 1 .. n : Pending[i] = task_queue[InQueue(i - 1)]
  BY DEF Pending
<1>6. {Pending[i] : i \in 1 .. n} = Queued
  <2>1. \A i \in 1 .. n : Pending[i] \in Queued
    BY <1>2, <1>5 DEF Queued
  <2>2. \A i \in 0 .. n - 1 : task_queue[InQueue(i)] = Pending[i + 1] /\ i + 1 \in 1 .. n
    BY <1>4, <1>5
  <2> QED
    BY <2>1, <2>2 DEF Queued
<1> QED
  BY <1>3, <1>6

LEMMA RunningIsHeld ==
  ASSUME Owned PROVE Running = {task[w] : w \in Worker} \ {Null}
BY ArgAssumption DEF Owned, Running, Holds

LEMMA GiveIsAccept ==
  ASSUME TypeOK, Rest, ~shutdown \/ Orderly, ~QueueFull, NEW t \in Task,
         t \notin Queued \cup done, \A w \in Worker : task[w] # t,
         Pending' = Append(Pending, t), Running' = Running, done' = done
  PROVE  TQ!Accept(t)
<1>1. Ring
  BY DEF Rest
<1>2. /\ {Pending[i] : i \in 1 .. Len(Pending)} = Queued
      /\ Len(Pending) < QueueMax
  <2>1. {Pending[i] : i \in 1 .. Len(Pending)} = Queued /\ Len(Pending) = queue_size
    BY <1>1, PendingQueued
  <2>2. queue_size < QueueMax
    BY <1>1, QueueMaxIsPositive DEF Ring, QueueFull, TypeOK
  <2> QED
    BY <2>1, <2>2
<1>3. t \notin TQ!Known
  BY <1>2 DEF TQ!Known, Running, Pending
<1> QED
  BY <1>2, <1>3 DEF TQ!Accept, Pending

LEMMA TakeIsTake ==
  ASSUME Pending # << >>, Pending' = Tail(Pending), done' = done,
         Running' = Running \cup {Head(Pending)}
  PROVE  TQ!Take
BY DEF TQ!Take, Pending

LEMMA StutterIsStutter ==
  ASSUME UNCHANGED <<queueVars, done>>, Running' = Running
  PROVE  UNCHANGED TQ!tqVars
BY DEF TQ!tqVars, queueVars, InQueue

-----------------------------------------------------------------------------
(* Every step keeps the invariant and shows in TaskQueue as one of its     *)
(* steps or not at all, until the shutdown or, by the rules of the header, *)
(* for ever.                                                               *)

Shown == ~shutdown \/ Orderly => TQ!TQNext \/ UNCHANGED TQ!tqVars

LEMMA StillShown ==
  ASSUME TypeOK, Rest, Still, shutdown => shutdown', UNCHANGED done
  PROVE  Rest' /\ Shown
<1>1. Rest'
  BY StillRest
<1>2. Running' = Running
  BY DEF Still, Running, Holds
<1> QED
  BY <1>1, <1>2, StutterIsStutter DEF Shown, Still

LEMMA AddBodyShown ==
  ASSUME TypeOK, Rest, NEW c \in Caller, NEW t \in Task,
         t \in todo \/ t = adding[c], ~Adds(c) \/ t = adding[c],
         todo' = todo \ {t}, AddBody(c, t), UNCHANGED <<task, done, shutdown>>
  PROVE  Rest' /\ Shown
<1>1. CASE UNCHANGED <<queueVars, pc, frees>>
  <2>1. \E l \in {"waiting", "late"} : /\ call' = [call EXCEPT ![c] = l]
                                       /\ adding' = [adding EXCEPT ![c] = t]
    <3>1. queue_size' # queue_size + 1
      BY <1>1 DEF TypeOK, queueVars
    <3>2. /\ call' \in {[call EXCEPT ![c] = "waiting"], [call EXCEPT ![c] = "late"]}
          /\ adding' = [adding EXCEPT ![c] = t]
      BY <3>1 DEF AddBody, Enqueue
    <3> QED
      BY <3>2
  <2>2. Rest'
    BY <1>1, <2>1, KeepTask
  <2>3. Running' = Running
    BY <1>1 DEF Running
  <2> QED
    BY <1>1, <2>2, <2>3, StutterIsStutter DEF Shown
<1>2. CASE /\ Enqueue(t) /\ ~QueueFull /\ ~shutdown
           /\ call' = [call EXCEPT ![c] = "out"] /\ adding' = [adding EXCEPT ![c] = Null]
  <2>1. /\ Rest' /\ t \notin Queued \cup done /\ \A w \in Worker : task[w] # t
        /\ Pending' = Append(Pending, t)
    BY <1>2, GiveTask
  <2>2. Running' = Running
    <3>1. \A w \in Worker : Holds(w)' = Holds(w)
      BY <1>2, SignalHolds DEF Enqueue, WakeWorker
    <3> QED
      BY <3>1 DEF Running, Holds
  <2>3. TQ!Accept(t)
    BY <1>2, <2>1, <2>2, GiveIsAccept
  <2> QED
    BY <2>1, <2>3 DEF Shown, TQ!TQNext
<1> QED
  BY <1>1, <1>2 DEF AddBody

LEMMA CallerShown ==
  ASSUME TypeOK, Rest, Closing, NEW c \in Caller, Add(c)
  PROVE  Rest' /\ Shown /\ Closing'
<1>1. ASSUME NEW t \in todo, AddCall(c, t) PROVE Rest' /\ Shown /\ Closing'
  <2>1. /\ t \in Task /\ ~Adds(c) /\ todo' = todo \ {t} /\ AddBody(c, t)
        /\ UNCHANGED <<task, done, shutdown>> /\ dst' = dst
        /\ Orderly => dst.pc = "open"
    BY <1>1 DEF AddCall, Adds, TypeOK
  <2>2. Closing'
    BY <2>1 DEF Closing, AddBody, TypeOK
  <2> QED
    BY <2>1, <2>2, AddBodyShown
<1>2. CASE AddResume(c)
  <2>1. /\ call[c] = "woken" /\ AddBody(c, adding[c]) /\ todo' = todo
        /\ UNCHANGED <<task, done, shutdown>> /\ dst' = dst
    BY <1>2 DEF AddResume
  <2>2. adding[c] \in Task /\ adding[c] \notin todo
    BY <2>1 DEF Rest, Owned, Adds
  <2>3. Closing'
    BY <2>1 DEF Closing, AddBody, TypeOK
  <2>4. todo' = todo \ {adding[c]}
    BY <2>1, <2>2
  <2> QED
    BY <2>1, <2>2, <2>3, <2>4, AddBodyShown
<1>3. CASE AddLate(c)
  <2>1. /\ call[c] = "late" /\ Enqueue(adding[c]) /\ todo' = todo
        /\ call' = [call EXCEPT ![c] = "unlocking"]
        /\ adding' = [adding EXCEPT ![c] = Null]
        /\ UNCHANGED <<task, done, shutdown>> /\ dst' = dst
    BY <1>3 DEF AddLate
  <2>2. adding[c] \in Task /\ adding[c] \notin todo /\ shutdown /\ ~Orderly
    BY <2>1 DEF Rest, Owned, Adds, Closing
  <2>3. Closing'
    BY <2>1 DEF Closing, TypeOK
  <2>4. todo' = todo \ {adding[c]}
    BY <2>1, <2>2
  <2>5. Rest'
    BY <2>1, <2>2, <2>4, GiveTask
  <2> QED
    BY <2>2, <2>3, <2>5 DEF Shown
<1>4. CASE AddUnlock(c)
  <2>1. /\ UNCHANGED <<queueVars, pc, task, done, todo, adding, shutdown>> /\ dst' = dst
        /\ \A d \in Caller : /\ Adds(d)' = Adds(d)
                             /\ call'[d] = call[d] \/ call'[d] = "out"
    BY <1>4 DEF AddUnlock, Adds, TypeOK
  <2>2. Closing'
    BY <2>1 DEF Closing
  <2> QED
    BY <2>1, <2>2, StillShown DEF Still, Holds
<1> QED
  BY <1>1, <1>2, <1>3, <1>4 DEF Add

LEMMA WorkerBodyShown ==
  ASSUME TypeOK, Rest, NEW w \in Worker, ~Holds(w), WorkerBody(w),
         UNCHANGED <<adding, done, todo, shutdown>>
  PROVE  Rest' /\ Shown
<1>1. CASE UNCHANGED <<queueVars, task, call>>
           /\ \E l \in {"idle", "exiting"} : pc' = [pc EXCEPT ![w] = l]
  <2>1. \A v \in Worker : Holds(v)' = Holds(v)
    BY <1>1 DEF Holds, TypeOK
  <2> QED
    BY <1>1, <2>1, StillShown DEF Still, Adds
<1>2. CASE /\ queue_size # 0 /\ ~shutdown
           /\ task' = [task EXCEPT ![w] = task_queue[queue_front]]
           /\ queue_front' = Succ(queue_front) /\ queue_size' = queue_size - 1
           /\ BroadcastNotFull /\ pc' = [pc EXCEPT ![w] = "start"]
           /\ UNCHANGED <<task_queue, queue_rear>>
  <2>1. /\ Rest' /\ task'[w] \in Task /\ Pending # << >> /\ task'[w] = Head(Pending)
        /\ Pending' = Tail(Pending)
    BY <1>2, TakeTask
  <2>2. Running' = Running \cup {Head(Pending)}
    <3>1. /\ Running = {task[v] : v \in Worker} \ {Null}
          /\ Running' = {task'[v] : v \in Worker} \ {Null}
      <4>1. Owned'
        BY <2>1 DEF Rest
      <4>2. Running' = {task'[v] : v \in Worker} \ {Null}
        BY <4>1, ArgAssumption DEF Owned, Running, Holds
      <4> QED
        BY <4>2, RunningIsHeld DEF Rest
    <3>2. task[w] = Null /\ task'[w] # Null /\ \A v \in Worker \ {w} : task'[v] = task[v]
      BY <1>2, <2>1, ArgAssumption DEF Rest, Owned, TypeOK
    <3> QED
      BY <2>1, <3>1, <3>2
  <2>3. TQ!Take
    BY <2>1, <2>2, TakeIsTake
  <2> QED
    BY <2>1, <2>3 DEF Shown, TQ!TQNext
<1> QED
  BY <1>1, <1>2 DEF WorkerBody

LEMMA FinishShown ==
  ASSUME TypeOK, Rest, NEW w \in Worker, WorkerFinish(w)
  PROVE  Rest' /\ Shown
<1> DEFINE t == task[w]
<1>1. /\ Holds(w) /\ pc' = [pc EXCEPT ![w] = "ready"] /\ task' = [task EXCEPT ![w] = Null]
      /\ done' = done \cup {t} /\ UNCHANGED <<queueVars, adding, call, todo, shutdown>>
  BY DEF WorkerFinish, Holds
<1>2. Owned /\ t \in Task /\ t # Null /\ t \notin todo /\ (~shutdown \/ Orderly => Ring /\ Apart)
  BY <1>1, ArgAssumption DEF Rest, Owned
<1>3. /\ task'[w] = Null /\ \A v \in Worker \ {w} : task'[v] = task[v]
      /\ ~Holds(w)' /\ \A v \in Worker \ {w} : Holds(v)' = Holds(v)
  BY <1>1 DEF TypeOK, Holds
<1>4. \A v \in Worker \ {w} : task[v] # t
  BY <1>2 DEF Owned
<1>5. \A c \in Caller : adding[c] # t
  BY <1>2 DEF Owned
<1> HIDE DEF t
<1>6. Owned'
  <2>1. \A v \in Worker : /\ Holds(v)' => task'[v] \in Task /\ task'[v] \notin done' \cup todo
                          /\ ~Holds(v)' => task'[v] = Null
    BY <1>1, <1>2, <1>3, <1>4 DEF Owned
  <2>2. \A v, u \in Worker : task'[v] # Null /\ task'[v] = task'[u] => v = u
    BY <1>2, <1>3 DEF Owned
  <2>3. \A c \in Caller : /\ Adds(c) => adding[c] \in Task \ (done' \cup todo)
                          /\ ~Adds(c) => adding[c] = Null
    BY <1>1, <1>2, <1>5 DEF Owned
  <2>4. \A c \in Caller, v \in Worker : adding[c] # Null => adding[c] # task'[v]
    BY <1>2, <1>3 DEF Owned
  <2>5. done' \subseteq Task /\ done' \cap todo = {}
    BY <1>1, <1>2 DEF Owned
  <2> QED
    BY <1>1, <1>2, <2>1, <2>2, <2>3, <2>4, <2>5 DEF Owned, Adds
<1>7. /\ Queued' = Queued /\ Pending' = Pending /\ (Ring => Ring')
  <2>1. Queued' = Queued /\ Pending' = Pending
    BY <1>1 DEF queueVars, Queued, Pending, InQueue
  <2> QED
    BY <1>1, <2>1 DEF queueVars, Ring, InQueue
<1>8. Ring /\ Apart => Apart'
  <2>1. Ring /\ Apart => t \notin Queued /\ Null \notin Queued
    BY ArgAssumption DEF Ring, Apart, t
  <2> QED
    BY <1>1, <1>3, <1>7, <2>1 DEF Apart
<1>9. Running' = Running \ {t} /\ t \in Running
  <2>1. /\ Running = {task[v] : v \in Worker} \ {Null}
        /\ Running' = {task'[v] : v \in Worker} \ {Null}
    BY <1>2, <1>6, ArgAssumption DEF Owned, Running, Holds
  <2>2. task[w] = t
    BY DEF t
  <2> QED
    BY <1>2, <1>3, <1>4, <2>1, <2>2
<1>10. TQ!Finish(t)
  BY <1>1, <1>7, <1>9 DEF TQ!Finish, Pending
<1>11. Rest'
  BY <1>1, <1>2, <1>6, <1>7, <1>8 DEF Rest
<1>12. t \in Task
  BY <1>2
<1> QED
  BY <1>10, <1>11, <1>12 DEF Shown, TQ!TQNext

LEMMA WorkerShown ==
  ASSUME TypeOK, Rest, Closing, NEW w \in Worker, WorkerProgress(w) \/ SpuriousWake(w)
  PROVE  Rest' /\ Shown /\ Closing'
<1>1. CASE WorkerBody(w) /\ (WorkerEnter(w) \/ WorkerWake(w) \/ WorkerDismissed(w))
  <2>1. /\ ~Holds(w) /\ WorkerBody(w) /\ UNCHANGED <<adding, done, todo, shutdown>>
        /\ dst' = dst
    BY <1>1 DEF WorkerEnter, WorkerWake, WorkerDismissed, Holds
  <2>2. Closing'
    BY <2>1, BodyMoves DEF Closing
  <2> QED
    BY <2>1, <2>2, WorkerBodyShown
<1>2. CASE WorkerFinish(w)
  BY <1>2, FinishShown DEF WorkerFinish, Closing
<1>3. CASE /\ ~WorkerFinish(w)
           /\ ~(WorkerBody(w) /\ (WorkerEnter(w) \/ WorkerWake(w) \/ WorkerDismissed(w)))
  <2>1. /\ UNCHANGED <<queueVars, task, call, adding, done, todo, shutdown>> /\ dst' = dst
    BY <1>3 DEF WorkerProgress, SpuriousWake, WorkerEnter, WorkerWait, WorkerWake,
       WorkerDismissed, WorkerLeave, WorkerLower, WorkerUnlock, WorkerStart, WorkerGone
  <2>2. Holds(w)' = Holds(w)
    BY <1>3 DEF WorkerProgress, SpuriousWake, WorkerEnter, WorkerWait, WorkerWake,
       WorkerDismissed, WorkerLeave, WorkerLower, WorkerUnlock, WorkerStart, WorkerGone,
       Holds, TypeOK
  <2>3. \A v \in Worker : Holds(v)' = Holds(v)
    BY <2>2, WorkerMoves DEF Holds
  <2>4. Closing'
    BY <2>1 DEF Closing
  <2> QED
    BY <2>1, <2>3, <2>4, StillShown DEF Still, Adds
<1> QED
  BY <1>1, <1>2, <1>3 DEF WorkerProgress

LEMMA OthersShown ==
  ASSUME TypeOK, Rest, Closing,
         Manager \/ DestroyCall \/ DestroyProgress \/ UNCHANGED vars
  PROVE  Rest' /\ Shown /\ Closing'
<1>1. UNCHANGED <<queueVars, task, call, adding, done, todo>> /\ (shutdown => shutdown')
  BY DEF Manager, MgrLoop, MgrSample, MgrReadBusy, MgrGrow, MgrCreate, MgrCount, MgrRaise,
     MgrUnlock, MgrShrink, MgrSignal, MgrUnchanged, DestroyCall, DestroyProgress,
     DestroyJoinManager, DestroyBroadcast, DestroyJoin, DestroyFree, DstUnchanged, vars
<1>2. \A v \in Worker : Holds(v)' = Holds(v)
  <2>1. CASE MgrCreate
    <3>1. \A v \in Worker : (pc'[v] \in {"start", "run"}) = (pc[v] \in {"start", "run"})
      <4>1. Manager
        BY <2>1 DEF Manager
      <4> QED
        BY <2>1, <4>1, ManagerMoves
    <3> QED
      BY <3>1 DEF Holds
  <2>2. CASE ~MgrCreate
    <3>1. SignalNotEmpty \/ BroadcastNotEmpty \/ pc' = pc
      BY <2>2, ManagerMoves, DestroyerMoves DEF vars
    <3> QED
      BY <3>1, SignalHolds
  <2> QED
    BY <2>1, <2>2
<1>3. Closing'
  <2>1. CASE DestroyCall
    BY <1>1, <2>1, DestroyerMoves DEF DestroyCall, Closing
  <2>2. CASE DestroyProgress
    BY <1>1, <2>2, DestroyerMoves DEF Closing
  <2>3. CASE Manager \/ UNCHANGED vars
    BY <1>1, <2>3, ManagerMoves DEF vars, Closing
  <2> QED
    BY <2>1, <2>2, <2>3
<1> QED
  BY <1>1, <1>2, <1>3, StillShown DEF Still, Adds

LEMMA StepShown ==
  ASSUME TypeOK, Rest, Closing, [Next]_vars PROVE Rest' /\ Shown /\ Closing'
BY CallerShown, WorkerShown, OthersShown DEF Next

LEMMA InitRest == Init => Rest /\ Closing
<1> SUFFICES ASSUME Init PROVE Rest /\ Closing
  OBVIOUS
<1>1. Owned
  <2>1. /\ \A w \in Worker : ~Holds(w) /\ task[w] = Null
        /\ \A c \in Caller : ~Adds(c) /\ adding[c] = Null
        /\ done = {}
    BY DEF Init, Holds, Adds
  <2> QED
    BY <2>1 DEF Owned
<1>2. Closing
  BY DEF Init, Closing
<1>3. queue_size = 0 /\ queue_front = 0 /\ queue_rear = 0 /\ Queued = {}
  <2>1. queue_size = 0 /\ queue_front = 0 /\ queue_rear = 0
    BY DEF Init
  <2>2. 0 .. queue_size - 1 = {}
    BY <2>1
  <2> QED
    BY <2>1, <2>2 DEF Queued
<1>4. Ring /\ Apart
  <2>1. InQueue(0) = 0
    BY <1>3, InQueueInjective, QueueMaxIsPositive
  <2>2. 0 .. queue_size - 1 = {} /\ queue_size <= QueueMax
    BY <1>3, QueueMaxIsPositive
  <2> QED
    BY <1>3, <2>1, <2>2 DEF Ring, Apart
<1> QED
  BY <1>1, <1>2, <1>4 DEF Rest

LEMMA RestHolds == Spec => [](TypeOK /\ Rest /\ Closing)
<1>1. TypeOK /\ (Rest /\ Closing) /\ [Next]_vars => (Rest /\ Closing)'
  BY StepShown
<1> QED
  BY <1>1, InitRest, PoolTypeCorrect, PTL DEF Spec

(* RingConsistent: until the shutdown the slots between the front and the  *)
(* rear hold distinct tasks that no worker has taken, however callers,     *)
(* workers and the manager interleave.                                     *)
THEOREM RingIsConsistent == Spec => []RingConsistent
<1>1. TypeOK /\ Rest => RingConsistent
  <2> SUFFICES ASSUME TypeOK, Owned, Ring, Apart, ~shutdown PROVE RingConsistent
    BY DEF Rest, RingConsistent
  <2>1. queue_rear = (queue_front + queue_size) % QueueMax
    BY DEF Ring, InQueue
  <2>2. Queued \cap (Running \cup done \cup todo) = {}
    BY DEF Apart, Running
  <2> QED
    BY <2>1, <2>2 DEF Ring, RingConsistent
<1> QED
  BY <1>1, RestHolds, PTL

(* TaskTakenOnce: no task is in the hands of two workers, and none that    *)
(* has finished or was not yet added, before and after the shutdown.       *)
THEOREM EachTaskTakenOnce == Spec => []TaskTakenOnce
<1>1. Rest => TaskTakenOnce
  BY DEF Rest, Owned, TaskTakenOnce
<1> QED
  BY <1>1, RestHolds, PTL

(* RefinesTaskQueue: used by the rules of its header, the pool is a        *)
(* bounded first-in first-out queue that hands each task to one worker.    *)
THEOREM PoolRefines == ASSUME Orderly PROVE Spec => RefinesTaskQueue
<1>1. Init => TQ!TQInit
  <2> SUFFICES ASSUME Init PROVE Pending = << >> /\ Running = {} /\ done = {}
    BY DEF TQ!TQInit, Pending
  <2>1. queue_size = 0 /\ done = {} /\ \A w \in Worker : pc[w] \notin {"start", "run"}
    BY DEF Init
  <2>2. 1 .. queue_size = {}
    BY <2>1
  <2> QED
    BY <2>1, <2>2 DEF Pending, Running
<1>2. TypeOK /\ Rest /\ Closing /\ [Next]_vars => [TQ!TQNext]_(TQ!tqVars)
  BY StepShown DEF Shown
<1> QED
  BY <1>1, <1>2, RestHolds, PTL DEF Spec, RefinesTaskQueue, TQ!TQSpec

-----------------------------------------------------------------------------
(* The arguments of tasks.  A slot keeps its task after it was taken, until*)
(* threadpool_add frees its argument and writes the next one over it.      *)
(* The slots are first used in their order: while one is unused, those     *)
(* before the rear are the used ones, and no argument has been freed.      *)

Kept(t) == \/ t \in todo
           \/ \E c \in Caller : adding[c] = t
           \/ \E s \in Slot : task_queue[s] = t

Blocks ==
  /\ \A r, s \in Slot : task_queue[r] \in Task /\ task_queue[r] = task_queue[s] => r = s
  /\ \A s \in Slot : /\ task_queue[s] \notin todo
                     /\ \A c \in Caller : adding[c] \in Task => adding[c] # task_queue[s]
  /\ \A t \in Task : Kept(t) /\ ArgOf[t] \in Sole => frees[ArgOf[t]] = 0
  /\ \A a \in Sole : frees[a] <= 1

Unused ==
  (\E s \in Slot : task_queue[s] \notin Task) =>
    /\ \A s \in Slot : task_queue[s] \in Task <=> s < queue_rear
    /\ \A a \in Arg : frees[a] = 0

LEMMA EnqueueBlocks ==
  ASSUME TypeOK, Blocks, NEW t \in Task, Kept(t), \A s \in Slot : task_queue[s] # t,
         Enqueue(t), todo' \subseteq todo \ {t},
         \A c \in Caller : adding'[c] # t /\ adding'[c] \in {Null, adding[c]}
  PROVE  Blocks'
<1> DEFINE old == task_queue[queue_rear]
<1>1. /\ queue_rear \in Slot /\ task_queue \in [Slot -> Task \cup {Null, Junk}]
      /\ frees \in [Arg \cup {Junk} -> Nat]
  BY DEF TypeOK
<1>2. \A s \in Slot : task_queue'[s] = IF s = queue_rear THEN t ELSE task_queue[s]
  BY <1>1 DEF Enqueue
<1>3. \A a \in Arg : frees'[a] = IF a = OldArg THEN frees[a] + 1 ELSE frees[a]
  BY <1>1 DEF Enqueue
<1>4. OldArg \in Arg => old \in Task /\ OldArg = ArgOf[old]
  BY <1>1, ArgAssumption DEF OldArg, SlotArg
<1>5. \A u \in Task : Kept(u)' => Kept(u) /\ u # old
  <2> SUFFICES ASSUME NEW u \in Task, Kept(u)' PROVE Kept(u) /\ u # old
    OBVIOUS
  <2>1. CASE u \in todo'
    BY <1>1, <2>1 DEF Kept, Blocks
  <2>2. CASE \E c \in Caller : adding'[c] = u
    BY <1>1, <2>2, ArgAssumption DEF Kept, Blocks
  <2>3. CASE \E s \in Slot : task_queue'[s] = u
    BY <1>1, <1>2, <2>3 DEF Kept, Blocks
  <2> QED
    BY <2>1, <2>2, <2>3 DEF Kept
<1>6. OldArg \in Sole => frees[OldArg] = 0
  BY <1>1, <1>4 DEF Blocks, Kept, Sole
<1>7. \A a \in Sole : frees'[a] <= 1
  BY <1>1, <1>3, <1>6 DEF Blocks, Sole
<1>8. \A u \in Task : Kept(u)' /\ ArgOf[u] \in Sole => frees'[ArgOf[u]] = 0
  <2> SUFFICES ASSUME NEW u \in Task, Kept(u)', ArgOf[u] \in Sole PROVE frees'[ArgOf[u]] = 0
    OBVIOUS
  <2>1. ArgOf[u] \in Arg /\ frees[ArgOf[u]] = 0 /\ u # old
    BY <1>5 DEF Blocks, Sole
  <2>2. ArgOf[u] # OldArg
    BY <1>4, <2>1 DEF Sole
  <2> QED
    BY <1>3, <2>1, <2>2
<1>9. \A r, s \in Slot : task_queue'[r] \in Task /\ task_queue'[r] = task_queue'[s] => r = s
  BY <1>2 DEF Blocks
<1>10. \A s \in Slot : /\ task_queue'[s] \notin todo'
                       /\ \A c \in Caller : adding'[c] \in Task => adding'[c] # task_queue'[s]
  BY <1>2, ArgAssumption DEF Blocks
<1> QED
  BY <1>7, <1>8, <1>9, <1>10 DEF Blocks

(* The slot that is filled is the first unused one, or none is.            *)
LEMMA EnqueueUnused ==
  ASSUME TypeOK, Unused, NEW t \in Task, Enqueue(t)
  PROVE  Unused'
<1>1. /\ queue_rear \in Slot /\ task_queue \in [Slot -> Task \cup {Null, Junk}]
      /\ frees \in [Arg \cup {Junk} -> Nat]
  BY DEF TypeOK
<1>2. \A s \in Slot : task_queue'[s] = IF s = queue_rear THEN t ELSE task_queue[s]
  BY <1>1 DEF Enqueue
<1>3. \A a \in Arg : frees'[a] = IF a = OldArg THEN frees[a] + 1 ELSE frees[a]
  BY <1>1 DEF Enqueue
<1>4. OldArg \in Arg => task_queue[queue_rear] \in Task
  BY <1>1, ArgAssumption DEF OldArg, SlotArg
<1> SUFFICES ASSUME NEW s \in Slot, task_queue'[s] \notin Task
             PROVE  /\ \A r \in Slot : task_queue'[r] \in Task <=> r < queue_rear'
                    /\ \A a \in Arg : frees'[a] = 0
  BY DEF Unused
<1>5. s # queue_rear /\ task_queue[s] \notin Task
  BY <1>2
<1>6. /\ \A r \in Slot : task_queue[r] \in Task <=> r < queue_rear
      /\ \A a \in Arg : frees[a] = 0
  BY <1>5 DEF Unused
<1>7. task_queue[queue_rear] \notin Task /\ queue_rear < s
  BY <1>1, <1>5, <1>6 DEF Slot
<1>8. queue_rear' = queue_rear + 1
  <2>1. queue_rear + 1 \in 0 .. QueueMax - 1
    BY <1>1, <1>7, QueueMaxIsPositive DEF Slot
  <2>2. queue_rear' = Succ(queue_rear)
    BY DEF Enqueue
  <2>3. Succ(queue_rear) = (queue_rear + 1) % QueueMax
    BY DEF Succ
  <2> QED
    BY <2>1, <2>2, <2>3, QueueMaxIsPositive, SMTT(30)
<1>9. \A r \in Slot : task_queue'[r] \in Task <=> r < queue_rear'
  BY <1>1, <1>2, <1>6, <1>8 DEF Slot
<1>10. \A a \in Arg : frees'[a] = 0
  BY <1>3, <1>4, <1>6, <1>7
<1> QED
  BY <1>9, <1>10

(* A task that a caller begins to add is in no slot.                       *)
LEMMA AddBodyBlocks ==
  ASSUME TypeOK, Blocks, Unused, ~shutdown, NEW c \in Caller, NEW t \in Task, AddBody(c, t),
         Kept(t), \A s \in Slot : task_queue[s] # t,
         todo' = todo \ {t}, \A d \in Caller \ {c} : adding[d] # t
  PROVE  Blocks' /\ Unused'
<1>1. CASE UNCHANGED <<queueVars, frees>> /\ adding' = [adding EXCEPT ![c] = t]
  <2>1. /\ UNCHANGED <<task_queue, queue_rear, frees>>
        /\ \A d \in Caller : adding'[d] = t \/ adding'[d] = adding[d]
    BY <1>1 DEF queueVars, TypeOK
  <2>2. \A u \in Task : Kept(u)' => Kept(u)
    BY <2>1 DEF Kept
  <2>3. Blocks'
    BY <2>1, <2>2 DEF Blocks
  <2>4. Unused'
    BY <2>1 DEF Unused
  <2> QED
    BY <2>3, <2>4
<1>2. CASE Enqueue(t) /\ adding' = [adding EXCEPT ![c] = Null]
  <2>1. \A d \in Caller : adding'[d] # t /\ adding'[d] \in {Null, adding[d]}
    BY <1>2, ArgAssumption DEF TypeOK
  <2> QED
    BY <1>2, <2>1, EnqueueBlocks, EnqueueUnused
<1> QED
  BY <1>1, <1>2 DEF AddBody

LEMMA StepBlocks ==
  ASSUME TypeOK, Owned, Closing, ~shutdown => Blocks /\ Unused, [Next]_vars
  PROVE  ~shutdown' => Blocks' /\ Unused'
<1>1. shutdown => shutdown'
  <2>1. DestroyCall \/ DestroyProgress => (shutdown => shutdown')
    BY DestroyerMoves
  <2>2. ~(DestroyCall \/ DestroyProgress) => shutdown' = shutdown
    BY WorkerMoves, ManagerMoves
       DEF Next, Add, AddCall, AddResume, AddLate, AddUnlock, vars
  <2> QED
    BY <2>1, <2>2
<1> SUFFICES ASSUME ~shutdown, Blocks, Unused PROVE Blocks' /\ Unused'
  BY <1>1
<1>2. ASSUME NEW c \in Caller, NEW t \in Task, AddCall(c, t) PROVE Blocks' /\ Unused'
  <2>1. Kept(t) /\ \A s \in Slot : task_queue[s] # t
    BY <1>2 DEF AddCall, Blocks, Kept
  <2>2. \A d \in Caller : adding[d] # t
    BY <1>2, ArgAssumption DEF AddCall, Owned, Adds
  <2> QED
    BY <1>2, <2>1, <2>2, AddBodyBlocks DEF AddCall
<1>3. ASSUME NEW c \in Caller, AddResume(c) PROVE Blocks' /\ Unused'
  <2>1. adding[c] \in Task /\ adding[c] \notin todo
    BY <1>3 DEF AddResume, Owned, Adds
  <2>2. Kept(adding[c]) /\ \A s \in Slot : task_queue[s] # adding[c]
    BY <2>1 DEF Kept, Blocks
  <2>3. \A d \in Caller \ {c} : adding[d] # adding[c]
    BY <2>1, ArgAssumption DEF Owned
  <2>4. todo' = todo \ {adding[c]}
    BY <1>3, <2>1 DEF AddResume
  <2> QED
    BY <1>3, <2>1, <2>2, <2>3, <2>4, AddBodyBlocks DEF AddResume
<1>4. ASSUME NEW c \in Caller, AddLate(c) \/ AddUnlock(c) PROVE Blocks' /\ Unused'
  BY <1>4 DEF AddLate, AddUnlock, Closing
<1>5. ASSUME UNCHANGED <<task_queue, queue_rear, todo, adding, frees>> PROVE Blocks' /\ Unused'
  <2>1. \A t \in Task : Kept(t)' <=> Kept(t)
    BY <1>5 DEF Kept
  <2>2. Blocks'
    BY <1>5, <2>1 DEF Blocks
  <2>3. Unused'
    BY <1>5 DEF Unused
  <2> QED
    BY <2>2, <2>3
<1>6. CASE \E w \in Worker : WorkerProgress(w) \/ SpuriousWake(w)
  BY <1>5, <1>6 DEF WorkerProgress, WorkerEnter, WorkerWait, WorkerWake, WorkerBody,
     WorkerDismissed, WorkerLeave, WorkerLower, WorkerUnlock, WorkerStart, WorkerFinish,
     WorkerGone, SpuriousWake, queueVars
<1>7. CASE Manager \/ DestroyCall \/ DestroyProgress \/ UNCHANGED vars
  BY <1>5, <1>7 DEF Manager, MgrLoop, MgrSample, MgrReadBusy, MgrGrow, MgrCreate, MgrCount,
     MgrRaise, MgrUnlock, MgrShrink, MgrSignal, MgrUnchanged, DestroyCall, DestroyProgress,
     DestroyJoinManager, DestroyBroadcast, DestroyJoin, DestroyFree, DstUnchanged, vars,
     queueVars
<1>8. ASSUME NEW c \in Caller, Add(c) PROVE Blocks' /\ Unused'
  <2>1. todo \subseteq Task
    BY DEF TypeOK
  <2> QED
    BY <1>2, <1>3, <1>4, <1>8, <2>1 DEF Add
<1> QED
  BY <1>6, <1>7, <1>8 DEF Next

(* QueuedArgIntact: the "free" of threadpool_add meets no argument that a  *)
(* waiting task has for itself, and none twice, and an argument that tasks *)
(* share, as in the epoll server, is freed by no one of the first          *)
(* queue_max_size calls, for any number of slots, callers and threads and  *)
(* any sharing.                                                            *)
THEOREM NoQueuedArgFreed == Spec => []QueuedArgIntact
<1>1. Init => (~shutdown => Blocks /\ Unused)
  <2> SUFFICES ASSUME Init PROVE Blocks /\ Unused
    OBVIOUS
  <2>1. /\ \A s \in Slot : task_queue[s] \in {Null, Junk}
        /\ \A a \in Arg : frees[a] = 0
        /\ todo = Task /\ \A c \in Caller : adding[c] = Null
        /\ queue_rear = 0
    BY ArgAssumption DEF Init
  <2>2. Blocks
    BY <2>1, ArgAssumption DEF Blocks, Sole
  <2>3. Unused
    BY <2>1, ArgAssumption DEF Unused, Slot
  <2> QED
    BY <2>2, <2>3
<1>2. TypeOK /\ Rest /\ Closing /\ (~shutdown => Blocks /\ Unused) /\ [Next]_vars => (~shutdown => Blocks /\ Unused)'
  BY StepBlocks DEF Rest
<1>3. TypeOK /\ Rest /\ (~shutdown => Blocks /\ Unused) => QueuedArgIntact
  <2> SUFFICES ASSUME TypeOK, Rest, ~shutdown, Blocks, Unused
               PROVE  /\ \A t \in Queued : ArgOf[t] \in Sole => frees[ArgOf[t]] = 0
                      /\ \A a \in Sole : frees[a] <= 1
                      /\ (\E s \in Slot : task_queue[s] \notin Task) => \A a \in Arg : frees[a] = 0
    BY DEF QueuedArgIntact
  <2>1. ASSUME NEW t \in Queued PROVE t \in Task /\ Kept(t)
    <3>1. PICK i \in 0 .. queue_size - 1 : t = task_queue[InQueue(i)]
      BY DEF Queued
    <3>2. i \in 0 .. QueueMax
      BY QueueMaxIsPositive DEF Rest, Ring, TypeOK
    <3>3. InQueue(i) \in Slot
      BY <3>2, InQueueInjective DEF TypeOK
    <3> QED
      BY <3>1, <3>3 DEF Kept, Rest, Ring
  <2> QED
    BY <2>1 DEF Blocks, Unused
<1> QED
  BY <1>1, <1>2, <1>3, RestHolds, PTL DEF Spec
=============================================================================
