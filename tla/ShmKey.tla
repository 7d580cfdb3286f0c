------------------------------- MODULE ShmKey -------------------------------
(***************************************************************************)
(* The key store of generation 1 (shmkey.cpp on shmClass.cpp): a shared    *)
(* memory segment of maxnode records, which any number of processes attach *)
(* and use without a lock.  Every call of shmPutdata, and every call of    *)
(* shmGetdata that finds its key, ends with deshm, which is IPC_RMID: the  *)
(* segment loses its name, and it is freed when the last process that has  *)
(* attached it ends.  Nothing ever calls unshm.                            *)
(*                                                                         *)
(* A step is one system call, the comparison of one record, its memset, one*)
(* half of the memcpy into it, in the order of the fields (the names, then *)
(* the number and the key), or the memcpy of a record that was found.  A   *)
(* process may end at any step.                                            *)
(***************************************************************************)
EXTENDS Integers, FiniteSets

CONSTANTS Process,
          Pair,      \* <<clientId, serverId>>
          KeyId,     \* seckeyid
          MaxNode,   \* maxnode
          MaxSeg,    \* bound: the segments that are created
          MaxPut,    \* bound: the calls of shmPutdata
          None

ASSUME ShmKeyAssumption ==
  /\ MaxNode \in Nat \ {0} /\ MaxSeg \in Nat \ {0} /\ MaxPut \in Nat
  /\ None \notin Pair \cup KeyId \cup Nat

Slot   == 0 .. MaxNode - 1
Seg    == 1 .. MaxSeg
Record == [pair : Pair, id : KeyId]
Zero   == [pair |-> None, id |-> None]
Empty  == [n \in Slot |-> Zero]

VARIABLES
  named,     \* the segment the IPC key names, or None
  segs,      \* the segments that exist
  mem,       \* Seg -> Slot -> record
  attached,  \* Process -> the segments it has attached
  shmid,     \* Process -> the segment it has opened, None for -1
  pc,        \* Process -> where it stands
  i,         \* Process -> the index of its loop
  arg,       \* Process -> the record to store or to look up
  tdata,     \* Process -> the record that its shmGetdata has copied
  created,   \* how many segments have been created
  puts,      \* how many calls of shmPutdata have begun
  kept,      \* Seg -> the records that a map of MaxNode pairs would hold after
             \* the calls of shmPutdata so far (history)
  alone,     \* Seg -> its calls of shmPutdata came one after another, and no
             \* process ended in the middle of its record (history)
  calm,      \* Process -> nobody stored a key of its pair in its segment since
             \* its shmGetdata began (history)
  left       \* the segments that a process left between its memcpy and its
             \* deshm (history)

kernel  == <<named, segs, attached, created>>
history == <<kept, alone, calm, left>>
vars    == <<kernel, puts, mem, shmid, pc, i, arg, tdata, history>>

Pcs == {"none", "reopen", "ready", "match", "free", "zero", "head", "tail", "find", "take",
        "found", "remove", "crashed"}

Init ==
  /\ named = None /\ segs = {} /\ created = 0 /\ puts = 0
  /\ mem = [s \in Seg |-> Empty]
  /\ attached = [p \in Process |-> {}]
  /\ shmid = [p \in Process |-> None]
  /\ pc = [p \in Process |-> "none"]
  /\ i = [p \in Process |-> 0]
  /\ arg = [p \in Process |-> Zero]
  /\ tdata = [p \in Process |-> Zero]
  /\ kept = [s \in Seg |-> {}]
  /\ alone = [s \in Seg |-> TRUE]
  /\ calm = [p \in Process |-> FALSE]
  /\ left = {}

Goto(p, l, n) == pc' = [pc EXCEPT ![p] = l] /\ i' = [i EXCEPT ![p] = n]

(* The locals of a call end with it.                                       *)
Return(p) == /\ arg' = [arg EXCEPT ![p] = Zero]
             /\ tdata' = [tdata EXCEPT ![p] = Zero]
             /\ calm' = [calm EXCEPT ![p] = FALSE]

(* shmClass::shmClass: the first shmget creates the segment.  When the key *)
(* has one, the second opens it, if it still has.                          *)
Open(p) ==
  /\ pc[p] = "none"
  /\ IF named = None
       THEN /\ created < MaxSeg
            /\ created' = created + 1
            /\ named' = created + 1 /\ segs' = segs \cup {created + 1}
            /\ shmid' = [shmid EXCEPT ![p] = created + 1]
            /\ Goto(p, "ready", 0)
       ELSE Goto(p, "reopen", 0) /\ UNCHANGED <<named, segs, shmid, created>>
  /\ UNCHANGED <<puts, mem, attached, arg, tdata, history>>

Reopen(p) ==
  /\ pc[p] = "reopen"
  /\ shmid' = [shmid EXCEPT ![p] = named]
  /\ Goto(p, "ready", 0)
  /\ UNCHANGED <<kernel, puts, mem, arg, tdata, history>>

(* A call of shmPutdata that has not stored its record, or given up.       *)
Putting(p) == pc[p] \in {"match", "free", "zero", "head", "tail"}

(* getshm: a segment without a name can be attached by its id while it     *)
(* exists; when it does not, getshm reads through the address -1.  It does *)
(* the same with the id -1.                                                *)
Call(p, r, l) ==
  /\ pc[p] = "ready"
  /\ shmid[p] \in segs
  /\ attached' = [attached EXCEPT ![p] = @ \cup {shmid[p]}]
  /\ arg' = [arg EXCEPT ![p] = r]
  /\ Goto(p, l, 0)
  /\ UNCHANGED <<named, segs, created, mem, shmid, tdata, kept, left>>

CallFails(p) ==
  /\ pc[p] = "ready"
  /\ shmid[p] \notin segs
  /\ Goto(p, "crashed", 0)
  /\ UNCHANGED <<kernel, puts, mem, shmid, arg, tdata, history>>

CallPut(p, r) ==
  /\ puts < MaxPut /\ puts' = puts + 1
  /\ Call(p, r, "match")
  /\ alone' = [s \in Seg |-> /\ alone[s]
                             /\ s = shmid[p] => \A q \in Process : ~(Putting(q) /\ shmid[q] = s)]
  /\ calm' = [q \in Process |-> calm[q] /\ ~(shmid[q] = shmid[p] /\ arg[q].pair = r.pair)]

CallGet(p, r) ==
  /\ Call(p, r, "find")
  /\ calm' = [calm EXCEPT ![p] = \A q \in Process :
                ~(Putting(q) /\ shmid[q] = shmid[p] /\ arg[q].pair = r.pair)]
  /\ UNCHANGED <<alone, puts>>

-----------------------------------------------------------------------------
(* shmPutdata                                                              *)

Own(p) == mem[shmid[p]][i[p]]

(* The first loop looks for a record of the pair, to overwrite it.         *)
\* Mutant of Match: a record of the pair is not looked for.
MatchNothing(p) ==
  /\ pc[p] = "match"
  /\ Goto(p, "free", 0)
  /\ UNCHANGED <<kernel, puts, mem, shmid, arg, tdata, history>>

Match(p) ==
  /\ pc[p] = "match"
  /\ IF i[p] = MaxNode THEN Goto(p, "free", 0)
     ELSE IF Own(p).pair = arg[p].pair THEN Goto(p, "zero", i[p])
     ELSE Goto(p, "match", i[p] + 1)
  /\ UNCHANGED <<kernel, puts, mem, shmid, arg, tdata, history>>

(* What a map with room for MaxNode pairs holds when r has been stored.    *)
Stored(K, r) ==
  IF (\E k \in K : k.pair = r.pair) \/ Cardinality(K) < MaxNode
    THEN {k \in K : k.pair # r.pair} \cup {r}
    ELSE K

Keep(p) == kept' = [kept EXCEPT ![shmid[p]] = Stored(@, arg[p])]

(* The second looks for a record of zeros; when there is none the call     *)
(* returns 0 as well.                                                      *)
FindFree(p) ==
  /\ pc[p] = "free"
  /\ IF i[p] = MaxNode THEN Goto(p, "remove", 0) /\ Keep(p)
     ELSE /\ UNCHANGED kept
          /\ IF Own(p) = Zero THEN Goto(p, "zero", i[p]) ELSE Goto(p, "free", i[p] + 1)
  /\ UNCHANGED <<kernel, puts, mem, shmid, arg, tdata, alone, calm, left>>

Clear(p) ==
  /\ pc[p] = "zero"
  /\ mem' = [mem EXCEPT ![shmid[p]][i[p]] = Zero]
  /\ Goto(p, "head", i[p])
  /\ UNCHANGED <<kernel, puts, shmid, arg, tdata, history>>

StoreHead(p) ==
  /\ pc[p] = "head"
  /\ mem' = [mem EXCEPT ![shmid[p]][i[p]].pair = arg[p].pair]
  /\ Goto(p, "tail", i[p])
  /\ UNCHANGED <<kernel, puts, shmid, arg, tdata, history>>

StoreTail(p) ==
  /\ pc[p] = "tail"
  /\ mem' = [mem EXCEPT ![shmid[p]][i[p]].id = arg[p].id]
  /\ Keep(p)
  /\ Goto(p, "remove", 0)
  /\ UNCHANGED <<kernel, puts, shmid, arg, tdata, alone, calm, left>>

-----------------------------------------------------------------------------
(* shmGetdata: the number has to match, too.  A call that finds nothing    *)
(* returns before deshm.                                                   *)

Find(p) ==
  /\ pc[p] = "find"
  /\ IF i[p] = MaxNode THEN Goto(p, "ready", 0) /\ Return(p)
     ELSE /\ UNCHANGED <<arg, tdata, calm>>
          /\ IF Own(p) = arg[p] THEN Goto(p, "take", i[p]) ELSE Goto(p, "find", i[p] + 1)
  /\ UNCHANGED <<kernel, puts, mem, shmid, kept, alone, left>>

(* The record is copied whatever it holds by now.                          *)
Take(p) ==
  /\ pc[p] = "take"
  /\ tdata' = [tdata EXCEPT ![p] = Own(p)]
  /\ Goto(p, "found", 0)
  /\ UNCHANGED <<kernel, puts, mem, shmid, arg, history>>

(* deshm, IPC_RMID: no name leads to the segment any more.                 *)
\* Mutant of Unnamed: deshm detaches the segment, as unshm would.
UnnamedNot(p) == named
Unnamed(p) == IF named = shmid[p] THEN None ELSE named

Remove(p) ==
  /\ pc[p] \in {"remove", "found"}
  /\ named' = Unnamed(p)
  /\ Goto(p, "ready", 0)
  /\ Return(p)
  /\ UNCHANGED <<segs, attached, created, puts, mem, shmid, kept, alone, left>>

(* A process that ends detaches; what is neither named nor attached goes.  *)
Exit(p) ==
  /\ pc[p] # "none"
  /\ attached' = [attached EXCEPT ![p] = {}]
  /\ segs' = {s \in segs : s = named \/ \E q \in Process : s \in attached'[q]}
  /\ mem' = [s \in Seg |-> IF s \in segs' THEN mem[s] ELSE Empty]
  /\ shmid' = [shmid EXCEPT ![p] = None]
  /\ Return(p)
  /\ Goto(p, "none", 0)
  /\ kept' = [s \in Seg |-> IF s \in segs' THEN kept[s] ELSE {}]
  /\ alone' = [s \in Seg |-> \/ s \notin segs'
                             \/ alone[s] /\ ~(s = shmid[p] /\ pc[p] \in {"head", "tail"})]
  /\ left' = left \cup (IF pc[p] \in {"tail", "remove"} THEN {shmid[p]} \cap {named} ELSE {})
  /\ UNCHANGED <<named, created, puts>>

Next == \E p \in Process :
          \/ Open(p) \/ Reopen(p) \/ CallFails(p)
          \/ \E r \in Record : CallPut(p, r) \/ CallGet(p, r)
          \/ Match(p) \/ FindFree(p) \/ Clear(p) \/ StoreHead(p) \/ StoreTail(p)
          \/ Find(p) \/ Take(p) \/ Remove(p) \/ Exit(p)

Spec == Init /\ [][Next]_vars

-----------------------------------------------------------------------------
(* Properties                                                              *)

TypeOK ==
  /\ named \in Seg \cup {None} /\ segs \subseteq Seg /\ created \in 0 .. MaxSeg
  /\ mem \in [Seg -> [Slot -> [pair : Pair \cup {None}, id : KeyId \cup {None}]]]
  /\ attached \in [Process -> SUBSET Seg]
  /\ shmid \in [Process -> Seg \cup {None}]
  /\ pc \in [Process -> Pcs]
  /\ i \in [Process -> 0 .. MaxNode]
  /\ arg \in [Process -> Record \cup {Zero}]
  /\ \A p \in Process : Putting(p) => shmid[p] \in segs /\ arg[p] \in Record
  /\ \A p \in Process : pc[p] \in {"zero", "head", "tail", "take"} => i[p] \in Slot
  /\ kept \in [Seg -> SUBSET Record]

(* shmkey.cpp:53: as long as the calls of shmPutdata on a segment come one *)
(* after another, and none is broken off in the middle of its record,      *)
(* shmGetdata finds a key if and only if a map with room for maxnode pairs *)
(* would hold it, unless a key of its pair is stored meanwhile.  It does so*)
(* whoever stored the key, although the segment has lost its name, and     *)
(* while keys of other pairs are stored; a key for which there was no room,*)
(* and shmPutdata returned 0 all the same, is not found, and has cost no   *)
(* other key its place.                                                    *)
GetFindsKept ==
  [][\A p \in Process :
       pc[p] \in {"find", "take"} /\ calm[p] /\ alone[shmid[p]] =>
         /\ pc'[p] = "ready" => arg[p] \notin kept[shmid[p]]
         /\ pc'[p] = "found" => arg[p] \in kept[shmid[p]] /\ tdata'[p] = arg[p]]_vars

(* shmkey.cpp:28, :41: a segment that a new process would open holds a key *)
(* only while a shmPutdata runs between its memcpy and its deshm, or after *)
(* a process has ended there: no other process ever finds a key that it has*)
(* not opened the segment for in time.                                     *)
NameLeadsToNothing ==
  named # None /\ (\E n \in Slot : mem[named][n] # Zero) =>
    \/ \E p \in Process : pc[p] \in {"tail", "remove"} /\ shmid[p] = named
    \/ named \in left
=============================================================================
