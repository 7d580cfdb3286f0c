---------------------------- MODULE ShmKeyProofs ----------------------------
(***************************************************************************)
(* Theorems about ShmKey, for any number of processes, segments, records   *)
(* and pairs: a segment that still has a name is empty, unless a key is    *)
(* being stored in it or a process ended before it took the name; and, as  *)
(* long as calls of shmPutdata do not overlap, shmGetdata finds exactly the*)
(* keys that a map with room for MaxNode pairs would hold.                 *)
(***************************************************************************)
EXTENDS ShmKey, FiniteSetTheorems, TLAPS

Cell == [pair : Pair \cup {None}, id : KeyId \cup {None}]

InGet(p)  == pc[p] \in {"find", "take"}
InCall(p) == Putting(p) \/ InGet(p) \/ pc[p] \in {"found", "remove"}

(* The types; a process that is in a call is attached to its segment, which*)
(* is there; and what is in a segment that is not there yet, or any more.  *)
TypeS ==
  /\ created \in 0 .. MaxSeg /\ puts \in Nat
  /\ segs \subseteq 1 .. created
  /\ named \in segs \cup {None}
  /\ mem \in [Seg -> [Slot -> Cell]]
  /\ kept \in [Seg -> SUBSET Record]
  /\ alone \in [Seg -> BOOLEAN]
  /\ \A s \in Seg : s \notin segs => mem[s] = Empty /\ kept[s] = {}

TypeP ==
  /\ attached \in [Process -> SUBSET Seg]
  /\ shmid \in [Process -> Seg \cup {None}]
  /\ pc \in [Process -> Pcs]
  /\ i \in [Process -> 0 .. MaxNode]
  /\ arg \in [Process -> Record \cup {Zero}]
  /\ tdata \in [Process -> Cell]
  /\ calm \in [Process -> BOOLEAN]
  /\ \A p \in Process : InCall(p) => shmid[p] \in segs /\ shmid[p] \in attached[p]
  /\ \A p \in Process : Putting(p) \/ InGet(p) => arg[p] \in Record
  /\ \A p \in Process : pc[p] \in {"zero", "head", "tail", "take"} => i[p] \in Slot

Types == TypeS /\ TypeP

LEMMA SegsAreSegs == Types => segs \subseteq Seg /\ named \in Seg \cup {None}
BY ShmKeyAssumption DEF Types, TypeS, Seg

LEMMA Basics ==
  /\ Zero \in Cell /\ Record \subseteq Cell /\ Empty \in [Slot -> Cell]
  /\ \A r \in Record : r # Zero /\ r.pair \in Pair /\ r.id \in KeyId /\ r.pair # None
                       /\ r.id # None
BY ShmKeyAssumption DEF Zero, Cell, Record, Empty

LEMMA CellType ==
  ASSUME Types, NEW s \in Seg, NEW n \in Slot, NEW r \in Cell
  PROVE  /\ [mem EXCEPT ![s][n] = r] \in [Seg -> [Slot -> Cell]]
         /\ [mem EXCEPT ![s][n] = r][s][n] = r
         /\ \A t \in Seg, m \in Slot : t # s \/ m # n =>
              [mem EXCEPT ![s][n] = r][t][m] = mem[t][m]
         /\ \A t \in Seg : t # s => [mem EXCEPT ![s][n] = r][t] = mem[t]
<1>1. mem \in [Seg -> [Slot -> Cell]]
  BY DEF Types, TypeS
<1>2. [mem[s] EXCEPT ![n] = r] \in [Slot -> Cell]
  BY <1>1
<1>3. [mem EXCEPT ![s][n] = r] = [mem EXCEPT ![s] = [mem[s] EXCEPT ![n] = r]]
  BY <1>1
<1> QED
  BY <1>1, <1>2, <1>3

(* What the three steps that write a record make of it.                    *)
Cleared(p)  == [mem EXCEPT ![shmid[p]][i[p]] = Zero]
Headed(p)   == [mem EXCEPT ![shmid[p]][i[p]] = [pair |-> arg[p].pair, id |-> Own(p).id]]
Tailed(p)   == [mem EXCEPT ![shmid[p]][i[p]] = [pair |-> Own(p).pair, id |-> arg[p].id]]

LEMMA WritesCell ==
  ASSUME Types, NEW p \in Process, pc[p] \in {"zero", "head", "tail"}
  PROVE  /\ shmid[p] \in Seg /\ i[p] \in Slot /\ arg[p] \in Record /\ Own(p) \in Cell
         /\ Clear(p) => mem' = Cleared(p)
         /\ StoreHead(p) => mem' = Headed(p)
         /\ StoreTail(p) => mem' = Tailed(p)
<1>1. shmid[p] \in Seg /\ i[p] \in Slot /\ arg[p] \in Record
  BY DEF Types, TypeS, TypeP, InCall, Putting, Seg
<1>2. Own(p) \in Cell
  BY <1>1 DEF Types, TypeS, Own
<1>3. ASSUME NEW c \in Cell, NEW x
      PROVE  /\ [c EXCEPT !.pair = x] = [pair |-> x, id |-> c.id]
             /\ [c EXCEPT !.id = x] = [pair |-> c.pair, id |-> x]
  BY DEF Cell
<1>4. StoreHead(p) => mem' = Headed(p)
  <2>1. [Own(p) EXCEPT !.pair = arg[p].pair] = [pair |-> arg[p].pair, id |-> Own(p).id]
    BY <1>2, <1>3
  <2> QED
    BY <2>1 DEF StoreHead, Headed, Own
<1>5. StoreTail(p) => mem' = Tailed(p)
  <2>1. [Own(p) EXCEPT !.id = arg[p].id] = [pair |-> Own(p).pair, id |-> arg[p].id]
    BY <1>2, <1>3
  <2> QED
    BY <2>1 DEF StoreTail, Tailed, Own
<1> QED
  BY <1>1, <1>2, <1>4, <1>5 DEF Clear, Cleared

LEMMA InitTypes == Init => Types /\ NameLeadsToNothing
BY ShmKeyAssumption, Basics
   DEF Init, Types, TypeS, TypeP, NameLeadsToNothing, Seg, InCall, InGet, Putting, Pcs, Slot

LEMMA StoredType ==
  ASSUME NEW K \in SUBSET Record, NEW r \in Record PROVE Stored(K, r) \in SUBSET Record
BY DEF Stored

(* A step of a call: what the process has to see to.                       *)
LEMMA LocalTypes ==
  ASSUME Types, NEW p \in Process, NEW l \in Pcs, NEW n \in 0 .. MaxNode, Goto(p, l, n),
         UNCHANGED <<shmid, segs>>,
         \A q \in Process : attached[q] \subseteq attached'[q],
         attached' \in [Process -> SUBSET Seg],
         arg' \in [Process -> Record \cup {Zero}],
         tdata' \in [Process -> Cell],
         calm' \in [Process -> BOOLEAN],
         \A q \in Process : q # p => arg'[q] = arg[q],
         l \in {"match", "free", "zero", "head", "tail", "find", "take", "found", "remove"} =>
           shmid[p] \in segs /\ shmid[p] \in attached'[p],
         l \in {"match", "free", "zero", "head", "tail", "find", "take"} => arg'[p] \in Record,
         l \in {"zero", "head", "tail", "take"} => n \in Slot
  PROVE  TypeP'
<1>1. /\ pc' \in [Process -> Pcs] /\ i' \in [Process -> 0 .. MaxNode]
      /\ pc'[p] = l /\ i'[p] = n
      /\ \A q \in Process : q # p => pc'[q] = pc[q] /\ i'[q] = i[q]
  BY DEF Goto, Types, TypeP
<1>2. \A q \in Process : InCall(q)' => shmid'[q] \in segs' /\ shmid'[q] \in attached'[q]
  BY <1>1 DEF Types, TypeP, InCall, InGet, Putting
<1>3. \A q \in Process : Putting(q)' \/ InGet(q)' => arg'[q] \in Record
  BY <1>1 DEF Types, TypeP, InGet, Putting
<1>4. \A q \in Process : pc'[q] \in {"zero", "head", "tail", "take"} => i'[q] \in Slot
  BY <1>1 DEF Types, TypeP
<1>5. shmid' \in [Process -> Seg \cup {None}]
  BY DEF Types, TypeP
<1> QED
  BY <1>1, <1>2, <1>3, <1>4, <1>5 DEF TypeP

(* A process in a call, as the types see it.                               *)
LEMMA InCallTypes ==
  ASSUME Types, NEW p \in Process, InCall(p)
  PROVE  /\ shmid[p] \in Seg /\ shmid[p] \in segs /\ shmid[p] \in attached[p]
         /\ i[p] \in 0 .. MaxNode
         /\ Putting(p) \/ InGet(p) => arg[p] \in Record
         /\ i[p] # MaxNode => i[p] \in Slot /\ i[p] + 1 \in 0 .. MaxNode
BY ShmKeyAssumption DEF Types, TypeS, TypeP, Seg, Slot

LEMMA ReturnTypes ==
  ASSUME Types, NEW p \in Process, Return(p)
  PROVE  /\ arg' \in [Process -> Record \cup {Zero}]
         /\ tdata' \in [Process -> Cell]
         /\ calm' \in [Process -> BOOLEAN]
         /\ \A q \in Process : q # p => arg'[q] = arg[q]
BY Basics DEF Return, Types, TypeP

LEMMA StepTypes == Types /\ [Next]_vars => Types'
<1> SUFFICES ASSUME Types, [Next]_vars PROVE Types'
  OBVIOUS
<1> USE ShmKeyAssumption
<1>0. \A q \in Process : attached[q] \subseteq attached[q]
  OBVIOUS
<1>1. ASSUME NEW p \in Process, Open(p) PROVE Types'
  <2>1. CASE named = None
    <3>1. /\ created' = created + 1 /\ created' \in 1 .. MaxSeg /\ created \in Nat
          /\ named' = created' /\ segs' = segs \cup {created'}
          /\ shmid' = [shmid EXCEPT ![p] = created'] /\ created' \in Seg
          /\ UNCHANGED <<puts, mem, attached, arg, tdata, history>>
          /\ Goto(p, "ready", 0)
      BY <1>1, <2>1 DEF Open, Types, TypeS, Seg
    <3>2. TypeS'
      BY <3>1 DEF history, Types, TypeS
    <3>3. /\ \A q \in Process : InCall(q)' => /\ q # p /\ InCall(q)
                                              /\ shmid'[q] = shmid[q] /\ segs \subseteq segs'
          /\ \A q \in Process : Putting(q)' \/ InGet(q)' => Putting(q) \/ InGet(q)
          /\ \A q \in Process : pc'[q] \in {"zero", "head", "tail", "take"} =>
               pc'[q] = pc[q] /\ i'[q] = i[q]
          /\ pc' \in [Process -> Pcs] /\ i' \in [Process -> 0 .. MaxNode]
      BY <3>1 DEF Goto, Types, TypeP, InCall, InGet, Putting, Pcs
    <3>4. TypeP'
      BY <3>1, <3>3 DEF history, Types, TypeP
    <3> QED
      BY <3>2, <3>4 DEF Types
  <2>2. CASE named # None
    <3>1. /\ Goto(p, "reopen", 0)
          /\ UNCHANGED <<kernel, puts, mem, shmid, arg, tdata, history>>
      BY <1>1, <2>2 DEF Open, kernel
    <3>2. "reopen" \in Pcs /\ 0 \in 0 .. MaxNode
      BY DEF Pcs
    <3>3. TypeP'
      BY <1>0, <3>1, <3>2, LocalTypes DEF kernel, history, Types, TypeP
    <3> QED
      BY <3>1, <3>3 DEF kernel, history, Types, TypeS
  <2> QED
    BY <2>1, <2>2
<1>2. ASSUME NEW p \in Process, Reopen(p) PROVE Types'
  <2>1. TypeS'
    BY <1>2 DEF Reopen, kernel, history, Types, TypeS
  <2>2. named \in Seg \cup {None}
    BY DEF Types, TypeS, Seg
  <2>3. /\ \A q \in Process : InCall(q)' => q # p /\ InCall(q) /\ shmid'[q] = shmid[q]
        /\ \A q \in Process : Putting(q)' \/ InGet(q)' => Putting(q) \/ InGet(q)
        /\ \A q \in Process : pc'[q] \in {"zero", "head", "tail", "take"} =>
             pc'[q] = pc[q] /\ i'[q] = i[q]
        /\ pc' \in [Process -> Pcs] /\ i' \in [Process -> 0 .. MaxNode]
    BY <1>2 DEF Reopen, Goto, Types, TypeP, InCall, InGet, Putting, Pcs
  <2>4. TypeP'
    BY <1>2, <2>2, <2>3 DEF Reopen, kernel, history, Types, TypeP
  <2> QED
    BY <2>1, <2>4 DEF Types
<1>3. ASSUME NEW p \in Process, CallFails(p) PROVE Types'
  <2>1. "crashed" \in Pcs /\ 0 \in 0 .. MaxNode
    BY DEF Pcs
  <2>2. TypeP'
    BY <1>0, <1>3, <2>1, LocalTypes DEF CallFails, kernel, history, Types, TypeP
  <2> QED
    BY <1>3, <2>2 DEF CallFails, kernel, history, Types, TypeS
<1>4. ASSUME NEW p \in Process, NEW r \in Record, CallPut(p, r) \/ CallGet(p, r) PROVE Types'
  <2>1. \E l \in {"match", "find"} : Call(p, r, l)
    BY <1>4 DEF CallPut, CallGet
  <2>2. alone' \in [Seg -> BOOLEAN]
    BY <1>4 DEF CallPut, CallGet, Types, TypeS
  <2>3. calm' \in [Process -> BOOLEAN]
    BY <1>4 DEF CallPut, CallGet, Types, TypeP
  <2>4. puts' \in Nat
    BY <1>4 DEF CallPut, CallGet, Types, TypeS
  <2>5. TypeS'
    BY <2>1, <2>2, <2>4 DEF Call, Types, TypeS
  <2>6. /\ "match" \in Pcs /\ "find" \in Pcs /\ 0 \in 0 .. MaxNode
        /\ shmid[p] \in segs /\ shmid[p] \in Seg
    BY <2>1, SegsAreSegs DEF Pcs, Call
  <2>7. /\ \A q \in Process : attached[q] \subseteq attached'[q]
        /\ attached' \in [Process -> SUBSET Seg] /\ shmid[p] \in attached'[p]
        /\ arg' \in [Process -> Record \cup {Zero}] /\ arg'[p] \in Record
        /\ \A q \in Process : q # p => arg'[q] = arg[q]
        /\ tdata' \in [Process -> Cell] /\ UNCHANGED <<shmid, segs>>
    BY <2>1, <2>6 DEF Call, Types, TypeP
  <2>8. TypeP'
    BY <2>1, <2>3, <2>6, <2>7, LocalTypes DEF Call
  <2> QED
    BY <2>5, <2>8 DEF Types
<1>5. ASSUME NEW p \in Process, Match(p) \/ FindFree(p) \/ Find(p) \/ Take(p) PROVE Types'
  <2>1. InCall(p) /\ (Putting(p) \/ InGet(p))
    BY <1>5 DEF Match, FindFree, Find, Take, InCall, Putting, InGet
  <2>2. /\ shmid[p] \in Seg /\ shmid[p] \in segs /\ shmid[p] \in attached[p]
        /\ i[p] \in 0 .. MaxNode /\ arg[p] \in Record
        /\ i[p] # MaxNode => i[p] \in Slot /\ i[p] + 1 \in 0 .. MaxNode
    BY <2>1, InCallTypes
  <2>3. kept' \in [Seg -> SUBSET Record] /\ \A s \in Seg : s # shmid[p] => kept'[s] = kept[s]
    BY <1>5, <2>2, StoredType
       DEF Match, FindFree, Find, Take, Keep, history, Types, TypeS
  <2>4. TypeS'
    BY <1>5, <2>2, <2>3 DEF Match, FindFree, Find, Take, kernel, history, Types, TypeS
  <2>5. /\ UNCHANGED <<shmid, segs, attached>>
        /\ \A q \in Process : q # p => arg'[q] = arg[q]
        /\ arg' \in [Process -> Record \cup {Zero}] /\ calm' \in [Process -> BOOLEAN]
    BY <1>5, ReturnTypes DEF Match, FindFree, Find, Take, kernel, history, Types, TypeP
  <2>6. tdata' \in [Process -> Cell]
    <3>1. CASE Take(p)
      <4>1. i[p] \in Slot
        BY <3>1 DEF Take, Types, TypeP
      <4>2. Own(p) \in Cell
        BY <2>2, <4>1 DEF Own, Types, TypeS
      <4> QED
        BY <3>1, <4>2 DEF Take, Types, TypeP
    <3>2. CASE ~Take(p)
      BY <1>5, <3>2, ReturnTypes DEF Match, FindFree, Find, Types, TypeP
    <3> QED
      BY <3>1, <3>2
  <2>7. \E l \in Pcs, n \in 0 .. MaxNode :
          /\ Goto(p, l, n)
          /\ l \in {"zero", "head", "tail", "take"} => n \in Slot
          /\ l # "ready" => arg'[p] = arg[p] \/ l \in {"found", "remove"}
    BY <1>5, <2>2 DEF Match, FindFree, Find, Take, history, Pcs
  <2>8. TypeP'
    BY <1>0, <2>2, <2>5, <2>6, <2>7, LocalTypes DEF Types, TypeP
  <2> QED
    BY <2>4, <2>8 DEF Types
<1>6. ASSUME NEW p \in Process, Clear(p) \/ StoreHead(p) \/ StoreTail(p) PROVE Types'
  <2>1. /\ pc[p] \in {"zero", "head", "tail"} /\ shmid[p] \in segs /\ shmid[p] \in attached[p]
        /\ shmid[p] \in Seg /\ i[p] \in Slot /\ arg[p] \in Record /\ Own(p) \in Cell
    BY <1>6, WritesCell, InCallTypes DEF Clear, StoreHead, StoreTail, InCall, Putting
  <2>2. \E r \in Cell : mem' = [mem EXCEPT ![shmid[p]][i[p]] = r]
    <3>1. /\ [pair |-> arg[p].pair, id |-> Own(p).id] \in Cell
          /\ [pair |-> Own(p).pair, id |-> arg[p].id] \in Cell
          /\ Zero \in Cell
      BY <2>1, Basics DEF Cell
    <3> QED
      BY <1>6, <2>1, <3>1, WritesCell DEF Cleared, Headed, Tailed
  <2>3. mem' \in [Seg -> [Slot -> Cell]] /\ \A s \in Seg : s # shmid[p] => mem'[s] = mem[s]
    BY <2>1, <2>2, CellType
  <2>4. /\ kept' \in [Seg -> SUBSET Record]
        /\ \A s \in Seg : s # shmid[p] => kept'[s] = kept[s]
    <3>1. CASE StoreTail(p)
      BY <2>1, <3>1, StoredType DEF StoreTail, Keep, Types, TypeS
    <3>2. CASE ~StoreTail(p)
      BY <1>6, <3>2 DEF Clear, StoreHead, history, Types, TypeS
    <3> QED
      BY <3>1, <3>2
  <2>5. UNCHANGED <<kernel, puts, shmid, arg, tdata, alone, calm>>
    BY <1>6 DEF Clear, StoreHead, StoreTail, history
  <2>6. TypeS'
    BY <2>1, <2>3, <2>4, <2>5 DEF kernel, Types, TypeS
  <2>7. \E l \in Pcs, n \in 0 .. MaxNode :
          /\ Goto(p, l, n)
          /\ l \in {"zero", "head", "tail", "take"} => n \in Slot
    BY <1>6, <2>1 DEF Clear, StoreHead, StoreTail, Pcs, Slot
  <2>8. TypeP'
    BY <1>0, <2>1, <2>5, <2>7, LocalTypes DEF kernel, Types, TypeP
  <2> QED
    BY <2>6, <2>8 DEF Types
<1>9. ASSUME NEW p \in Process, Remove(p) PROVE Types'
  <2>1. "ready" \in Pcs /\ 0 \in 0 .. MaxNode
    BY DEF Pcs
  <2>2. TypeP'
    BY <1>0, <1>9, <2>1, LocalTypes, ReturnTypes DEF Remove, Types, TypeP
  <2> QED
    BY <1>9, <2>2 DEF Remove, Unnamed, Types, TypeS
<1>10. ASSUME NEW p \in Process, Exit(p) PROVE Types'
  <2>1. mem' \in [Seg -> [Slot -> Cell]] /\ kept' \in [Seg -> SUBSET Record]
    BY <1>10, Basics DEF Exit, Types, TypeS
  <2>0. alone' \in [Seg -> BOOLEAN]
    BY <1>10 DEF Exit, Types, TypeS
  <2>00. \A s \in Seg : s \notin segs' => mem'[s] = Empty /\ kept'[s] = {}
    BY <1>10 DEF Exit
  <2>2. segs' \subseteq segs /\ (named # None => named \in segs') /\ UNCHANGED <<named, created, puts>>
    BY <1>10 DEF Exit, Types, TypeS
  <2>20. TypeS'
    BY <2>1, <2>0, <2>00, <2>2 DEF Types, TypeS
  <2>3. /\ pc'[p] = "none"
        /\ \A q \in Process : q # p =>
             /\ shmid'[q] = shmid[q] /\ attached'[q] = attached[q]
             /\ arg'[q] = arg[q] /\ i'[q] = i[q] /\ pc'[q] = pc[q]
    BY <1>10 DEF Exit, Return, Goto, Types, TypeP
  <2>4. \A q \in Process : InCall(q)' => shmid'[q] \in segs' /\ shmid'[q] \in attached'[q]
    <3> SUFFICES ASSUME NEW q \in Process, InCall(q)'
                 PROVE  shmid'[q] \in segs' /\ shmid'[q] \in attached'[q]
      OBVIOUS
    <3>1. q # p /\ InCall(q)
      BY <2>3 DEF InCall, InGet, Putting
    <3> QED
      BY <1>10, <2>3, <3>1 DEF Exit, Types, TypeP
  <2>5. /\ pc' \in [Process -> Pcs] /\ i' \in [Process -> 0 .. MaxNode]
        /\ arg' \in [Process -> Record \cup {Zero}] /\ tdata' \in [Process -> Cell]
        /\ calm' \in [Process -> BOOLEAN] /\ shmid' \in [Process -> Seg \cup {None}]
        /\ attached' \in [Process -> SUBSET Seg]
    BY <1>10, ReturnTypes DEF Exit, Goto, Types, TypeP, Pcs
  <2>6. \A q \in Process : Putting(q)' \/ InGet(q)' => arg'[q] \in Record
    BY <2>3 DEF Types, TypeP, InGet, Putting
  <2>7. \A q \in Process : pc'[q] \in {"zero", "head", "tail", "take"} => i'[q] \in Slot
    BY <2>3 DEF Types, TypeP
  <2> QED
    BY <2>20, <2>4, <2>5, <2>6, <2>7 DEF Types, TypeP
<1>11. CASE UNCHANGED vars
  BY <1>11 DEF vars, kernel, history, Types, TypeS, TypeP, InCall, InGet, Putting
<1> QED
  BY <1>1, <1>2, <1>3, <1>4, <1>5, <1>6, <1>9, <1>10, <1>11 DEF Next

LEMMA StepNameless ==
  Types /\ NameLeadsToNothing /\ [Next]_vars => NameLeadsToNothing'
<1> SUFFICES ASSUME Types, NameLeadsToNothing, [Next]_vars, NEW n \in Slot,
                    named' # None, mem'[named'][n] # Zero
             PROVE  \/ \E p \in Process : pc'[p] \in {"tail", "remove"} /\ shmid'[p] = named'
                    \/ named' \in left'
  BY DEF NameLeadsToNothing
<1> USE ShmKeyAssumption DEF Goto
(* A step that leaves the segment and its witnesses as they are.           *)
<1>0. ASSUME mem'[named'] = mem[named'], named' = named, left' = left,
             \A p \in Process : pc[p] \in {"tail", "remove"} =>
                                  pc'[p] \in {"tail", "remove"} /\ shmid'[p] = shmid[p]
      PROVE  \/ \E p \in Process : pc'[p] \in {"tail", "remove"} /\ shmid'[p] = named'
             \/ named' \in left'
  BY <1>0 DEF NameLeadsToNothing
<1>1. ASSUME NEW p \in Process, Open(p)
      PROVE  \/ \E q \in Process : pc'[q] \in {"tail", "remove"} /\ shmid'[q] = named'
             \/ named' \in left'
  <2>1. CASE named = None
    <3>1. named' = created + 1 /\ mem' = mem /\ created + 1 \in Seg
      BY <1>1, <2>1 DEF Open, Types, TypeS, Seg
    <3>2. created + 1 \notin segs
      BY DEF Types, TypeS, TypeP
    <3> QED
      BY <3>1, <3>2 DEF Types, TypeS, Empty
  <2>2. CASE named # None
    BY <1>0, <1>1, <2>2 DEF Open, history, Types, TypeS, TypeP
  <2> QED
    BY <2>1, <2>2
<1>2. ASSUME NEW p \in Process,
             \/ Reopen(p) \/ CallFails(p) \/ Match(p) \/ FindFree(p) \/ Find(p) \/ Take(p)
             \/ \E r \in Record : CallPut(p, r) \/ CallGet(p, r)
      PROVE  \/ \E q \in Process : pc'[q] \in {"tail", "remove"} /\ shmid'[q] = named'
             \/ named' \in left'
  BY <1>0, <1>2 DEF Reopen, CallFails, Match, FindFree, Find, Take, CallPut, CallGet, Call,
                    kernel, history, Types, TypeS, TypeP
<1>3. ASSUME NEW p \in Process, Clear(p) \/ StoreHead(p) \/ StoreTail(p)
      PROVE  \/ \E q \in Process : pc'[q] \in {"tail", "remove"} /\ shmid'[q] = named'
             \/ named' \in left'
  <2>1. /\ pc[p] \in {"zero", "head", "tail"} /\ UNCHANGED <<named, shmid, left>>
        /\ \A q \in Process : q # p => pc'[q] = pc[q]
        /\ pc[p] = "tail" => pc'[p] = "remove"
    BY <1>3 DEF Clear, StoreHead, StoreTail, kernel, history, Types, TypeS, TypeP
  <2>2. shmid[p] \in Seg /\ i[p] \in Slot /\ Own(p) \in Cell
    BY <2>1, WritesCell
  <2>3. named \in Seg
    BY <2>1, SegsAreSegs
  <2>4. CASE named = shmid[p] /\ ~Clear(p)
    <3>1. pc'[p] \in {"tail", "remove"}
      BY <1>3, <2>4 DEF StoreHead, StoreTail, Types, TypeS, TypeP
    <3> QED
      BY <2>1, <2>4, <3>1
  <2>5. CASE named = shmid[p] /\ Clear(p)
    <3>1. mem[named][n] # Zero
      <4>1. mem' = Cleared(p) /\ Zero \in Cell
        BY <2>1, <2>5, WritesCell, Basics
      <4>2. /\ mem'[shmid[p]][i[p]] = Zero
            /\ \A m \in Slot : m # i[p] => mem'[shmid[p]][m] = mem[shmid[p]][m]
        BY <2>2, <4>1, CellType DEF Cleared
      <4>3. mem'[shmid[p]][n] # Zero
        BY <2>1, <2>5
      <4> QED
        BY <2>5, <4>2, <4>3
    <3> QED
      BY <2>1, <3>1 DEF NameLeadsToNothing
  <2>6. CASE named # shmid[p]
    <3>1. mem'[named] = mem[named]
      <4>1. \E r : mem' = [mem EXCEPT ![shmid[p]][i[p]] = r]
        BY <1>3, <2>1, WritesCell DEF Cleared, Headed, Tailed
      <4> QED
        BY <2>1, <2>3, <2>6, <4>1 DEF Types, TypeS, TypeP
    <3> QED
      BY <1>0, <2>1, <3>1
  <2> QED
    BY <2>4, <2>5, <2>6
<1>4. ASSUME NEW p \in Process, Remove(p)
      PROVE  \/ \E q \in Process : pc'[q] \in {"tail", "remove"} /\ shmid'[q] = named'
             \/ named' \in left'
  <2>1. /\ UNCHANGED <<shmid, mem, left>> /\ named' = named /\ shmid[p] # named
        /\ \A q \in Process : q # p => pc'[q] = pc[q]
    BY <1>4 DEF Remove, Unnamed, Types, TypeS, TypeP
  <2> QED
    BY <2>1 DEF NameLeadsToNothing
<1>5. ASSUME NEW p \in Process, Exit(p)
      PROVE  \/ \E q \in Process : pc'[q] \in {"tail", "remove"} /\ shmid'[q] = named'
             \/ named' \in left'
  <2>1. /\ named' = named /\ left \subseteq left'
        /\ \A q \in Process : q # p => pc'[q] = pc[q] /\ shmid'[q] = shmid[q]
        /\ pc[p] \in {"tail", "remove"} /\ shmid[p] = named => named \in left'
    BY <1>5 DEF Exit, Types, TypeS, TypeP
  <2>2. mem[named][n] # Zero
    <3>1. named \in Seg
      BY <2>1, SegsAreSegs
    <3>2. mem'[named][n] # Zero
      BY <2>1
    <3>3. mem'[named] = mem[named] \/ mem'[named] = Empty
      BY <1>5, <3>1 DEF Exit
    <3> QED
      BY <3>2, <3>3 DEF Empty
  <2> QED
    BY <2>1, <2>2 DEF NameLeadsToNothing
<1>6. CASE UNCHANGED vars
  BY <1>0, <1>6 DEF vars, kernel, history
<1> QED
  BY <1>1, <1>2, <1>3, <1>4, <1>5, <1>6 DEF Next

(* NameLeadsToNothing: shmPutdata ends with IPC_RMID, so a process that    *)
(* opens the store afterwards never finds a key in it, unless a process    *)
(* that stored one ended before it came to that.                           *)
THEOREM NamedSegmentIsEmpty == Spec => []NameLeadsToNothing
<1>1. Types /\ NameLeadsToNothing /\ [Next]_vars => (Types /\ NameLeadsToNothing)'
  BY StepTypes, StepNameless
<1> QED
  BY <1>1, InitTypes, PTL DEF Spec

(* TypeOK: nobody is in a call on a segment that is gone, and no loop runs *)
(* past the last record.                                                   *)
THEOREM TypeCorrect == Spec => []TypeOK
<1>1. Types => TypeOK
  <2> SUFFICES ASSUME Types PROVE TypeOK
    OBVIOUS
  <2>1. /\ named \in Seg \cup {None} /\ segs \subseteq Seg /\ created \in 0 .. MaxSeg
        /\ mem \in [Seg -> [Slot -> Cell]] /\ kept \in [Seg -> SUBSET Record]
    BY SegsAreSegs DEF Types, TypeS
  <2>2. \A p \in Process : Putting(p) => shmid[p] \in segs /\ arg[p] \in Record
    BY InCallTypes DEF InCall
  <2>3. /\ attached \in [Process -> SUBSET Seg] /\ shmid \in [Process -> Seg \cup {None}]
        /\ pc \in [Process -> Pcs] /\ i \in [Process -> 0 .. MaxNode]
        /\ arg \in [Process -> Record \cup {Zero}]
        /\ \A p \in Process : pc[p] \in {"zero", "head", "tail", "take"} => i[p] \in Slot
    BY DEF Types, TypeP
  <2> QED
    BY <2>1, <2>2, <2>3 DEF TypeOK, Cell
<1> QED
  BY <1>1, StepTypes, InitTypes, PTL DEF Spec

-----------------------------------------------------------------------------
(* As long as the calls of shmPutdata on a segment come one after another, *)
(* its records are what a map would hold, but for the one that is being    *)
(* written; a writer has passed over records of other pairs only, and a    *)
(* reader over other records only, unless its pair has been stored since.  *)

At(p, s) == shmid[p] = s

Lone(s) == \A p, q \in Process : Putting(p) /\ At(p, s) /\ Putting(q) /\ At(q, s) => p = q

OnePlace(s) ==
  \A n, m \in Slot : mem[s][n].pair = mem[s][m].pair /\ mem[s][n].pair # None => n = m

HeldIsKept(s) ==
  \A n \in Slot : \/ mem[s][n] = Zero \/ mem[s][n] \in kept[s]
                  \/ \E p \in Process : pc[p] = "tail" /\ At(p, s) /\ i[p] = n

KeptIsHeld(s) ==
  \A k \in kept[s] : \/ \E n \in Slot : mem[s][n] = k
                     \/ \E p \in Process : /\ pc[p] \in {"head", "tail"} /\ At(p, s)
                                           /\ arg[p].pair = k.pair

Half(p) == [pair |-> arg[p].pair, id |-> None]

Putter(p, s) ==
  /\ pc[p] = "match" => \A n \in Slot : n < i[p] => mem[s][n].pair # arg[p].pair
  /\ pc[p] = "free" => \A n \in Slot : /\ mem[s][n].pair # arg[p].pair
                                       /\ n < i[p] => mem[s][n] # Zero
  /\ pc[p] \in {"zero", "head", "tail"} =>
       \A n \in Slot : n # i[p] => mem[s][n].pair # arg[p].pair
  /\ pc[p] = "zero" => mem[s][i[p]] = Zero \/ mem[s][i[p]].pair = arg[p].pair
  /\ pc[p] = "head" => mem[s][i[p]] = Zero
  /\ pc[p] = "tail" => mem[s][i[p]] = Half(p)

Undisturbed(p, s) ==
  \A q \in Process : Putting(q) /\ At(q, s) => arg[q].pair # arg[p].pair

Getter(p, s) ==
  InGet(p) /\ calm[p] =>
    /\ Undisturbed(p, s)
    /\ pc[p] = "find" => \A n \in Slot : n < i[p] => mem[s][n] # arg[p]
    /\ pc[p] = "take" => mem[s][i[p]] = arg[p]

SInv(s) == /\ Lone(s) /\ OnePlace(s) /\ HeldIsKept(s) /\ KeptIsHeld(s)
           /\ \A p \in Process : At(p, s) => Putter(p, s) /\ Getter(p, s)

GInv == \A s \in Seg : alone[s] => SInv(s)

(* A step elsewhere: in another segment, or outside of the two calls.      *)
LEMMA Frame ==
  ASSUME Types, NEW s \in Seg, SInv(s), mem'[s] = mem[s], kept'[s] = kept[s],
         \A q \in Process : (Putting(q)' \/ InGet(q)') /\ At(q, s)' =>
           /\ At(q, s) /\ pc'[q] = pc[q] /\ i'[q] = i[q] /\ arg'[q] = arg[q]
           /\ calm'[q] => calm[q],
         \A q \in Process : pc[q] \in {"head", "tail"} /\ At(q, s) =>
           At(q, s)' /\ pc'[q] = pc[q] /\ i'[q] = i[q] /\ arg'[q] = arg[q]
  PROVE  SInv(s)'
<1>1. Lone(s)'
  BY DEF SInv, Lone, Putting
<1>2. OnePlace(s)'
  BY DEF SInv, OnePlace
<1>3. HeldIsKept(s)' /\ KeptIsHeld(s)'
  BY DEF SInv, HeldIsKept, KeptIsHeld
<1>4. ASSUME NEW p \in Process, At(p, s)' PROVE Putter(p, s)'
  <2>1. CASE Putting(p)'
    <3>1. /\ At(p, s) /\ pc'[p] = pc[p] /\ i'[p] = i[p] /\ arg'[p] = arg[p]
          /\ Putter(p, s)
      BY <1>4, <2>1 DEF SInv
    <3> QED
      BY <3>1 DEF Putter, Half
  <2>2. CASE ~Putting(p)'
    BY <2>2 DEF Putter, Putting
  <2> QED
    BY <2>1, <2>2
<1>5. ASSUME NEW p \in Process, At(p, s)' PROVE Getter(p, s)'
  <2>1. CASE InGet(p)' /\ calm'[p]
    <3>1. /\ At(p, s) /\ pc'[p] = pc[p] /\ i'[p] = i[p] /\ arg'[p] = arg[p]
          /\ Getter(p, s) /\ InGet(p) /\ calm[p]
      BY <1>5, <2>1 DEF SInv, InGet
    <3>2. Undisturbed(p, s)'
      BY <3>1 DEF Getter, Undisturbed, Putting
    <3> QED
      BY <3>1, <3>2 DEF Getter
  <2>2. CASE ~(InGet(p)' /\ calm'[p])
    BY <2>2 DEF Getter, InGet
  <2> QED
    BY <2>1, <2>2
<1> QED
  BY <1>1, <1>2, <1>3, <1>4, <1>5 DEF SInv

(* A segment that is not there.                                            *)
LEMMA GoneSInv ==
  ASSUME Types, NEW s \in Seg, s \notin segs PROVE SInv(s)
<1>1. /\ \A p \in Process : At(p, s) => ~Putting(p) /\ ~InGet(p)
      /\ mem[s] = Empty /\ kept[s] = {}
  BY DEF Types, TypeS, TypeP, InCall, At
<1> QED
  BY <1>1 DEF SInv, Lone, OnePlace, HeldIsKept, KeptIsHeld, Putter, Getter, Putting, InGet,
              Empty, Zero

(* A process moves on in its call; records and keys stay.                  *)
LEMMA MoveSInv ==
  ASSUME Types, NEW p \in Process, NEW s \in Seg, At(p, s), SInv(s),
         NEW l, NEW n, Goto(p, l, n), UNCHANGED <<mem, kept, shmid>>,
         Putting(p)' => Putting(p),
         InGet(p)' => InGet(p),
         pc[p] \notin {"head", "tail"}, l \notin {"head", "tail"},
         \A q \in Process : q # p => arg'[q] = arg[q] /\ calm'[q] = calm[q],
         Putting(p)' \/ InGet(p)' => arg'[p] = arg[p] /\ calm'[p] = calm[p],
         Putter(p, s)',
         InGet(p)' /\ calm[p] /\ Undisturbed(p, s) =>
           /\ l = "find" => \A m \in Slot : m < n => mem[s][m] # arg[p]
           /\ l = "take" => mem[s][n] = arg[p]
  PROVE  SInv(s)'
<1>1. /\ \A q \in Process : q # p => pc'[q] = pc[q] /\ i'[q] = i[q]
      /\ pc'[p] = l /\ i'[p] = n
  BY DEF Goto, Types, TypeP
<1>2. Lone(s)'
  BY <1>1 DEF SInv, Lone, Putting, At
<1>3. OnePlace(s)'
  BY DEF SInv, OnePlace
<1>4. HeldIsKept(s)' /\ KeptIsHeld(s)'
  BY <1>1 DEF SInv, HeldIsKept, KeptIsHeld, At
<1>5. ASSUME NEW q \in Process, At(q, s)' PROVE Putter(q, s)'
  <2>1. CASE q # p
    <3>1. Putter(q, s)
      BY <1>5 DEF SInv, At
    <3> QED
      BY <1>1, <2>1, <3>1 DEF Putter, Half
  <2> QED
    BY <2>1
<1>6. ASSUME NEW q \in Process, At(q, s)' PROVE Getter(q, s)'
  <2> SUFFICES ASSUME InGet(q)', calm'[q] PROVE Getter(q, s)'
    BY DEF Getter, InGet
  <2>1. Getter(q, s) /\ InGet(q) /\ calm[q] /\ arg'[q] = arg[q]
    BY <1>1, <1>6 DEF SInv, At, InGet
  <2>2. Undisturbed(q, s) /\ Undisturbed(q, s)'
    BY <1>1, <2>1 DEF Getter, Undisturbed, Putting, At
  <2>3. CASE q # p
    BY <1>1, <2>1, <2>2, <2>3 DEF Getter
  <2>4. CASE q = p
    BY <1>1, <2>1, <2>2, <2>4 DEF Getter
  <2> QED
    BY <2>3, <2>4
<1> QED
  BY <1>2, <1>3, <1>4, <1>5, <1>6 DEF SInv

(* The one process that is in the middle of a record, or of its loops.     *)
LEMMA OnlyPutter ==
  ASSUME Types, NEW p \in Process, NEW s \in Seg, At(p, s), SInv(s), Putting(p),
         NEW q \in Process, pc[q] \in {"match", "free", "zero", "head", "tail"}, At(q, s)
  PROVE  q = p
BY DEF SInv, Lone, Putting

LEMMA SlotCount == IsFiniteSet(Slot) /\ Cardinality(Slot) = MaxNode
<1>1. MaxNode - 1 \in Int /\ 0 \in Int /\ ~(0 > MaxNode - 1) /\ MaxNode - 1 - 0 + 1 = MaxNode
  BY ShmKeyAssumption
<1> QED
  BY <1>1, FS_Interval DEF Slot

(* A full segment holds MaxNode pairs; one with a record of the pair has   *)
(* room for it.                                                            *)
LEMMA FullIsFull ==
  ASSUME Types, NEW p \in Process, NEW s \in Seg, At(p, s), SInv(s), pc[p] = "free",
         i[p] = MaxNode
  PROVE  Stored(kept[s], arg[p]) = kept[s]
<1>1. /\ mem[s] \in [Slot -> Cell] /\ kept[s] \in SUBSET Record
      /\ \A n \in Slot : mem[s][n].pair # arg[p].pair /\ mem[s][n] # Zero
      /\ Putting(p)
  BY ShmKeyAssumption DEF SInv, Putter, Putting, Types, TypeS, Slot
<1>2. \A n \in Slot : mem[s][n] \in kept[s]
  BY <1>1, OnlyPutter DEF SInv, HeldIsKept
<1>3. \A k \in kept[s] : \E n \in Slot : mem[s][n] = k
  BY <1>1, OnlyPutter DEF SInv, KeptIsHeld
<1>4. mem[s] \in Injection(Slot, kept[s])
  <2>1. \A n, m \in Slot : mem[s][n] = mem[s][m] => n = m
    BY <1>1, <1>2, Basics DEF SInv, OnePlace
  <2> QED
    BY <1>1, <1>2, <2>1 DEF Injection, IsInjective
<1>5. mem[s] \in Surjection(Slot, kept[s])
  BY <1>1, <1>2, <1>3 DEF Surjection
<1>6. IsFiniteSet(Slot) /\ Cardinality(Slot) = MaxNode
  BY SlotCount
<1>7. IsFiniteSet(kept[s])
  BY <1>5, <1>6, FS_Surjection
<1>8. ~(Cardinality(kept[s]) < MaxNode)
  BY <1>4, <1>6, <1>7, FS_Injection, FS_CardinalityType, ShmKeyAssumption
<1>9. ~\E k \in kept[s] : k.pair = arg[p].pair
  BY <1>1, <1>3
<1> QED
  BY <1>8, <1>9 DEF Stored

LEMMA RoomIsFound ==
  ASSUME Types, NEW p \in Process, NEW s \in Seg, At(p, s), SInv(s), pc[p] = "tail"
  PROVE  Stored(kept[s], arg[p]) = {k \in kept[s] : k.pair # arg[p].pair} \cup {arg[p]}
<1> SUFFICES ASSUME \A k \in kept[s] : k.pair # arg[p].pair
             PROVE  Cardinality(kept[s]) < MaxNode
  BY DEF Stored
<1> DEFINE Rest == Slot \ {i[p]}
           f == [n \in Rest |-> mem[s][n]]
           Held == {k \in Record : \E n \in Rest : f[n] = k}
           Rec == {n \in Rest : f[n] \in Record}
           g == [n \in Rec |-> f[n]]
<1>1. /\ mem[s] \in [Slot -> Cell] /\ kept[s] \in SUBSET Record /\ i[p] \in Slot
      /\ mem[s][i[p]] = Half(p) /\ Putting(p)
  BY DEF SInv, Putter, Putting, Types, TypeS, TypeP
<1>2. IsFiniteSet(Slot) /\ Cardinality(Slot) = MaxNode
  BY SlotCount
<1>3. IsFiniteSet(Rest) /\ Cardinality(Rest) = MaxNode - 1
  BY <1>1, <1>2, FS_RemoveElement
<1>4. kept[s] \subseteq Held
  <2> SUFFICES ASSUME NEW k \in kept[s] PROVE k \in Held
    OBVIOUS
  <2>1. PICK n \in Slot : mem[s][n] = k
    BY <1>1, OnlyPutter DEF SInv, KeptIsHeld
  <2>2. n # i[p]
    BY <1>1, <2>1, Basics DEF Half
  <2> QED
    BY <1>1, <2>1, <2>2
<1>5. g \in Surjection(Rec, Held)
  BY DEF Surjection
<1>6. IsFiniteSet(Rec) /\ Cardinality(Rec) <= MaxNode - 1 /\ Cardinality(Rec) \in Nat
  <2> HIDE DEF f
  <2>1. Rec \in SUBSET Rest
    OBVIOUS
  <2> HIDE DEF Rec, Rest
  <2> QED
    BY <1>3, <2>1, FS_Subset, FS_CardinalityType
<1>7. /\ IsFiniteSet(Held) /\ Cardinality(Held) <= Cardinality(Rec)
      /\ Cardinality(Held) \in Nat
  <2> HIDE DEF Rec, Held, g
  <2> QED
    BY <1>5, <1>6, FS_Surjection, FS_CardinalityType
<1>8. Cardinality(kept[s]) <= Cardinality(Held) /\ Cardinality(kept[s]) \in Nat
  <2> HIDE DEF Held
  <2> QED
    BY <1>4, <1>7, FS_Subset, FS_CardinalityType
<1> QED
  BY <1>6, <1>7, <1>8, ShmKeyAssumption

(* The steps that write a record.                                          *)
LEMMA WriteSInv ==
  ASSUME Types, NEW p \in Process, NEW s \in Seg, At(p, s), SInv(s),
         Clear(p) \/ StoreHead(p) \/ StoreTail(p)
  PROVE  SInv(s)'
<1>1. /\ pc[p] \in {"zero", "head", "tail"} /\ Putting(p)
      /\ UNCHANGED <<shmid, arg, calm>>
      /\ i'[p] = i[p] \/ pc'[p] = "remove"
      /\ \A q \in Process : q # p => pc'[q] = pc[q] /\ i'[q] = i[q]
      /\ Clear(p) => pc[p] = "zero" /\ pc'[p] = "head" /\ i'[p] = i[p] /\ kept' = kept
      /\ StoreHead(p) => pc[p] = "head" /\ pc'[p] = "tail" /\ i'[p] = i[p] /\ kept' = kept
      /\ StoreTail(p) => pc[p] = "tail" /\ pc'[p] = "remove"
  BY DEF Clear, StoreHead, StoreTail, Goto, history, Putting, Types, TypeP
<1>2. /\ i[p] \in Slot /\ arg[p] \in Record /\ Own(p) \in Cell /\ Own(p) = mem[s][i[p]]
      /\ shmid[p] = s /\ mem[s] \in [Slot -> Cell] /\ kept[s] \in SUBSET Record
      /\ arg[p].pair \in Pair /\ arg[p].pair # None /\ arg[p].id # None
  BY <1>1, WritesCell, Basics DEF Own, At, Types, TypeS
<1>3. /\ \A n \in Slot : n # i[p] => mem[s][n].pair # arg[p].pair
      /\ pc[p] = "zero" => mem[s][i[p]] = Zero \/ mem[s][i[p]].pair = arg[p].pair
      /\ pc[p] = "head" => mem[s][i[p]] = Zero
      /\ pc[p] = "tail" => mem[s][i[p]] = Half(p)
  BY <1>1 DEF SInv, Putter
<1>4. /\ \A n \in Slot : n # i[p] => mem'[s][n] = mem[s][n]
      /\ Clear(p) => mem'[s][i[p]] = Zero
      /\ StoreHead(p) => mem'[s][i[p]] = Half(p)
      /\ StoreTail(p) => mem'[s][i[p]] = arg[p]
  <2>1. PICK r \in Cell : /\ mem' = [mem EXCEPT ![shmid[p]][i[p]] = r]
                          /\ Clear(p) => r = Zero
                          /\ StoreHead(p) => r = Half(p)
                          /\ StoreTail(p) => r = arg[p]
    <3>1. CASE Clear(p)
      BY <1>1, <3>1, WritesCell, Basics DEF Cleared
    <3>2. CASE StoreHead(p)
      <4>1. [pair |-> arg[p].pair, id |-> Own(p).id] = Half(p) /\ Half(p) \in Cell
        BY <1>1, <1>2, <1>3, <3>2 DEF Half, Zero, Cell
      <4> QED
        BY <1>1, <3>2, <4>1, WritesCell DEF Headed
    <3>3. CASE StoreTail(p)
      <4>1. [pair |-> Own(p).pair, id |-> arg[p].id] = arg[p] /\ arg[p] \in Cell
        BY <1>1, <1>2, <1>3, <3>3, Basics DEF Half, Record
      <4> QED
        BY <1>1, <3>3, <4>1, WritesCell DEF Tailed
    <3> QED
      BY <1>1, <3>1, <3>2, <3>3
  <2> QED
    BY <1>2, <2>1, CellType
<1>5. StoreTail(p) => kept'[s] = {k \in kept[s] : k.pair # arg[p].pair} \cup {arg[p]}
  BY <1>1, <1>2, RoomIsFound DEF StoreTail, Keep, Types, TypeS
<1>12. /\ shmid' = shmid /\ arg' = arg /\ calm' = calm
      /\ pc[p] \in {"zero", "head", "tail"} /\ pc'[p] \in {"head", "tail", "remove"}
      /\ \A q \in Process : q # p => pc'[q] = pc[q] /\ i'[q] = i[q]
  BY DEF Clear, StoreHead, StoreTail, Goto, history, Types, TypeP
<1>6. Lone(s)'
  BY <1>12 DEF SInv, Lone, Putting, At
<1>7. OnePlace(s)'
  <2>1. mem'[s][i[p]].pair \in {None, arg[p].pair}
    BY <1>1, <1>4 DEF Zero, Half
  <2> QED
    BY <1>2, <1>3, <1>4, <2>1 DEF SInv, OnePlace
<1>8. ASSUME NEW n \in Slot
      PROVE  \/ mem'[s][n] = Zero \/ mem'[s][n] \in kept'[s]
             \/ \E q \in Process : pc'[q] = "tail" /\ At(q, s)' /\ i'[q] = n
  <2>1. CASE n = i[p]
    BY <1>1, <1>2, <1>4, <1>5, <2>1 DEF At
  <2>2. CASE n # i[p]
    <3>1. mem[s][n] = Zero \/ mem[s][n] \in kept[s]
      BY <1>1, <2>2, OnlyPutter DEF SInv, HeldIsKept
    <3> QED
      BY <1>1, <1>3, <1>4, <1>5, <2>2, <3>1
  <2> QED
    BY <2>1, <2>2
<1>9. ASSUME NEW k \in kept'[s]
      PROVE  \/ \E n \in Slot : mem'[s][n] = k
             \/ \E q \in Process : /\ pc'[q] \in {"head", "tail"} /\ At(q, s)'
                                   /\ arg'[q].pair = k.pair
  <2>1. CASE k = arg[p] /\ StoreTail(p)
    BY <1>2, <1>4, <2>1
  <2>2. CASE ~(k = arg[p] /\ StoreTail(p))
    <3>1. k \in kept[s] /\ k \in Record /\ (StoreTail(p) => k.pair # arg[p].pair)
      BY <1>1, <1>2, <1>5, <2>2
    <3>2. CASE k.pair = arg[p].pair
      BY <1>1, <1>2, <3>1, <3>2 DEF At
    <3>3. CASE k.pair # arg[p].pair
      <4>1. PICK n \in Slot : mem[s][n] = k
        BY <1>1, <3>1, <3>3, OnlyPutter DEF SInv, KeptIsHeld
      <4>2. n # i[p]
        BY <1>1, <1>3, <3>1, <3>3, <4>1, Basics DEF Half
      <4> QED
        BY <1>4, <4>1, <4>2
    <3> QED
      BY <3>2, <3>3
  <2> QED
    BY <2>1, <2>2
<1>10. ASSUME NEW q \in Process, At(q, s)' PROVE Putter(q, s)'
  <2>1. CASE q = p
    BY <1>1, <1>2, <1>3, <1>4, <2>1 DEF Putter, Half
  <2>2. CASE q # p
    <3>1. ~Putting(q)
      BY <1>1, <1>12, <1>10, <2>2, OnlyPutter DEF Putting, At
    <3> QED
      BY <1>1, <2>2, <3>1 DEF Putter, Putting
  <2> QED
    BY <2>1, <2>2
<1>11. ASSUME NEW q \in Process, At(q, s)' PROVE Getter(q, s)'
  <2> SUFFICES ASSUME InGet(q)', calm'[q] PROVE Getter(q, s)'
    BY DEF Getter, InGet
  <2>1. q # p /\ InGet(q) /\ calm[q] /\ At(q, s) /\ i'[q] = i[q] /\ pc'[q] = pc[q]
    BY <1>12, <1>11 DEF InGet, At
  <2>2. Undisturbed(q, s) /\ Getter(q, s) /\ arg[q] \in Record /\ (pc[q] = "take" => i[q] \in Slot)
    BY <2>1 DEF SInv, Getter, Types, TypeP
  <2>3. arg[q].pair # arg[p].pair /\ arg[q] # Zero /\ arg[q].pair # None /\ arg[q].id # None
    BY <1>1, <1>2, <2>2, Basics DEF Undisturbed, At
  <2>4. Undisturbed(q, s)'
    BY <1>12, <2>2 DEF Undisturbed, Putting, At
  <2>5. mem'[s][i[p]] # arg[q] /\ mem[s][i[p]] # arg[q]
    BY <1>1, <1>3, <1>4, <2>3 DEF Half, Zero
  <2> QED
    BY <1>4, <1>12, <2>1, <2>2, <2>4, <2>5 DEF Getter
<1> QED
  BY <1>6, <1>7, <1>8, <1>9, <1>10, <1>11 DEF SInv, HeldIsKept, KeptIsHeld

(* The beginning of a call.                                                *)
LEMMA CallSInv ==
  ASSUME Types, NEW p \in Process, NEW r \in Record, NEW s \in Seg, At(p, s), SInv(s),
         \/ CallPut(p, r) /\ \A q \in Process : ~(Putting(q) /\ shmid[q] = s)
         \/ CallGet(p, r)
  PROVE  SInv(s)'
<1>1. /\ pc[p] = "ready" /\ pc'[p] \in {"match", "find"} /\ i'[p] = 0 /\ arg'[p] = r
      /\ shmid[p] = s /\ shmid' = shmid /\ mem' = mem /\ kept' = kept
      /\ \A q \in Process : q # p => pc'[q] = pc[q] /\ i'[q] = i[q] /\ arg'[q] = arg[q]
  BY DEF CallPut, CallGet, Call, Goto, At, Types, TypeP
<1>2. pc'[p] = "match" => \A q \in Process : ~(Putting(q) /\ shmid[q] = s)
  BY DEF CallPut, CallGet, Call, Goto, Types, TypeP
<1>3. Lone(s)'
  BY <1>1, <1>2 DEF SInv, Lone, Putting, At
<1>4. OnePlace(s)'
  BY <1>1 DEF SInv, OnePlace
<1>5. HeldIsKept(s)' /\ KeptIsHeld(s)'
  <2>1. \A q \in Process : pc[q] \in {"head", "tail"} =>
          pc'[q] = pc[q] /\ At(q, s)' = At(q, s) /\ i'[q] = i[q] /\ arg'[q] = arg[q]
    BY <1>1 DEF At
  <2> QED
    BY <1>1, <2>1 DEF SInv, HeldIsKept, KeptIsHeld
<1>6. ASSUME NEW q \in Process, At(q, s)' PROVE Putter(q, s)'
  <2>1. CASE q = p
    BY <1>1, <2>1 DEF Putter, Slot
  <2>2. CASE q # p
    <3>1. Putter(q, s)
      BY <1>1, <1>6 DEF SInv, At
    <3> QED
      BY <1>1, <2>2, <3>1 DEF Putter, Half
  <2> QED
    BY <2>1, <2>2
<1>7. ASSUME NEW q \in Process, At(q, s)' PROVE Getter(q, s)'
  <2> SUFFICES ASSUME InGet(q)', calm'[q] PROVE Getter(q, s)'
    BY DEF Getter, InGet
  <2>1. CASE q = p
    <3>1. pc'[p] = "find"
      BY <1>1, <2>1 DEF InGet
    <3>2. CallGet(p, r)
      BY <3>1 DEF CallPut, Call, Goto, Types, TypeP
    <3>3. \A o \in Process : ~(Putting(o) /\ shmid[o] = s /\ arg[o].pair = r.pair)
      BY <1>1, <2>1, <3>2 DEF CallGet, Types, TypeP
    <3>4. Undisturbed(q, s)'
      BY <1>1, <2>1, <3>1, <3>3 DEF Undisturbed, Putting, At
    <3> QED
      BY <1>1, <2>1, <3>1, <3>4 DEF Getter, Slot
  <2>2. CASE q # p
    <3>1. InGet(q) /\ At(q, s) /\ Getter(q, s)
      BY <1>1, <1>7, <2>2 DEF SInv, InGet, At
    <3>2. calm[q] /\ (pc'[p] = "match" => arg[q].pair # r.pair)
      <4>1. CASE CallPut(p, r)
        BY <1>1, <3>1, <4>1 DEF CallPut, At
      <4>2. CASE CallGet(p, r)
        BY <1>1, <2>2, <4>2 DEF CallGet, Call, Goto, Types, TypeP
      <4> QED
        BY <4>1, <4>2
    <3>3. Undisturbed(q, s)'
      BY <1>1, <2>2, <3>1, <3>2 DEF Getter, Undisturbed, Putting, At
    <3> QED
      BY <1>1, <2>2, <3>1, <3>2, <3>3 DEF Getter
  <2> QED
    BY <2>1, <2>2
<1> QED
  BY <1>3, <1>4, <1>5, <1>6, <1>7 DEF SInv

(* The steps that look at a record.                                        *)
LEMMA LookSInv ==
  ASSUME Types, NEW p \in Process, NEW s \in Seg, At(p, s), SInv(s),
         Match(p) \/ FindFree(p) \/ Find(p) \/ Take(p)
  PROVE  SInv(s)'
<1> USE ShmKeyAssumption
<1>1. /\ shmid[p] = s /\ i[p] \in 0 .. MaxNode /\ mem' = mem /\ shmid' = shmid
      /\ i[p] # MaxNode => i[p] \in Slot /\ Own(p) = mem[s][i[p]]
      /\ \A n \in Slot : n < i[p] + 1 => n < i[p] \/ n = i[p]
      /\ Putter(p, s)
  BY DEF Match, FindFree, Find, Take, Own, At, SInv, Types, TypeP, Slot
<1>2. CASE Match(p)
  <2>1. /\ pc[p] = "match" /\ UNCHANGED <<mem, kept, shmid, arg, calm>>
        /\ \A n \in Slot : n < i[p] => mem[s][n].pair # arg[p].pair
    BY <1>1, <1>2 DEF Match, history, Putter
  <2>2. CASE i[p] = MaxNode
    <3>1. Goto(p, "free", 0)
      BY <1>2, <2>2 DEF Match
    <3>2. Putter(p, s)'
      <4>1. \A n \in Slot : n < MaxNode /\ ~(n < 0)
        BY DEF Slot
      <4> QED
        BY <2>1, <2>2, <3>1, <4>1 DEF Putter, Goto, Types, TypeP
    <3> QED
      <4>1. /\ pc'[p] \notin {"head", "tail"} /\ pc[p] \notin {"head", "tail"}
            /\ (Putting(p)' => Putting(p)) /\ (InGet(p)' => InGet(p))
            /\ \A q \in Process : q # p => arg'[q] = arg[q] /\ calm'[q] = calm[q]
            /\ Putting(p)' \/ InGet(p)' => arg'[p] = arg[p] /\ calm'[p] = calm[p]
        BY <2>1, <3>1, <3>2 DEF Goto, Putting, InGet, Types, TypeP
      <4> QED
        BY <2>1, <3>1, <3>2, <4>1, MoveSInv DEF Goto, Types, TypeP
  <2>3. CASE i[p] # MaxNode /\ Own(p).pair = arg[p].pair
    <3>1. Goto(p, "zero", i[p])
      BY <1>2, <2>3 DEF Match
    <3>2. Putter(p, s)'
      <4>1. arg[p].pair # None
        BY <2>1, Basics DEF Types, TypeP, Putting
      <4> QED
        BY <1>1, <2>1, <2>3, <3>1, <4>1 DEF Putter, Goto, Types, TypeP, SInv, OnePlace
    <3> QED
      <4>1. /\ pc'[p] \notin {"head", "tail"} /\ pc[p] \notin {"head", "tail"}
            /\ (Putting(p)' => Putting(p)) /\ (InGet(p)' => InGet(p))
            /\ \A q \in Process : q # p => arg'[q] = arg[q] /\ calm'[q] = calm[q]
            /\ Putting(p)' \/ InGet(p)' => arg'[p] = arg[p] /\ calm'[p] = calm[p]
        BY <2>1, <3>1, <3>2 DEF Goto, Putting, InGet, Types, TypeP
      <4> QED
        BY <2>1, <3>1, <3>2, <4>1, MoveSInv DEF Goto, Types, TypeP
  <2>4. CASE i[p] # MaxNode /\ Own(p).pair # arg[p].pair
    <3>1. Goto(p, "match", i[p] + 1)
      BY <1>2, <2>4 DEF Match
    <3>2. Putter(p, s)'
      BY <1>1, <2>1, <2>4, <3>1 DEF Putter, Goto, Types, TypeP
    <3> QED
      <4>1. /\ pc'[p] \notin {"head", "tail"} /\ pc[p] \notin {"head", "tail"}
            /\ (Putting(p)' => Putting(p)) /\ (InGet(p)' => InGet(p))
            /\ \A q \in Process : q # p => arg'[q] = arg[q] /\ calm'[q] = calm[q]
            /\ Putting(p)' \/ InGet(p)' => arg'[p] = arg[p] /\ calm'[p] = calm[p]
        BY <2>1, <3>1, <3>2 DEF Goto, Putting, InGet, Types, TypeP
      <4> QED
        BY <2>1, <3>1, <3>2, <4>1, MoveSInv DEF Goto, Types, TypeP
  <2> QED
    BY <2>2, <2>3, <2>4
<1>3. CASE FindFree(p)
  <2>1. /\ pc[p] = "free" /\ UNCHANGED <<mem, shmid, arg, calm>>
        /\ \A n \in Slot : mem[s][n].pair # arg[p].pair /\ (n < i[p] => mem[s][n] # Zero)
    BY <1>1, <1>3 DEF FindFree, Putter
  <2>2. CASE i[p] = MaxNode
    <3>1. Goto(p, "remove", 0) /\ kept' = kept
      BY <1>1, <1>3, <2>1, <2>2, FullIsFull DEF FindFree, Keep, Types, TypeS
    <3>2. Putter(p, s)'
      BY <3>1 DEF Putter, Goto, Types, TypeP
    <3> QED
      <4>1. /\ pc'[p] \notin {"head", "tail"} /\ pc[p] \notin {"head", "tail"}
            /\ (Putting(p)' => Putting(p)) /\ (InGet(p)' => InGet(p))
            /\ \A q \in Process : q # p => arg'[q] = arg[q] /\ calm'[q] = calm[q]
            /\ Putting(p)' \/ InGet(p)' => arg'[p] = arg[p] /\ calm'[p] = calm[p]
        BY <2>1, <3>1, <3>2 DEF Goto, Putting, InGet, Types, TypeP
      <4> QED
        BY <2>1, <3>1, <3>2, <4>1, MoveSInv DEF Goto, Types, TypeP
  <2>3. CASE i[p] # MaxNode /\ Own(p) = Zero
    <3>1. Goto(p, "zero", i[p]) /\ kept' = kept
      BY <1>3, <2>3 DEF FindFree
    <3>2. Putter(p, s)'
      BY <1>1, <2>1, <2>3, <3>1 DEF Putter, Goto, Types, TypeP
    <3> QED
      <4>1. /\ pc'[p] \notin {"head", "tail"} /\ pc[p] \notin {"head", "tail"}
            /\ (Putting(p)' => Putting(p)) /\ (InGet(p)' => InGet(p))
            /\ \A q \in Process : q # p => arg'[q] = arg[q] /\ calm'[q] = calm[q]
            /\ Putting(p)' \/ InGet(p)' => arg'[p] = arg[p] /\ calm'[p] = calm[p]
        BY <2>1, <3>1, <3>2 DEF Goto, Putting, InGet, Types, TypeP
      <4> QED
        BY <2>1, <3>1, <3>2, <4>1, MoveSInv DEF Goto, Types, TypeP
  <2>4. CASE i[p] # MaxNode /\ Own(p) # Zero
    <3>1. Goto(p, "free", i[p] + 1) /\ kept' = kept
      BY <1>3, <2>4 DEF FindFree
    <3>2. Putter(p, s)'
      BY <1>1, <2>1, <2>4, <3>1 DEF Putter, Goto, Types, TypeP
    <3> QED
      <4>1. /\ pc'[p] \notin {"head", "tail"} /\ pc[p] \notin {"head", "tail"}
            /\ (Putting(p)' => Putting(p)) /\ (InGet(p)' => InGet(p))
            /\ \A q \in Process : q # p => arg'[q] = arg[q] /\ calm'[q] = calm[q]
            /\ Putting(p)' \/ InGet(p)' => arg'[p] = arg[p] /\ calm'[p] = calm[p]
        BY <2>1, <3>1, <3>2 DEF Goto, Putting, InGet, Types, TypeP
      <4> QED
        BY <2>1, <3>1, <3>2, <4>1, MoveSInv DEF Goto, Types, TypeP
  <2> QED
    BY <2>2, <2>3, <2>4
<1>4. CASE Find(p)
  <2>1. /\ pc[p] = "find" /\ UNCHANGED <<mem, kept, shmid>> /\ ~Putting(p) /\ Getter(p, s)
        /\ \A q \in Process : q # p => arg'[q] = arg[q] /\ calm'[q] = calm[q]
    BY <1>4 DEF Find, Return, SInv, Putting, Types, TypeP
  <2>2. CASE i[p] = MaxNode
    <3>1. Goto(p, "ready", 0)
      BY <1>4, <2>2 DEF Find
    <3>2. Putter(p, s)'
      BY <3>1 DEF Putter, Goto, Types, TypeP
    <3> QED
      <4>1. /\ pc'[p] \notin {"head", "tail"} /\ pc[p] \notin {"head", "tail"}
            /\ (Putting(p)' => Putting(p)) /\ (InGet(p)' => InGet(p))
            /\ \A q \in Process : q # p => arg'[q] = arg[q] /\ calm'[q] = calm[q]
            /\ Putting(p)' \/ InGet(p)' => arg'[p] = arg[p] /\ calm'[p] = calm[p]
        BY <2>1, <3>1, <3>2 DEF Goto, Putting, InGet, Types, TypeP
      <4> QED
        BY <2>1, <3>1, <3>2, <4>1, MoveSInv DEF Goto, Types, TypeP
  <2>3. CASE i[p] # MaxNode /\ Own(p) = arg[p]
    <3>1. Goto(p, "take", i[p]) /\ UNCHANGED <<arg, calm>>
      BY <1>4, <2>3 DEF Find
    <3>2. Putter(p, s)'
      BY <3>1 DEF Putter, Goto, Types, TypeP
    <3> QED
      <4>1. /\ pc'[p] \notin {"head", "tail"} /\ pc[p] \notin {"head", "tail"}
            /\ (Putting(p)' => Putting(p)) /\ (InGet(p)' => InGet(p))
            /\ \A q \in Process : q # p => arg'[q] = arg[q] /\ calm'[q] = calm[q]
            /\ Putting(p)' \/ InGet(p)' => arg'[p] = arg[p] /\ calm'[p] = calm[p]
        BY <1>1, <2>1, <2>3, <3>1, <3>2 DEF Goto, Putting, InGet, Types, TypeP
      <4> QED
        BY <1>1, <2>1, <2>3, <3>1, <3>2, <4>1, MoveSInv DEF Goto, Types, TypeP
  <2>4. CASE i[p] # MaxNode /\ Own(p) # arg[p]
    <3>1. Goto(p, "find", i[p] + 1) /\ UNCHANGED <<arg, calm>>
      BY <1>4, <2>4 DEF Find
    <3>2. Putter(p, s)'
      BY <3>1 DEF Putter, Goto, Types, TypeP
    <3>3. calm[p] => \A m \in Slot : m < i[p] + 1 => mem[s][m] # arg[p]
      BY <1>1, <2>1, <2>4 DEF Getter, InGet
    <3> QED
      <4>1. /\ pc'[p] \notin {"head", "tail"} /\ pc[p] \notin {"head", "tail"}
            /\ (Putting(p)' => Putting(p)) /\ (InGet(p)' => InGet(p))
            /\ \A q \in Process : q # p => arg'[q] = arg[q] /\ calm'[q] = calm[q]
            /\ Putting(p)' \/ InGet(p)' => arg'[p] = arg[p] /\ calm'[p] = calm[p]
        BY <1>1, <2>1, <3>1, <3>2, <3>3 DEF Goto, Putting, InGet, Types, TypeP
      <4> QED
        BY <1>1, <2>1, <3>1, <3>2, <3>3, <4>1, MoveSInv DEF Goto, Types, TypeP
  <2> QED
    BY <2>2, <2>3, <2>4
<1>5. CASE Take(p)
  <2>1. /\ pc[p] = "take" /\ UNCHANGED <<mem, kept, shmid, arg, calm>> /\ Goto(p, "found", 0)
    BY <1>5 DEF Take, history
  <2>2. Putter(p, s)'
    BY <2>1 DEF Putter, Goto, Types, TypeP
  <2> QED
    <3>1. /\ pc'[p] \notin {"head", "tail"} /\ pc[p] \notin {"head", "tail"}
          /\ (Putting(p)' => Putting(p)) /\ (InGet(p)' => InGet(p))
          /\ \A q \in Process : q # p => arg'[q] = arg[q] /\ calm'[q] = calm[q]
          /\ Putting(p)' \/ InGet(p)' => arg'[p] = arg[p] /\ calm'[p] = calm[p]
      BY <2>1, <2>2 DEF Goto, Putting, InGet, Types, TypeP
    <3> QED
      BY <2>1, <2>2, <3>1, MoveSInv DEF Goto, Types, TypeP
<1> QED
  BY <1>2, <1>3, <1>4, <1>5

GoneFit == \A s \in Seg : s \notin segs => SInv(s)

LEMMA GoneSegments == Types => GoneFit
BY GoneSInv DEF GoneFit

LEMMA InitGInv == Init => GInv
<1> SUFFICES ASSUME Init PROVE GInv
  OBVIOUS
<1>1. segs = {}
  BY DEF Init
<1> QED
  BY <1>1, InitTypes, GoneSegments DEF GInv, GoneFit

LEMMA StepGInv == Types /\ GInv /\ [Next]_vars => GInv'
<1> SUFFICES ASSUME Types, GInv, [Next]_vars, NEW s \in Seg, alone'[s] PROVE SInv(s)'
  BY DEF GInv
<1>1. ASSUME NEW p \in Process, Open(p) \/ Reopen(p) \/ CallFails(p) \/ Remove(p)
      PROVE  SInv(s)'
  <2>1. /\ mem' = mem /\ kept' = kept /\ alone' = alone
        /\ pc'[p] \in {"reopen", "ready", "crashed"}
        /\ pc[p] \in {"none", "reopen", "ready", "remove", "found"}
        /\ \A q \in Process : q # p =>
             /\ pc'[q] = pc[q] /\ i'[q] = i[q] /\ arg'[q] = arg[q]
             /\ calm'[q] = calm[q] /\ shmid'[q] = shmid[q]
    BY <1>1 DEF Open, Reopen, CallFails, Remove, Goto, Return, kernel, history, Types, TypeP
  <2>2. /\ \A q \in Process : (Putting(q)' \/ InGet(q)') /\ At(q, s)' => q # p
        /\ \A q \in Process : pc[q] \in {"head", "tail"} => q # p
    BY <2>1 DEF Putting, InGet
  <2>3. SInv(s)
    BY <2>1 DEF GInv
  <2> QED
    BY <2>1, <2>2, <2>3, Frame DEF At
<1>2. ASSUME NEW p \in Process, NEW r \in Record, CallPut(p, r) \/ CallGet(p, r)
      PROVE  SInv(s)'
  <2>1. /\ mem' = mem /\ kept' = kept /\ shmid' = shmid /\ alone[s]
        /\ \A q \in Process : q # p => pc'[q] = pc[q] /\ i'[q] = i[q] /\ arg'[q] = arg[q]
        /\ pc[p] = "ready"
    BY <1>2 DEF CallPut, CallGet, Call, Goto, Types, TypeS, TypeP
  <2>2. SInv(s)
    BY <2>1 DEF GInv
  <2>3. CASE At(p, s)
    <3>1. CallPut(p, r) => \A q \in Process : ~(Putting(q) /\ shmid[q] = s)
      BY <2>3 DEF CallPut, At, Types, TypeS
    <3> QED
      BY <1>2, <2>2, <2>3, <3>1, CallSInv
  <2>4. CASE ~At(p, s)
    <3>1. \A q \in Process : At(q, s) /\ q # p /\ calm'[q] => calm[q]
      BY <1>2, <2>1 DEF CallPut, CallGet, At, Types, TypeP
    <3> QED
      BY <2>1, <2>2, <2>4, <3>1, Frame DEF At
  <2> QED
    BY <2>3, <2>4
<1>3. ASSUME NEW p \in Process,
             \/ Match(p) \/ FindFree(p) \/ Find(p) \/ Take(p)
             \/ Clear(p) \/ StoreHead(p) \/ StoreTail(p)
      PROVE  SInv(s)'
  <2>1. /\ alone' = alone /\ shmid' = shmid
        /\ \A q \in Process : q # p =>
             /\ pc'[q] = pc[q] /\ i'[q] = i[q] /\ arg'[q] = arg[q] /\ calm'[q] = calm[q]
    BY <1>3 DEF Match, FindFree, Find, Take, Clear, StoreHead, StoreTail, Goto, Return,
                history, Types, TypeP
  <2>2. SInv(s)
    BY <2>1 DEF GInv
  <2>3. CASE At(p, s)
    BY <1>3, <2>2, <2>3, LookSInv, WriteSInv
  <2>4. CASE ~At(p, s)
    <3>1. mem'[s] = mem[s]
      <4>1. CASE Clear(p) \/ StoreHead(p) \/ StoreTail(p)
        <5>1. \E r : mem' = [mem EXCEPT ![shmid[p]][i[p]] = r]
          <6>1. pc[p] \in {"zero", "head", "tail"}
            BY <4>1 DEF Clear, StoreHead, StoreTail
          <6> QED
            BY <4>1, <6>1, WritesCell DEF Cleared, Headed, Tailed
        <5> QED
          BY <2>4, <5>1 DEF At, Types, TypeS
      <4>2. CASE ~(Clear(p) \/ StoreHead(p) \/ StoreTail(p))
        BY <1>3, <4>2 DEF Match, FindFree, Find, Take
      <4> QED
        BY <4>1, <4>2
    <3>2. kept'[s] = kept[s]
      BY <1>3, <2>4 DEF Match, FindFree, Find, Take, Clear, StoreHead, StoreTail, Keep, history,
                        At, Types, TypeS
    <3> QED
      BY <2>1, <2>2, <2>4, <3>1, <3>2, Frame DEF At
  <2> QED
    BY <2>3, <2>4
<1>4. ASSUME NEW p \in Process, Exit(p) PROVE SInv(s)'
  <2>1. CASE s \notin segs'
    <3>1. Types' => GoneFit'
      BY GoneSegments, PTL
    <3> QED
      BY <2>1, <3>1, StepTypes DEF GoneFit
  <2>2. CASE s \in segs'
    <3>1. /\ mem'[s] = mem[s] /\ kept'[s] = kept[s] /\ alone[s]
          /\ ~(s = shmid[p] /\ pc[p] \in {"head", "tail"})
      BY <1>4, <2>2 DEF Exit
    <3>2. /\ pc'[p] = "none"
          /\ \A q \in Process : q # p =>
               /\ pc'[q] = pc[q] /\ i'[q] = i[q] /\ arg'[q] = arg[q]
               /\ calm'[q] = calm[q] /\ shmid'[q] = shmid[q]
      BY <1>4 DEF Exit, Goto, Return, Types, TypeP
    <3>3. /\ \A q \in Process : (Putting(q)' \/ InGet(q)') => q # p
          /\ \A q \in Process : pc[q] \in {"head", "tail"} /\ At(q, s) => q # p
      BY <3>1, <3>2 DEF Putting, InGet, At
    <3>4. SInv(s)
      BY <3>1 DEF GInv
    <3> QED
      BY <3>1, <3>2, <3>3, <3>4, Frame DEF At
  <2> QED
    BY <2>1, <2>2
<1>5. CASE UNCHANGED vars
  <2>1. UNCHANGED <<mem, kept, shmid, pc, i, arg, calm, alone>>
    BY <1>5 DEF vars, history
  <2>2. SInv(s)
    BY <2>1 DEF GInv
  <2> QED
    BY <2>1, <2>2, Frame DEF At, Putting, InGet
<1> QED
  BY <1>1, <1>2, <1>3, <1>4, <1>5 DEF Next

(* What a call of shmGetdata returns.                                      *)
LEMMA GetKeeps ==
  ASSUME Types, GInv, NEW p \in Process, pc[p] \in {"find", "take"}, calm[p], alone[shmid[p]],
         Next
  PROVE  /\ pc'[p] = "ready" => arg[p] \notin kept[shmid[p]]
         /\ pc'[p] = "found" => arg[p] \in kept[shmid[p]] /\ tdata'[p] = arg[p]
<1> DEFINE s == shmid[p]
<1>1. /\ s \in Seg /\ i[p] \in 0 .. MaxNode /\ arg[p] \in Record /\ InGet(p)
  BY InCallTypes DEF InCall, InGet
<1>2. /\ SInv(s) /\ At(p, s) /\ Getter(p, s) /\ Undisturbed(p, s)
  BY <1>1 DEF GInv, SInv, Getter, At
<1>3. \A q \in Process : pc[q] \in {"head", "tail"} /\ At(q, s) => arg[q].pair # arg[p].pair
  BY <1>2 DEF Undisturbed, Putting
<1>4. ASSUME pc'[p] = "ready" PROVE arg[p] \notin kept[s]
  <2>1. Find(p) /\ i[p] = MaxNode
    BY <1>4 DEF Next, Open, Reopen, CallFails, CallPut, CallGet, Call, Match, FindFree, Clear,
                StoreHead, StoreTail, Find, Take, Remove, Exit, Goto, Types, TypeP
  <2>2. \A n \in Slot : mem[s][n] # arg[p]
    BY <1>1, <1>2, <2>1, ShmKeyAssumption DEF Getter, InGet, Find, Slot
  <2> QED
    BY <1>2, <1>3, <2>2 DEF SInv, KeptIsHeld
<1>5. ASSUME pc'[p] = "found" PROVE arg[p] \in kept[s] /\ tdata'[p] = arg[p]
  <2>1. Take(p)
    BY <1>5 DEF Next, Open, Reopen, CallFails, CallPut, CallGet, Call, Match, FindFree, Clear,
                StoreHead, StoreTail, Find, Take, Remove, Exit, Goto, Types, TypeP
  <2>2. mem[s][i[p]] = arg[p] /\ i[p] \in Slot /\ tdata'[p] = Own(p)
    BY <1>1, <1>2, <2>1 DEF Getter, InGet, Take, Types, TypeP
  <2>3. arg[p] # Zero /\ arg[p].id # None
    BY <1>1, Basics
  <2>4. ~\E q \in Process : pc[q] = "tail" /\ At(q, s) /\ i[q] = i[p]
    <3> SUFFICES ASSUME NEW q \in Process, pc[q] = "tail", At(q, s), i[q] = i[p] PROVE FALSE
      OBVIOUS
    <3>1. mem[s][i[p]] = Half(q)
      BY <1>2 DEF SInv, Putter
    <3> QED
      BY <2>2, <2>3, <3>1 DEF Half
  <2> QED
    BY <1>2, <2>2, <2>3, <2>4 DEF SInv, HeldIsKept, Own
<1> QED
  BY <1>4, <1>5

(* GetFindsKept: as long as the calls of shmPutdata on a segment come one  *)
(* after another, shmGetdata finds exactly the keys that a map with room   *)
(* for MaxNode pairs would hold, whoever stored them, whoever has removed  *)
(* the segment, and whatever is stored for other pairs meanwhile; a key    *)
(* that had no room has cost no other key its place.                       *)
THEOREM GetFindsWhatWasPut == Spec => GetFindsKept
<1>1. Types /\ GInv /\ [Next]_vars => (Types /\ GInv)'
  BY StepTypes, StepGInv
<1>2. Types /\ GInv /\ [Next]_vars =>
        [\A p \in Process :
           pc[p] \in {"find", "take"} /\ calm[p] /\ alone[shmid[p]] =>
             /\ pc'[p] = "ready" => arg[p] \notin kept[shmid[p]]
             /\ pc'[p] = "found" => arg[p] \in kept[shmid[p]] /\ tdata'[p] = arg[p]]_vars
  BY GetKeeps
<1> QED
  BY <1>1, <1>2, InitTypes, InitGInv, PTL DEF Spec, GetFindsKept

=============================================================================
