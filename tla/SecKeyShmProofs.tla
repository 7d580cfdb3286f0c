-------------------------- MODULE SecKeyShmProofs --------------------------
(***************************************************************************)
(* Proofs about SecKeyShm: its type invariant, and that a write fails only *)
(* on a full segment or one that is gone, however many processes write;    *)
(* with one writer, that a pair is in one slot of a segment only, that a   *)
(* key stored stays and is found, and that the segment of the IPC key      *)
(* implements KeyTable.  Any process may be killed, leave in good order,   *)
(* which removes its segment, and be started again, which clears it, at any*)
(* step of the others.                                                     *)
(***************************************************************************)
EXTENDS SecKeyShm, FiniteSetTheorems, TLAPS

Record == [pair : Pair \cup {NoPair}, id : 0 .. MaxWrite, key : 0 .. MaxWrite]
Arg    == [pair : Pair \cup {NoPair}, key : 0 .. MaxWrite]

Writing == {"search", "free", "head", "key", "failed"}

(* A process that is writing, or has failed to, is a writer with a pair and*)
(* the number of a write that has been started.                            *)
WriterOf(p) == /\ p \in Writer
               /\ writes > 0
               /\ arg[p].pair \in Pair
               /\ arg[p].key > 0

TInv ==
  /\ TypeOK
  /\ writes \in 0 .. MaxWrite
  /\ \A p \in Process : pc[p] \in Writing => WriterOf(p)

LEMMA InitTInv == Init => TInv
  BY ShmAssumption DEF Init, TInv, TypeOK, Empty, Zero, Nothing, Pcs, Writing, Slot

LEMMA ZeroIsRecord == Zero \in Record
  BY ShmAssumption DEF Zero, Record

(* A record is written in a segment: the others are what they were.        *)
LEMMA NodeType ==
  ASSUME TypeOK, NEW g \in Segment, NEW s \in Slot, NEW r \in Record
  PROVE  [node EXCEPT ![g][s] = r] \in [Segment -> [Slot -> Record]]
<1>1. node \in [Segment -> [Slot -> Record]]
  BY DEF TypeOK, Record
<1>2. [node[g] EXCEPT ![s] = r] \in [Slot -> Record]
  BY <1>1
<1>3. [node EXCEPT ![g][s] = r] = [node EXCEPT ![g] = [node[g] EXCEPT ![s] = r]]
  BY <1>1
<1> QED
  BY <1>1, <1>2, <1>3

LEMMA EndTInv ==
  ASSUME TInv, NEW p \in Process, End(p), named' \in {named, NoSegment} PROVE TInv'
<1>1. Nothing \in Arg
  BY ShmAssumption DEF Nothing, Arg
<1>2. /\ seg' \in [Process -> Segment \cup {NoSegment}]
      /\ \A r \in Process : seg'[r] = NoSegment <=> pc'[r] = "closed"
  BY ShmAssumption DEF TInv, TypeOK, End, Goto
<1> QED
  BY <1>1, <1>2, ShmAssumption DEF TInv, TypeOK, End, Goto, Pcs, Writing, WriterOf, Arg

LEMMA StepTInv == TInv /\ [Next]_vars => TInv'
<1> SUFFICES ASSUME TInv, [Next]_vars PROVE TInv'
  OBVIOUS
<1> USE ShmAssumption
<1>1. ASSUME NEW p \in Process, Open(p) PROVE TInv'
  <2>1. /\ pc' = [pc EXCEPT ![p] = "get"] /\ node_i' = [node_i EXCEPT ![p] = 0]
        /\ UNCHANGED <<arg, writes>> /\ pc[p] = "closed"
    BY <1>1 DEF Open, Goto
  <2>2. \E g \in Segment : /\ seg' = [seg EXCEPT ![p] = g] /\ named' = g
                          /\ node' \in {node, [node EXCEPT ![g] = Empty]}
    BY <1>1 DEF Open, TInv, TypeOK, shm
  <2>3. Empty \in [Slot -> Record]
    BY ZeroIsRecord DEF Empty
  <2>4. node' \in [Segment -> [Slot -> Record]]
    BY <2>2, <2>3 DEF TInv, TypeOK, Record
  <2>5. /\ pc' \in [Process -> Pcs] /\ node_i' \in [Process -> 0 .. MaxNode]
        /\ \A r \in Process : pc'[r] \in {"head", "key", "copy"} => node_i'[r] \in Slot
    BY <2>1 DEF TInv, TypeOK, Pcs
  <2>6. /\ seg' \in [Process -> Segment \cup {NoSegment}]
        /\ \A r \in Process : seg'[r] = NoSegment <=> pc'[r] = "closed"
    BY <2>1, <2>2 DEF TInv, TypeOK
  <2>7. \A r \in Process : pc'[r] \in Writing => WriterOf(r)'
    BY <2>1 DEF TInv, TypeOK, Writing, WriterOf
  <2> QED
    BY <2>1, <2>2, <2>4, <2>5, <2>6, <2>7 DEF TInv, TypeOK, Record
<1>13. ASSUME NEW p \in Process, Attach(p) PROVE TInv'
  BY <1>13 DEF TInv, TypeOK, Attach, shm, Goto, Pcs, Writing, WriterOf
<1>2. ASSUME NEW p \in Process, NEW q \in Pair, Write(p, q) PROVE TInv'
  <2>0. \E l \in {"search", "failed"} : Goto(p, l, 0)
    BY <1>2 DEF Write
  <2>1. [pair |-> q, key |-> writes + 1] \in Arg /\ writes + 1 \in 1 .. MaxWrite
    BY <1>2 DEF TInv, Write, Arg
  <2>2. arg' \in [Process -> Arg]
    BY <1>2, <2>1 DEF TInv, TypeOK, Write, Arg
  <2>3. /\ pc' \in [Process -> Pcs] /\ node_i' \in [Process -> 0 .. MaxNode]
        /\ \A r \in Process : pc'[r] \in {"head", "key", "copy"} => node_i'[r] \in Slot
        /\ \A r \in Process : pc'[r] = "closed" <=> pc[r] = "closed"
    BY <1>2, <2>0 DEF TInv, TypeOK, Write, Idle, Goto, Pcs
  <2>4. \A r \in Process : pc'[r] \in Writing => WriterOf(r)'
    BY <1>2, <2>0, <2>1 DEF TInv, TypeOK, Write, Goto, Writing, WriterOf
  <2> QED
    BY <1>2, <2>1, <2>2, <2>3, <2>4 DEF TInv, TypeOK, Write, Arg, shm
<1>3. ASSUME NEW p \in Process, Search(p) PROVE TInv'
  <2>1. node_i[p] # MaxNode => node_i[p] \in Slot /\ node_i[p] + 1 \in 0 .. MaxNode
    BY DEF TInv, TypeOK, Slot
  <2>2. /\ UNCHANGED <<shm, seg, arg, history>> /\ pc[p] = "search"
        /\ \/ pc' = [pc EXCEPT ![p] = "free"] /\ node_i' = [node_i EXCEPT ![p] = 0]
           \/ /\ pc' = [pc EXCEPT ![p] = "head"] /\ node_i' = node_i
              /\ node_i[p] # MaxNode
           \/ /\ pc' = pc /\ node_i[p] # MaxNode
              /\ node_i' = [node_i EXCEPT ![p] = node_i[p] + 1]
    BY <1>3 DEF TInv, TypeOK, Search, Goto, LoopEnd
  <2>3. /\ pc' \in [Process -> Pcs] /\ node_i' \in [Process -> 0 .. MaxNode]
        /\ \A r \in Process : pc'[r] \in {"head", "key", "copy"} => node_i'[r] \in Slot
    <3>1. /\ pc' \in [Process -> Pcs] /\ node_i' \in [Process -> 0 .. MaxNode]
          /\ \A r \in Process \ {p} : pc'[r] = pc[r] /\ node_i'[r] = node_i[r]
      <4>1. "free" \in Pcs /\ "head" \in Pcs /\ 0 \in 0 .. MaxNode
        BY DEF Pcs
      <4>2. pc \in [Process -> Pcs] /\ node_i \in [Process -> 0 .. MaxNode]
        BY DEF TInv, TypeOK
      <4> QED
        BY <2>1, <2>2, <4>1, <4>2
    <3>2. pc'[p] \in {"head", "key", "copy"} => node_i'[p] \in Slot
      BY <2>1, <2>2 DEF TInv, TypeOK, Pcs
    <3> QED
      BY <3>1, <3>2 DEF TInv, TypeOK
  <2>4. \A r \in Process : pc'[r] \in Writing => WriterOf(r)'
    BY <2>2 DEF TInv, TypeOK, Writing, WriterOf, history
  <2> QED
    <3>1. \A r \in Process : pc'[r] = "closed" <=> pc[r] = "closed"
      BY <2>2 DEF TInv, TypeOK
    <3> QED
      BY <2>2, <2>3, <2>4, <3>1 DEF TInv, TypeOK, history, shm
<1>4. ASSUME NEW p \in Process, FindFree(p) PROVE TInv'
  <2>1. node_i[p] # MaxNode => node_i[p] \in Slot /\ node_i[p] + 1 \in 0 .. MaxNode
    BY DEF TInv, TypeOK, Slot
  <2>2. \E l \in {"failed", "head", "free"}, n \in 0 .. MaxNode :
          Goto(p, l, n) /\ (l = "head" => n \in Slot)
    <3>1. CASE LoopEnd(node_i[p])
      BY <1>4, <3>1 DEF FindFree, TInv, TypeOK
    <3>2. CASE ~LoopEnd(node_i[p]) /\ FreeSlot(p, node_i[p])
      BY <1>4, <2>1, <3>2 DEF FindFree, LoopEnd, TInv, TypeOK
    <3>3. CASE ~LoopEnd(node_i[p]) /\ ~FreeSlot(p, node_i[p])
      BY <1>4, <2>1, <3>3 DEF FindFree, LoopEnd
    <3> QED
      BY <3>1, <3>2, <3>3
  <2>3. UNCHANGED <<shm, seg, arg, writes>> /\ pc[p] = "free"
    BY <1>4 DEF FindFree, history
  <2> QED
    BY <2>2, <2>3 DEF TInv, TypeOK, Goto, shm, Pcs, Writing, WriterOf
<1>5. ASSUME NEW p \in Process, StoreHead(p) PROVE TInv'
  <2> DEFINE g == seg[p]
             i == node_i[p]
  <2>1. /\ g \in Segment /\ i \in Slot /\ node[g][i] \in Record /\ arg[p] \in Arg
        /\ pc[p] = "head"
    BY <1>5 DEF TInv, TypeOK, StoreHead, Record, Arg
  <2>2. [node[g][i] EXCEPT !.pair = arg[p].pair, !.id = arg[p].key] \in Record
    BY <2>1 DEF Record, Arg
  <2>3. node' = [node EXCEPT ![g][i] = [node[g][i] EXCEPT !.pair = arg[p].pair,
                                                          !.id = arg[p].key]]
    BY <1>5, <2>1 DEF StoreHead, TInv, TypeOK
  <2>4. node' \in [Segment -> [Slot -> Record]]
    BY <2>1, <2>2, <2>3, NodeType DEF TInv
  <2> QED
    BY <1>5, <2>1, <2>4 DEF TInv, TypeOK, StoreHead, Goto, Record, history, Pcs, Writing, WriterOf
<1>6. ASSUME NEW p \in Process, StoreKey(p) PROVE TInv'
  <2> DEFINE g == seg[p]
             i == node_i[p]
  <2>1. /\ g \in Segment /\ i \in Slot /\ node[g][i] \in Record /\ arg[p] \in Arg
        /\ pc[p] = "key"
    BY <1>6 DEF TInv, TypeOK, StoreKey, Record, Arg
  <2>2. [node[g][i] EXCEPT !.key = arg[p].key] \in Record
    BY <2>1 DEF Record, Arg
  <2>3. node' = [node EXCEPT ![g][i] = [node[g][i] EXCEPT !.key = arg[p].key]]
    BY <1>6, <2>1 DEF StoreKey, TInv, TypeOK
  <2>4. node' \in [Segment -> [Slot -> Record]]
    BY <2>1, <2>2, <2>3, NodeType DEF TInv
  <2> QED
    BY <1>6, <2>1, <2>4 DEF TInv, TypeOK, StoreKey, Goto, Record, Pcs, Writing, WriterOf
<1>7. ASSUME NEW p \in Process, NEW q \in Pair, Read(p, q) PROVE TInv'
  <2>1. arg' \in [Process -> Arg]
    BY <1>7 DEF TInv, TypeOK, Read, Arg
  <2>2. \E l \in {"read", "missing"} : Goto(p, l, 0)
    BY <1>7 DEF Read
  <2>3. /\ pc' \in [Process -> Pcs] /\ node_i' \in [Process -> 0 .. MaxNode]
        /\ \A r \in Process : pc'[r] \in {"head", "key", "copy"} => node_i'[r] \in Slot
        /\ \A r \in Process : pc'[r] = "closed" <=> pc[r] = "closed"
    BY <1>7, <2>2 DEF TInv, TypeOK, Read, Idle, Goto, Pcs
  <2>4. \A r \in Process : pc'[r] \in Writing => WriterOf(r)'
    BY <1>7, <2>2 DEF TInv, TypeOK, Read, Goto, Writing, WriterOf
  <2> QED
    BY <1>7, <2>1, <2>3, <2>4 DEF TInv, TypeOK, Read, Arg, shm
<1>8. ASSUME NEW p \in Process, ReadSlot(p) PROVE TInv'
  <2>1. node_i[p] # MaxNode => node_i[p] \in Slot /\ node_i[p] + 1 \in 0 .. MaxNode
    BY DEF TInv, TypeOK, Slot
  <2>2. \E l \in {"missing", "copy", "read"}, n \in 0 .. MaxNode :
          Goto(p, l, n) /\ (l = "copy" => n \in Slot)
    <3>1. CASE ReadEnd(node_i[p])
      BY <1>8, <3>1 DEF ReadSlot
    <3>2. CASE ~ReadEnd(node_i[p]) /\ Matches(p, node_i[p])
      BY <1>8, <2>1, <3>2 DEF ReadSlot, ReadEnd, TInv, TypeOK
    <3>3. CASE ~ReadEnd(node_i[p]) /\ ~Matches(p, node_i[p])
      BY <1>8, <2>1, <3>3 DEF ReadSlot, ReadEnd
    <3> QED
      BY <3>1, <3>2, <3>3
  <2>3. UNCHANGED <<shm, seg, arg, writes>> /\ pc[p] = "read"
    BY <1>8 DEF ReadSlot, history
  <2> QED
    BY <2>2, <2>3 DEF TInv, TypeOK, Goto, shm, Pcs, Writing, WriterOf
<1>12. ASSUME NEW p \in Process, ReadCopy(p) PROVE TInv'
  BY <1>12 DEF TInv, TypeOK, ReadCopy, Goto, shm, Pcs, Writing, WriterOf
<1>9. ASSUME NEW p \in Process, Clear(p) PROVE TInv'
  <2>1. CASE node_i[p] < MaxNode
    <3>1. node_i[p] \in Slot /\ node_i[p] + 1 \in 0 .. MaxNode
      BY <2>1 DEF TInv, TypeOK, Slot
    <3>2. node' \in [Segment -> [Slot -> Record]]
      <4>1. seg[p] \in Segment
        BY <1>9 DEF TInv, TypeOK, Clear
      <4> QED
        BY <1>9, <2>1, <3>1, <4>1, ZeroIsRecord, NodeType DEF TInv, Clear
    <3>3. /\ pc' = [pc EXCEPT ![p] = "clear"] /\ UNCHANGED <<named, seg, arg, writes>>
          /\ pc[p] = "clear"
          /\ node_i' = [node_i EXCEPT ![p] = node_i[p] + 1]
      BY <1>9, <2>1 DEF Clear, Goto, history
    <3>4. pc' \in [Process -> Pcs] /\ \A r \in Process : pc'[r] \in {pc[r], "clear"}
      BY <3>3 DEF TInv, TypeOK, Pcs
    <3>5. /\ node_i' \in [Process -> 0 .. MaxNode]
          /\ \A r \in Process : pc'[r] \in {"head", "key", "copy"} => node_i'[r] \in Slot
      BY <3>1, <3>3, <3>4 DEF TInv, TypeOK
    <3>6. \A r \in Process : pc'[r] \in Writing => WriterOf(r)'
      BY <3>3, <3>4 DEF TInv, Writing, WriterOf
    <3>7. TypeOK'
      BY <3>2, <3>3, <3>4, <3>5 DEF TInv, TypeOK, Record
    <3> QED
      BY <3>3, <3>6, <3>7 DEF TInv
  <2>2. CASE ~(node_i[p] < MaxNode)
    <3>1. /\ Goto(p, "open", 0) /\ UNCHANGED <<named, node, seg, arg, writes>>
          /\ pc[p] = "clear"
      BY <1>9, <2>2 DEF Clear, history
    <3> QED
      BY <3>1 DEF TInv, TypeOK, Goto, Pcs, Writing, WriterOf
  <2> QED
    BY <2>1, <2>2
<1>10. ASSUME NEW p \in Process, Kill(p) \/ AttachFails(p) \/ Quit(p) PROVE TInv'
  BY <1>10, EndTInv DEF Kill, AttachFails, Quit
<1>11. CASE UNCHANGED vars
  BY <1>11 DEF TInv, TypeOK, vars, shm, history, WriterOf
<1> QED
  BY <1>1, <1>2, <1>3, <1>4, <1>5, <1>6, <1>7, <1>8, <1>9, <1>10, <1>11, <1>12,
     <1>13 DEF Next

(* In every reachable state the slots hold records, and a process that     *)
(* writes stands at a slot of the segment: shmWrite never writes past it.  *)
THEOREM ShmTypeCorrect == Spec => []TypeOK
<1>1. TInv => TypeOK
  BY DEF TInv
<1> QED
  BY <1>1, InitTInv, StepTInv, PTL DEF Spec

-----------------------------------------------------------------------------
(* A segment that is gone stays gone for those who have its id: nobody can *)
(* attach it, and no other segment gets that id.                           *)

LEMMA GoneStays ==
  ASSUME TInv, [Next]_vars, NEW r \in Process, seg'[r] = seg[r], seg[r] # NoSegment,
         ~Exists(seg[r])
  PROVE  ~Exists(seg[r])'
<1> DEFINE g == seg[r]
<1>0. g \in Segment /\ NoSegment # g /\ named # g
  BY DEF TInv, TypeOK, Exists
<1>1. ASSUME \A q \in Process :
               Attached(q)' => seg'[q] = seg[q] /\ (Attached(q) \/ Exists(seg[q])),
             named' # g
      PROVE  ~Exists(g)'
  BY <1>0, <1>1 DEF Exists
<1>2. ASSUME NEW p \in Process, Open(p) PROVE ~Exists(g)'
  <2>1. \A q \in Process : Attached(q)' => seg'[q] = seg[q] /\ Attached(q)
    BY <1>2 DEF Open, Goto, Attached, TInv, TypeOK
  <2>2. named' # g
    BY <1>0, <1>2 DEF Open, shm
  <2> QED
    BY <1>1, <2>1, <2>2
<1>3. ASSUME NEW p \in Process, NEW l \in Pcs, NEW n, Goto(p, l, n), seg' = seg,
             named' = named, Attached(p) \/ Exists(seg[p]) \/ l \in {"failed", "missing"}
      PROVE  ~Exists(g)'
  <2>1. \A q \in Process : Attached(q)' =>
          seg'[q] = seg[q] /\ (Attached(q) \/ Exists(seg[q]))
    BY <1>3 DEF Goto, Attached, TInv, TypeOK
  <2> QED
    BY <1>0, <1>1, <1>3, <2>1
<1>4. ASSUME NEW p \in Process,
             \/ Attach(p) \/ Clear(p) \/ Search(p) \/ FindFree(p) \/ StoreHead(p)
             \/ StoreKey(p) \/ ReadSlot(p) \/ ReadCopy(p)
             \/ \E q \in Pair : Write(p, q) \/ Read(p, q)
      PROVE  ~Exists(g)'
  <2>1. seg' = seg /\ named' = named
    BY <1>4 DEF Attach, Clear, Search, FindFree, StoreHead, StoreKey, ReadSlot, ReadCopy,
                Write, Read, shm
  <2>2. \E l \in Pcs : \E n : /\ Goto(p, l, n)
                              /\ Attached(p) \/ Exists(seg[p]) \/ l \in {"failed", "missing"}
    BY <1>4 DEF Attach, Clear, Search, FindFree, StoreHead, StoreKey, ReadSlot, ReadCopy,
                Write, Read, Attached, Pcs
  <2> QED
    BY <1>3, <2>1, <2>2
<1>5. ASSUME NEW p \in Process, End(p), named' \in {named, NoSegment} PROVE ~Exists(g)'
  <2>1. \A q \in Process : Attached(q)' => seg'[q] = seg[q] /\ Attached(q)
    BY <1>5 DEF End, Goto, Attached, TInv, TypeOK
  <2> QED
    BY <1>0, <1>1, <1>5, <2>1
<1>6. CASE UNCHANGED vars
  BY <1>6 DEF vars, shm, Exists, Attached
<1>7. ASSUME NEW p \in Process, Kill(p) \/ AttachFails(p) \/ Quit(p) PROVE ~Exists(g)'
  <2>1. End(p)
    BY <1>7 DEF Kill, AttachFails, Quit
  <2>2. named' \in {named, NoSegment}
    BY <1>7 DEF Kill, AttachFails, Quit
  <2> QED
    BY <1>5, <1>7, <2>1, <2>2
<1>8. CASE Next
  BY <1>2, <1>4, <1>7, <1>8 DEF Next
<1> QED
  BY <1>6, <1>8

-----------------------------------------------------------------------------
(* The histories.  While a process opens a segment nothing is stored in it,*)
(* and no call on it counts on what it has seen.                           *)

HInv ==
  /\ stored \in [Segment -> [Pair -> 0 .. MaxWrite]]
  /\ calm \in [Process -> BOOLEAN]
  /\ base \in [Process -> 0 .. MaxWrite]
  /\ owner \in [1 .. MaxWrite -> Pair \cup {NoPair}]
  /\ got \in [Process -> Record]
  /\ \A p \in Process : pc[p] \in {"closed", "get", "clear"} => ~calm[p]
  /\ \A g \in Segment : Opening(g) =>
       /\ \A p \in Process : seg[p] = g => ~calm[p]
       /\ \A q \in Pair : stored[g][q] = 0

LEMMA InitHInv == Init => HInv
  BY ShmAssumption, ZeroIsRecord DEF Init, HInv, Opening

(* Only Attach begins to open a segment; Clear, and the end of a process,  *)
(* end it.                                                                 *)
LEMMA OpeningStays ==
  ASSUME TInv, NEW p \in Process, pc[p] # "clear", seg' = seg,
         NEW l \in Pcs \ {"clear"}, NEW n, Goto(p, l, n)
  PROVE  \A g : Opening(g)' <=> Opening(g)
BY DEF Goto, Opening, TInv, TypeOK

LEMMA EndHInv ==
  ASSUME TInv, HInv, NEW p \in Process, End(p) PROVE HInv'
<1>1. \A g \in Segment : Opening(g)' => Opening(g)
  BY DEF End, Goto, Opening, TInv, TypeOK
<1>2. /\ got' \in [Process -> Record] /\ base' \in [Process -> 0 .. MaxWrite]
      /\ calm' \in [Process -> BOOLEAN]
  BY ZeroIsRecord, ShmAssumption DEF End, HInv
<1>3. /\ UNCHANGED <<stored, owner>>
      /\ \A r \in Process : calm'[r] => calm[r] /\ r # p
      /\ \A r \in Process : r # p => pc'[r] = pc[r] /\ seg'[r] = seg[r]
  BY DEF End, Goto, HInv, TInv, TypeOK
<1>4. \A g \in Segment : Opening(g)' =>
        /\ \A r \in Process : seg'[r] = g => ~calm'[r]
        /\ \A q \in Pair : stored'[g][q] = 0
  BY <1>1, <1>3 DEF HInv
<1>5. \A r \in Process : pc'[r] \in {"closed", "get", "clear"} => ~calm'[r]
  BY <1>3 DEF HInv
<1>6. /\ stored' \in [Segment -> [Pair -> 0 .. MaxWrite]]
      /\ owner' \in [1 .. MaxWrite -> Pair \cup {NoPair}]
  BY <1>3 DEF HInv
<1> QED
  BY <1>2, <1>4, <1>5, <1>6 DEF HInv

LEMMA OpenHInv ==
  ASSUME TInv, HInv, NEW p \in Process, Open(p) \/ Attach(p) PROVE HInv'
<1> USE ShmAssumption
<1>1. CASE Open(p)
  <2>1. /\ UNCHANGED <<calm, base, owner, got>> /\ pc'[p] = "get" /\ pc[p] = "closed"
        /\ \A r \in Process : r # p => pc'[r] = pc[r] /\ seg'[r] = seg[r]
    BY <1>1 DEF Open, Goto, TInv, TypeOK
  <2>2. \A g \in Segment : Opening(g)' <=> Opening(g)
    BY <2>1 DEF Opening
  <2>3. \/ stored' = stored
        \/ \E g \in Segment : stored' = [stored EXCEPT ![g] = [q \in Pair |-> 0]]
    BY <1>1 DEF Open
  <2>0. [q \in Pair |-> 0] \in [Pair -> 0 .. MaxWrite]
    OBVIOUS
  <2>00. stored \in [Segment -> [Pair -> 0 .. MaxWrite]]
    BY DEF HInv
  <2>4. stored' \in [Segment -> [Pair -> 0 .. MaxWrite]]
    BY <2>0, <2>00, <2>3
  <2>5. \A g \in Segment, q \in Pair : stored[g][q] = 0 => stored'[g][q] = 0
    BY <2>00, <2>3
  <2>6. \A r \in Process : pc'[r] \in {"closed", "get", "clear"} => ~calm'[r]
    BY <2>1 DEF HInv
  <2>7. \A g \in Segment : Opening(g)' =>
          /\ \A r \in Process : seg'[r] = g => ~calm'[r]
          /\ \A q \in Pair : stored'[g][q] = 0
    BY <2>1, <2>2, <2>5 DEF HInv
  <2> QED
    BY <2>1, <2>4, <2>6, <2>7 DEF HInv
<1>2. CASE Attach(p)
  <2>1. /\ UNCHANGED <<seg, base, owner, got>> /\ pc'[p] = "clear" /\ pc[p] = "get"
        /\ \A r \in Process : r # p => pc'[r] = pc[r]
        /\ \A r \in Process : calm'[r] = (calm[r] /\ seg[r] # seg[p])
        /\ seg[p] \in Segment
        /\ stored' = [stored EXCEPT ![seg[p]] = [q \in Pair |-> 0]]
    BY <1>2 DEF Attach, Goto, TInv, TypeOK
  <2>2. \A g \in Segment : Opening(g)' => Opening(g) \/ g = seg[p]
    BY <2>1 DEF Opening
  <2>3. stored' \in [Segment -> [Pair -> 0 .. MaxWrite]]
    BY <2>1 DEF HInv
  <2>4. calm' \in [Process -> BOOLEAN]
    BY <1>2 DEF Attach, HInv
  <2>5. \A g \in Segment : Opening(g)' =>
          /\ \A r \in Process : seg'[r] = g => ~calm'[r]
          /\ \A q \in Pair : stored'[g][q] = 0
    BY <2>1, <2>2 DEF HInv
  <2>6. \A r \in Process : pc'[r] \in {"closed", "get", "clear"} => ~calm'[r]
    BY <2>1 DEF HInv
  <2> QED
    BY <2>1, <2>3, <2>4, <2>5, <2>6 DEF HInv
<1> QED
  BY <1>1, <1>2

(* The steps that leave the histories to one process: what it may change.  *)
LEMMA CallHInv ==
  ASSUME TInv, HInv, NEW p \in Process, seg' = seg,
         pc[p] # "clear", NEW l \in Pcs \ {"closed", "get", "clear"}, NEW n, Goto(p, l, n),
         stored' \in [Segment -> [Pair -> 0 .. MaxWrite]],
         \A g \in Segment : Opening(g) => \A q \in Pair : stored'[g][q] = 0,
         \/ calm' = calm
         \/ calm' = [calm EXCEPT ![p] = ~Opening(seg[p])],
         base' \in [Process -> 0 .. MaxWrite],
         owner' \in [1 .. MaxWrite -> Pair \cup {NoPair}],
         got' \in [Process -> Record]
  PROVE  HInv'
<1>1. \A g \in Segment : Opening(g)' <=> Opening(g)
  BY OpeningStays
<1>2. calm' \in [Process -> BOOLEAN]
  BY DEF HInv
<1>3. \A r \in Process : calm'[r] => calm[r] \/ (r = p /\ ~Opening(seg[p]))
  BY DEF HInv
<1>4. \A r \in Process : pc'[r] \in {"closed", "get", "clear"} => ~calm'[r]
  BY <1>3 DEF HInv, Goto, TInv, TypeOK
<1>5. \A g \in Segment : Opening(g)' =>
        /\ \A r \in Process : seg'[r] = g => ~calm'[r]
        /\ \A q \in Pair : stored'[g][q] = 0
  BY <1>1, <1>3 DEF HInv
<1> QED
  BY <1>2, <1>4, <1>5 DEF HInv

LEMMA StepHInv == TInv /\ HInv /\ [Next]_vars => HInv'
<1> SUFFICES ASSUME TInv, HInv, [Next]_vars PROVE HInv'
  OBVIOUS
<1> USE ShmAssumption
<1>1. ASSUME NEW p \in Process, Open(p) \/ Attach(p) PROVE HInv'
  BY <1>1, OpenHInv
<1>3. ASSUME NEW p \in Process, Clear(p) PROVE HInv'
  <2>1. /\ UNCHANGED <<seg, stored, calm, base, owner, got>> /\ pc[p] = "clear"
        /\ \A r \in Process : r # p => pc'[r] = pc[r]
        /\ pc'[p] \in {"clear", "open"}
    BY <1>3 DEF Clear, Goto, history, TInv, TypeOK
  <2>2. \A g \in Segment : Opening(g)' => Opening(g)
    BY <2>1 DEF Opening
  <2>3. \A r \in Process : pc'[r] \in {"closed", "get", "clear"} => ~calm'[r]
    BY <2>1 DEF HInv
  <2> QED
    BY <2>1, <2>2, <2>3 DEF HInv
<1>4. ASSUME NEW p \in Process, Kill(p) \/ AttachFails(p) \/ Quit(p) PROVE HInv'
  BY <1>4, EndHInv DEF Kill, AttachFails, Quit
<1>5. \A g \in Segment : Opening(g) => \A q \in Pair : stored[g][q] = 0
  BY DEF HInv
<1>6. ASSUME NEW p \in Process, NEW q \in Pair, Write(p, q) PROVE HInv'
  <2>1. /\ seg' = seg /\ UNCHANGED <<got, stored, base>> /\ pc[p] # "clear"
        /\ calm' = [calm EXCEPT ![p] = ~Opening(seg[p])]
        /\ owner' = [owner EXCEPT ![writes + 1] = q]
        /\ \E l \in {"search", "failed"} : Goto(p, l, 0)
    BY <1>6 DEF Write, Idle
  <2>2. owner' \in [1 .. MaxWrite -> Pair \cup {NoPair}]
    BY <2>1 DEF HInv
  <2> QED
    BY <1>5, <2>1, <2>2, CallHInv DEF HInv, Pcs
<1>7. ASSUME NEW p \in Process, NEW q \in Pair, Read(p, q) PROVE HInv'
  <2>1. /\ seg' = seg /\ UNCHANGED <<got, stored, owner>> /\ pc[p] \notin {"clear", "closed"}
        /\ calm' = [calm EXCEPT ![p] = ~Opening(seg[p])]
        /\ base' = [base EXCEPT ![p] = stored[seg[p]][q]]
        /\ \E l \in {"read", "missing"} : Goto(p, l, 0)
    BY <1>7 DEF Read, Idle, shm
  <2>2. base' \in [Process -> 0 .. MaxWrite]
    <3>1. seg[p] \in Segment
      BY <2>1 DEF TInv, TypeOK
    <3> QED
      BY <2>1, <3>1 DEF HInv
  <2> QED
    BY <1>5, <2>1, <2>2, CallHInv DEF HInv, Pcs
<1>8. ASSUME NEW p \in Process, Search(p) \/ FindFree(p) \/ ReadSlot(p) PROVE HInv'
  <2>1. /\ seg' = seg /\ UNCHANGED history /\ pc[p] # "clear"
        /\ \E l \in {"search", "free", "head", "failed", "missing", "copy", "read"} :
             \E n : Goto(p, l, n)
    BY <1>8 DEF Search, FindFree, ReadSlot
  <2> QED
    BY <1>5, <2>1, CallHInv DEF HInv, Pcs, history
<1>9. ASSUME NEW p \in Process, StoreHead(p) PROVE HInv'
  <2>1. /\ seg' = seg /\ UNCHANGED <<got, stored, base, owner>> /\ pc[p] # "clear"
        /\ calm' = [calm EXCEPT ![p] = ~Opening(seg[p])] /\ Goto(p, "key", node_i[p])
    BY <1>9 DEF StoreHead
  <2> QED
    BY <1>5, <2>1, CallHInv DEF HInv, Pcs
<1>10. ASSUME NEW p \in Process, StoreKey(p) PROVE HInv'
  <2>1. /\ seg' = seg /\ UNCHANGED <<got, calm, base, owner>> /\ pc[p] = "key"
        /\ Goto(p, "open", 0) /\ seg[p] \in Segment
        /\ stored' = IF calm[p] THEN [stored EXCEPT ![seg[p]][arg[p].pair] = arg[p].key]
                     ELSE stored
    BY <1>10 DEF StoreKey, TInv, TypeOK
  <2>2. arg[p].key \in 0 .. MaxWrite /\ arg[p].pair \in Pair
    BY <2>1 DEF TInv, TypeOK, Writing, WriterOf
  <2>3. stored' \in [Segment -> [Pair -> 0 .. MaxWrite]]
    BY <2>1, <2>2 DEF HInv
  <2>4. ASSUME NEW g \in Segment, Opening(g), NEW q \in Pair PROVE stored'[g][q] = 0
    <3>1. calm[p] => g # seg[p]
      BY <2>4 DEF HInv
    <3> QED
      BY <1>5, <2>1, <2>4, <3>1 DEF HInv
  <2> QED
    BY <2>1, <2>3, <2>4, CallHInv DEF HInv, Pcs
<1>11. ASSUME NEW p \in Process, ReadCopy(p) PROVE HInv'
  <2>1. /\ seg' = seg /\ UNCHANGED <<stored, calm, base, owner>> /\ pc[p] = "copy"
        /\ Goto(p, "found", 0) /\ got' = [got EXCEPT ![p] = node[seg[p]][node_i[p]]]
    BY <1>11 DEF ReadCopy
  <2>2. node[seg[p]][node_i[p]] \in Record
    BY <2>1 DEF TInv, TypeOK, Record
  <2>3. got' \in [Process -> Record]
    BY <2>1, <2>2 DEF HInv
  <2> QED
    BY <1>5, <2>1, <2>3, CallHInv DEF HInv, Pcs
<1>12. CASE UNCHANGED vars
  BY <1>12 DEF vars, shm, history, HInv, Opening
<1>13. CASE Next
  BY <1>1, <1>3, <1>4, <1>6, <1>7, <1>8, <1>9, <1>10, <1>11, <1>13 DEF Next
<1> QED
  BY <1>12, <1>13

-----------------------------------------------------------------------------
(* A write fails only on a full segment, or one that is gone.  Slots before*)
(* the index of the second loop are taken, and a taken slot stays taken    *)
(* until some process opens the segment: every write stores a number above *)
(* 0.                                                                      *)

Taken(p, s) == node[seg[p]][s] # Zero

Scanned ==
  \A p \in Process : \A s \in Slot : calm[p] =>
    /\ pc[p] = "free" /\ s < node_i[p] => Taken(p, s)
    /\ pc[p] = "failed" => ~Exists(seg[p]) \/ Taken(p, s)

(* A record with a number or a key above 0 is not free.                    *)
LEMMA NotZero == \A r : r.id > 0 \/ r.key > 0 => r # Zero
  BY DEF Zero

(* Every step of the two calls keeps the taken slots.                      *)
LEMMA TakenStays ==
  ASSUME TInv, NEW p \in Process,
         \/ Search(p) \/ FindFree(p) \/ StoreHead(p) \/ StoreKey(p) \/ ReadSlot(p)
         \/ ReadCopy(p) \/ \E q \in Pair : Write(p, q) \/ Read(p, q)
  PROVE  /\ seg' = seg /\ named' = named
         /\ \A g \in Segment, s \in Slot : node[g][s] # Zero => node'[g][s] # Zero
<1>1. CASE StoreHead(p)
  <2> DEFINE h == seg[p]
             i == node_i[p]
  <2>1. /\ h \in Segment /\ i \in Slot /\ arg[p].key > 0 /\ arg[p] \in Arg
        /\ pc[p] \in Writing
    BY <1>1 DEF TInv, TypeOK, StoreHead, Arg, Writing, WriterOf
  <2>2. node'[h][i].id = arg[p].key
    BY <1>1, <2>1 DEF TInv, TypeOK, StoreHead
  <2>3. node'[h][i] # Zero
    BY <2>1, <2>2, NotZero
  <2>4. \A g \in Segment, s \in Slot : g # h \/ s # i => node'[g][s] = node[g][s]
    BY <1>1, <2>1 DEF TInv, TypeOK, StoreHead
  <2> QED
    BY <1>1, <2>3, <2>4 DEF StoreHead
<1>2. CASE StoreKey(p)
  <2> DEFINE h == seg[p]
             i == node_i[p]
  <2>1. /\ h \in Segment /\ i \in Slot /\ arg[p].key > 0 /\ arg[p] \in Arg
        /\ pc[p] \in Writing
    BY <1>2 DEF TInv, TypeOK, StoreKey, Arg, Writing, WriterOf
  <2>2. node'[h][i].key = arg[p].key
    BY <1>2, <2>1 DEF TInv, TypeOK, StoreKey
  <2>3. node'[h][i] # Zero
    BY <2>1, <2>2, NotZero
  <2>4. \A g \in Segment, s \in Slot : g # h \/ s # i => node'[g][s] = node[g][s]
    BY <1>2, <2>1 DEF TInv, TypeOK, StoreKey
  <2> QED
    BY <1>2, <2>3, <2>4 DEF StoreKey
<1> QED
  BY <1>1, <1>2 DEF Search, FindFree, ReadSlot, ReadCopy, Write, Read, shm

(* What a step leaves to the processes that have not moved.                *)
LEMMA OthersScanned ==
  ASSUME TInv, Scanned, [Next]_vars, NEW r \in Process, NEW s \in Slot,
         pc'[r] = pc[r], node_i'[r] = node_i[r], seg'[r] = seg[r],
         calm'[r], calm[r], pc[r] # "closed",
         Taken(r, s) => node'[seg[r]][s] # Zero
  PROVE  /\ pc'[r] = "free" /\ s < node_i'[r] => Taken(r, s)'
         /\ pc'[r] = "failed" => ~Exists(seg[r])' \/ Taken(r, s)'
<1>1. seg[r] # NoSegment
  BY DEF TInv, TypeOK
<1>2. Taken(r, s) => Taken(r, s)'
  BY DEF Taken
<1>3. ~Exists(seg[r]) => ~Exists(seg[r])'
  BY <1>1, GoneStays
<1> QED
  BY <1>2, <1>3 DEF Scanned

LEMMA StepScanned ==
  ASSUME TInv, HInv, Scanned, [Next]_vars PROVE Scanned'
<1> USE ShmAssumption
<1>0. \A r \in Process : pc[r] = "closed" => ~calm[r]
  BY DEF HInv
<1>1. ASSUME NEW p \in Process, Open(p) \/ Attach(p) PROVE Scanned'
  <2>1. /\ pc'[p] \in {"get", "clear"}
        /\ \A r \in Process : r # p => /\ pc'[r] = pc[r] /\ node_i'[r] = node_i[r]
                                       /\ seg'[r] = seg[r]
        /\ \A r \in Process : calm'[r] => calm[r]
    BY <1>1 DEF Open, Attach, Goto, TInv, TypeOK
  <2>2. \A r \in Process, s \in Slot : seg[r] \in Segment => node'[seg[r]][s] = node[seg[r]][s]
    BY <1>1 DEF Open, Attach, shm, TInv, TypeOK
  <2> SUFFICES ASSUME NEW r \in Process, NEW s \in Slot, calm'[r]
               PROVE  /\ pc'[r] = "free" /\ s < node_i'[r] => Taken(r, s)'
                      /\ pc'[r] = "failed" => ~Exists(seg[r])' \/ Taken(r, s)'
    BY DEF Scanned
  <2>3. CASE r = p
    BY <2>1, <2>3
  <2>4. CASE r # p
    <3>1. calm[r] /\ pc[r] # "closed" /\ seg[r] \in Segment
      BY <1>0, <2>1 DEF TInv, TypeOK
    <3> QED
      BY <2>1, <2>2, <2>4, <3>1, OthersScanned DEF Taken
  <2> QED
    BY <2>3, <2>4
<1>2. ASSUME NEW p \in Process,
             \/ Search(p) \/ FindFree(p) \/ StoreHead(p) \/ StoreKey(p) \/ ReadSlot(p)
             \/ ReadCopy(p) \/ \E q \in Pair : Write(p, q) \/ Read(p, q),
             \A s \in Slot : calm'[p] =>
               /\ pc'[p] = "free" /\ s < node_i'[p] => Taken(p, s)
               /\ pc'[p] = "failed" => ~Exists(seg[p]) \/ Taken(p, s)
      PROVE  Scanned'
  <2>1. /\ \A r \in Process : r # p => pc'[r] = pc[r] /\ node_i'[r] = node_i[r]
                                                      /\ calm'[r] = calm[r]
        /\ pc[p] # "closed"
    BY <1>2 DEF Search, FindFree, StoreHead, StoreKey, ReadSlot, ReadCopy, Write, Read, Idle,
                Goto, TInv, TypeOK, HInv, history
  <2>2. /\ seg' = seg
        /\ \A g \in Segment, s \in Slot : node[g][s] # Zero => node'[g][s] # Zero
    BY <1>2, TakenStays
  <2> SUFFICES ASSUME NEW r \in Process, NEW s \in Slot, calm'[r]
               PROVE  /\ pc'[r] = "free" /\ s < node_i'[r] => Taken(r, s)'
                      /\ pc'[r] = "failed" => ~Exists(seg[r])' \/ Taken(r, s)'
    BY DEF Scanned
  <2>3. pc[r] # "closed" => seg[r] \in Segment /\ seg[r] # NoSegment
    BY DEF TInv, TypeOK
  <2>4. CASE r = p
    <3>1. ~Exists(seg[p]) => ~Exists(seg[p])'
      BY <2>1, <2>2, <2>3, <2>4, GoneStays
    <3>2. Taken(p, s) => Taken(p, s)'
      BY <2>1, <2>2, <2>3, <2>4 DEF Taken
    <3> QED
      BY <1>2, <2>4, <3>1, <3>2
  <2>5. CASE r # p
    <3>1. calm[r] /\ pc[r] # "closed" /\ seg[r] \in Segment
      BY <1>0, <2>1, <2>3, <2>5
    <3> QED
      BY <2>1, <2>2, <2>5, <3>1, OthersScanned DEF Taken
  <2> QED
    BY <2>4, <2>5
<1>3. ASSUME NEW p \in Process, FindFree(p) PROVE Scanned'
  <2>1. /\ calm' = calm /\ pc[p] = "free" /\ node_i[p] \in 0 .. MaxNode
    BY <1>3 DEF FindFree, TInv, TypeOK, history
  <2>2. CASE LoopEnd(node_i[p])
    <3>1. calm[p] => \A s \in Slot : Taken(p, s)
      BY <2>1, <2>2 DEF Scanned, LoopEnd, Slot
    <3> QED
      BY <1>2, <1>3, <2>1, <3>1
  <2>3. CASE ~LoopEnd(node_i[p]) /\ ~FreeSlot(p, node_i[p])
    <3>1. node_i'[p] = node_i[p] + 1 /\ pc'[p] = "free"
      BY <1>3, <2>3 DEF FindFree, Goto, TInv, TypeOK
    <3>2. calm[p] => \A s \in Slot : s < node_i[p] + 1 => Taken(p, s)
      BY <2>1, <2>3 DEF Scanned, FreeSlot, Taken, Slot
    <3> QED
      BY <1>2, <1>3, <2>1, <3>1, <3>2
  <2>4. CASE ~LoopEnd(node_i[p]) /\ FreeSlot(p, node_i[p])
    <3>1. pc'[p] = "head"
      BY <1>3, <2>4 DEF FindFree, Goto, TInv, TypeOK
    <3> QED
      BY <1>2, <1>3, <3>1
  <2> QED
    BY <2>2, <2>3, <2>4
<1>4. ASSUME NEW p \in Process, Search(p) PROVE Scanned'
  <2>1. \A s \in Slot : ~(s < 0)
    BY DEF Slot
  <2>2. /\ pc'[p] \in {"free", "head", "search"}
        /\ pc'[p] = "free" => node_i'[p] = 0
    BY <1>4 DEF Search, Goto, TInv, TypeOK
  <2> QED
    BY <1>2, <1>4, <2>1, <2>2
<1>5. ASSUME NEW p \in Process, NEW q \in Pair, Write(p, q) PROVE Scanned'
  <2>1. /\ pc'[p] \in {"search", "failed"}
        /\ pc'[p] = "failed" => ~Exists(seg[p])
    BY <1>5 DEF Write, Goto, TInv, TypeOK
  <2> QED
    BY <1>2, <1>5, <2>1
<1>6. ASSUME NEW p \in Process,
             \/ StoreHead(p) \/ StoreKey(p) \/ ReadSlot(p) \/ ReadCopy(p)
             \/ \E q \in Pair : Read(p, q)
      PROVE  Scanned'
  <2>1. pc'[p] \notin {"free", "failed"}
    BY <1>6 DEF StoreHead, StoreKey, ReadSlot, ReadCopy, Read, Goto, TInv, TypeOK
  <2> QED
    BY <1>2, <1>6, <2>1
<1>7. ASSUME NEW p \in Process, Clear(p) PROVE Scanned'
  <2>1. /\ pc[p] = "clear" /\ pc'[p] \in {"clear", "open"} /\ seg' = seg /\ calm' = calm
        /\ \A r \in Process : r # p => pc'[r] = pc[r] /\ node_i'[r] = node_i[r]
        /\ \A g \in Segment, s \in Slot : g # seg[p] => node'[g][s] = node[g][s]
    BY <1>7 DEF Clear, Goto, history, TInv, TypeOK
  <2>2. \A r \in Process : calm[r] => seg[r] # seg[p]
    BY <2>1 DEF HInv, Opening, TInv, TypeOK
  <2> SUFFICES ASSUME NEW r \in Process, NEW s \in Slot, calm'[r]
               PROVE  /\ pc'[r] = "free" /\ s < node_i'[r] => Taken(r, s)'
                      /\ pc'[r] = "failed" => ~Exists(seg[r])' \/ Taken(r, s)'
    BY DEF Scanned
  <2>3. r # p /\ calm[r] /\ pc[r] # "closed" /\ seg[r] \in Segment
    BY <1>0, <2>1, <2>2 DEF TInv, TypeOK
  <2> QED
    BY <2>1, <2>2, <2>3, OthersScanned DEF Taken
<1>8. ASSUME NEW p \in Process, Kill(p) \/ AttachFails(p) \/ Quit(p) PROVE Scanned'
  <2>1. /\ ~calm'[p] /\ node' = node
        /\ \A r \in Process : r # p => /\ pc'[r] = pc[r] /\ node_i'[r] = node_i[r]
                                       /\ seg'[r] = seg[r] /\ calm'[r] = calm[r]
    BY <1>8 DEF Kill, AttachFails, Quit, End, Goto, HInv, TInv, TypeOK
  <2> SUFFICES ASSUME NEW r \in Process, NEW s \in Slot, calm'[r]
               PROVE  /\ pc'[r] = "free" /\ s < node_i'[r] => Taken(r, s)'
                      /\ pc'[r] = "failed" => ~Exists(seg[r])' \/ Taken(r, s)'
    BY DEF Scanned
  <2>2. r # p /\ calm[r] /\ pc[r] # "closed"
    BY <1>0, <2>1
  <2> QED
    BY <2>1, <2>2, OthersScanned DEF Taken
<1>9. CASE UNCHANGED vars
  BY <1>9 DEF Scanned, Taken, Exists, Attached, vars, shm, history
<1>10. CASE Next
  BY <1>1, <1>3, <1>4, <1>5, <1>6, <1>7, <1>8, <1>10 DEF Next
<1> QED
  BY <1>9, <1>10

(* FailsOnlyIfFull: shmWrite returns -1 only when its segment is gone or   *)
(* every slot is taken, however many processes write, unless the store was *)
(* opened meanwhile.                                                       *)
THEOREM FullOnFailure == Spec => []FailsOnlyIfFull
<1>1. Init => Scanned
  BY DEF Init, Scanned
<1>2. Scanned => FailsOnlyIfFull
  BY DEF Scanned, FailsOnlyIfFull, Taken
<1>3. TInv /\ HInv /\ Scanned /\ [Next]_vars => Scanned'
  BY StepScanned
<1> QED
  BY <1>1, <1>2, <1>3, InitTInv, StepTInv, InitHInv, StepHInv, PTL DEF Spec

-----------------------------------------------------------------------------
(* With one writer a pair is in one slot of a segment.  The first loop has *)
(* passed over slots of other pairs only, so that a writer that looks for a*)
(* free slot knows its pair to be in none; and a slot about to be filled is*)
(* either the slot of its pair, or its pair is nowhere.                    *)

Alone == \A p, q \in Writer : p = q

Missed ==
  \A p \in Writer :
    /\ pc[p] = "search" =>
         \A s \in Slot : s < node_i[p] => node[seg[p]][s].pair # arg[p].pair
    /\ pc[p] = "free" => \A s \in Slot : node[seg[p]][s].pair # arg[p].pair
    /\ pc[p] = "head" =>
         \A s \in Slot : s # node_i[p] => node[seg[p]][s].pair # arg[p].pair

(* The one process that writes.                                            *)
LEMMA OneWrites ==
  ASSUME Alone, TInv, NEW p \in Process, pc[p] \in Writing
  PROVE  /\ p \in Writer /\ seg[p] \in Segment /\ arg[p].pair \in Pair
         /\ \A r \in Writer : r = p
         /\ \A r \in Process : r # p => pc[r] \notin Writing
BY DEF Alone, TInv, TypeOK, Writing, WriterOf

LEMMA StepMissed ==
  ASSUME Alone, TInv, Missed, UniquePair, [Next]_vars
  PROVE  Missed' /\ UniquePair'
<1> USE ShmAssumption
<1>1. ASSUME NEW p \in Process, Open(p) \/ Attach(p) PROVE Missed' /\ UniquePair'
  <2>1. /\ arg' = arg /\ pc[p] \in {"closed", "get"} /\ pc'[p] \in {"get", "clear"}
        /\ \A r \in Process : r # p => /\ pc'[r] = pc[r] /\ node_i'[r] = node_i[r]
                                       /\ seg'[r] = seg[r]
    BY <1>1 DEF Open, Attach, Goto, TInv, TypeOK
  <2>2. \A g \in Segment : \/ node'[g] = node[g]
                           \/ /\ \A s \in Slot : node'[g][s] = Zero
                              /\ \A r \in Process : seg[r] # g
    BY <1>1 DEF Open, Attach, shm, Empty, TInv, TypeOK
  <2>3. Missed'
    <3> SUFFICES ASSUME NEW r \in Writer PROVE
          /\ pc'[r] = "search" =>
               \A s \in Slot : s < node_i'[r] => node'[seg'[r]][s].pair # arg'[r].pair
          /\ pc'[r] = "free" => \A s \in Slot : node'[seg'[r]][s].pair # arg'[r].pair
          /\ pc'[r] = "head" =>
               \A s \in Slot : s # node_i'[r] => node'[seg'[r]][s].pair # arg'[r].pair
      BY DEF Missed
    <3>1. CASE r = p
      BY <2>1, <3>1
    <3>2. CASE r # p /\ pc[r] \in Writing
      <4>1. r \in Process /\ seg[r] \in Segment
        BY <3>2 DEF Process, TInv, TypeOK, Writing
      <4>2. node'[seg[r]] = node[seg[r]]
        BY <2>2, <4>1
      <4> QED
        BY <2>1, <3>2, <4>1, <4>2 DEF Missed
    <3>3. CASE r # p /\ pc[r] \notin Writing
      BY <2>1, <3>3 DEF Writing, Process
    <3> QED
      BY <3>1, <3>2, <3>3
  <2>4. UniquePair'
    BY <2>2 DEF UniquePair, Zero
  <2> QED
    BY <2>3, <2>4
<1>2. ASSUME NEW p \in Process, NEW q \in Pair, Write(p, q)
      PROVE  Missed' /\ UniquePair'
  <2>1. /\ p \in Writer /\ node' = node /\ pc'[p] \in {"search", "failed"}
        /\ node_i'[p] = 0
    BY <1>2 DEF Write, Goto, shm, TInv, TypeOK
  <2>2. \A r \in Writer : r = p
    BY <2>1 DEF Alone
  <2> QED
    BY <2>1, <2>2 DEF Missed, UniquePair, Slot
<1>3. ASSUME NEW p \in Process, Search(p) PROVE Missed' /\ UniquePair'
  <2>1. /\ pc[p] = "search" /\ node' = node /\ arg' = arg /\ seg' = seg
        /\ node_i[p] \in 0 .. MaxNode
    BY <1>3 DEF Search, history, shm, TInv, TypeOK
  <2>2. /\ p \in Writer /\ \A r \in Writer : r = p
        /\ seg[p] \in Segment /\ arg[p].pair \in Pair
    BY <2>1, OneWrites DEF Writing
  <2>3. \A s \in Slot : s < node_i[p] => node[seg[p]][s].pair # arg[p].pair
    BY <2>1, <2>2 DEF Missed
  <2>4. CASE LoopEnd(node_i[p])
    <3>1. pc'[p] = "free" /\ \A s \in Slot : s < node_i[p]
      BY <1>3, <2>1, <2>4 DEF Search, Goto, LoopEnd, TInv, TypeOK, Slot
    <3> QED
      BY <2>1, <2>2, <2>3, <3>1 DEF Missed, UniquePair
  <2>5. CASE ~LoopEnd(node_i[p]) /\ Matches(p, node_i[p])
    <3>1. pc'[p] = "head" /\ node_i'[p] = node_i[p] /\ node_i[p] \in Slot
      BY <1>3, <2>1, <2>5 DEF Search, Goto, LoopEnd, TInv, TypeOK, Slot
    <3>2. node[seg[p]][node_i[p]].pair = arg[p].pair /\ arg[p].pair # NoPair
      BY <2>2, <2>5 DEF Matches
    <3>3. \A s \in Slot : s # node_i[p] => node[seg[p]][s].pair # arg[p].pair
      BY <2>2, <3>1, <3>2 DEF UniquePair
    <3> QED
      BY <2>1, <2>2, <3>1, <3>3 DEF Missed, UniquePair
  <2>6. CASE ~LoopEnd(node_i[p]) /\ ~Matches(p, node_i[p])
    <3>1. pc'[p] = "search" /\ node_i'[p] = node_i[p] + 1
      BY <1>3, <2>1, <2>6 DEF Search, Goto, TInv, TypeOK
    <3>2. \A s \in Slot : s < node_i[p] + 1 => node[seg[p]][s].pair # arg[p].pair
      BY <2>1, <2>3, <2>6 DEF Matches, Slot
    <3> QED
      BY <2>1, <2>2, <3>1, <3>2 DEF Missed, UniquePair
  <2> QED
    BY <2>4, <2>5, <2>6
<1>4. ASSUME NEW p \in Process, FindFree(p) PROVE Missed' /\ UniquePair'
  <2>1. /\ pc[p] = "free" /\ node' = node /\ arg' = arg /\ seg' = seg
        /\ pc'[p] \in {"failed", "head", "free"}
    BY <1>4 DEF FindFree, Goto, history, shm, TInv, TypeOK
  <2>2. p \in Writer /\ \A r \in Writer : r = p
    BY <2>1, OneWrites DEF Writing
  <2> QED
    BY <2>1, <2>2 DEF Missed, UniquePair
<1>5. ASSUME NEW p \in Process, StoreHead(p) PROVE Missed' /\ UniquePair'
  <2> DEFINE h == seg[p]
             i == node_i[p]
  <2>1. /\ pc[p] = "head" /\ pc'[p] = "key" /\ i \in Slot
    BY <1>5 DEF StoreHead, Goto, TInv, TypeOK
  <2>2. p \in Writer /\ h \in Segment /\ \A r \in Writer : r = p
    BY <2>1, OneWrites DEF Writing
  <2>3. node'[h][i].pair = arg[p].pair
    BY <1>5, <2>1, <2>2 DEF StoreHead, TInv, TypeOK
  <2>4. \A g \in Segment, s \in Slot : g # h \/ s # i => node'[g][s] = node[g][s]
    BY <1>5, <2>1, <2>2 DEF StoreHead, TInv, TypeOK
  <2>5. \A s \in Slot : s # i => node[h][s].pair # arg[p].pair
    BY <2>1, <2>2 DEF Missed
  <2> QED
    BY <2>1, <2>2, <2>3, <2>4, <2>5 DEF Missed, UniquePair
<1>6. ASSUME NEW p \in Process, StoreKey(p) PROVE Missed' /\ UniquePair'
  <2>1. /\ pc[p] = "key" /\ pc'[p] = "open" /\ node_i[p] \in Slot
    BY <1>6 DEF StoreKey, Goto, TInv, TypeOK
  <2>2. p \in Writer /\ seg[p] \in Segment /\ \A r \in Writer : r = p
    BY <2>1, OneWrites DEF Writing
  <2>3. \A g \in Segment, s \in Slot : node'[g][s].pair = node[g][s].pair
    BY <1>6, <2>1, <2>2 DEF StoreKey, TInv, TypeOK
  <2> QED
    BY <2>1, <2>2, <2>3 DEF Missed, UniquePair
<1>7. ASSUME NEW p \in Process, ReadSlot(p) \/ ReadCopy(p) \/ \E q \in Pair : Read(p, q)
      PROVE  Missed' /\ UniquePair'
  <2>1. /\ node' = node /\ seg' = seg
        /\ \A r \in Process : r # p => pc'[r] = pc[r] /\ node_i'[r] = node_i[r]
                                       /\ arg'[r] = arg[r]
        /\ pc'[p] \in {"missing", "copy", "found", "read"}
    BY <1>7 DEF ReadSlot, ReadCopy, Read, Goto, shm, TInv, TypeOK
  <2> QED
    BY <2>1 DEF Missed, UniquePair, Process
<1>8. ASSUME NEW p \in Process, Clear(p) PROVE Missed' /\ UniquePair'
  <2>1. /\ \A g \in Segment, s \in Slot : \/ node'[g][s] = node[g][s]
                                          \/ node'[g][s].pair = NoPair
        /\ arg' = arg /\ seg' = seg /\ pc[p] = "clear" /\ pc'[p] \in {"clear", "open"}
        /\ \A r \in Process : r # p => pc'[r] = pc[r] /\ node_i'[r] = node_i[r]
    <3>1. /\ arg' = arg /\ seg' = seg /\ pc[p] = "clear" /\ pc'[p] \in {"clear", "open"}
          /\ \A r \in Process : r # p => pc'[r] = pc[r] /\ node_i'[r] = node_i[r]
          /\ seg[p] \in Segment /\ node_i[p] \in 0 .. MaxNode
      BY <1>8 DEF Clear, Goto, TInv, TypeOK
    <3>2. CASE node_i[p] < MaxNode
      <4>1. node' = [node EXCEPT ![seg[p]][node_i[p]] = Zero]
        BY <1>8, <3>2 DEF Clear
      <4>2. \A g \in Segment, s \in Slot : node'[g][s] = node[g][s] \/ node'[g][s] = Zero
        BY <3>1, <4>1 DEF TInv, TypeOK
      <4> QED
        BY <3>1, <4>2 DEF Zero
    <3>3. CASE ~(node_i[p] < MaxNode)
      BY <1>8, <3>1, <3>3 DEF Clear
    <3> QED
      BY <3>1, <3>2, <3>3
  <2>2. \A r \in Process : pc[r] \in Writing => arg[r].pair # NoPair /\ seg[r] \in Segment
    BY DEF TInv, TypeOK, Writing, WriterOf
  <2> QED
    BY <2>1, <2>2 DEF Missed, UniquePair, Writing, Process
<1>9. ASSUME NEW p \in Process, Kill(p) \/ AttachFails(p) \/ Quit(p)
      PROVE  Missed' /\ UniquePair'
  <2>1. End(p)
    BY <1>9 DEF Kill, AttachFails, Quit
  <2>2. /\ node' = node /\ pc'[p] = "closed"
        /\ \A r \in Process : r # p => /\ pc'[r] = pc[r] /\ node_i'[r] = node_i[r]
                                       /\ arg'[r] = arg[r] /\ seg'[r] = seg[r]
    BY <2>1 DEF End, Goto, TInv, TypeOK
  <2> QED
    BY <2>2 DEF Missed, UniquePair, Process
<1>10. CASE UNCHANGED vars
  BY <1>10 DEF Missed, UniquePair, vars, shm
<1>11. CASE Next
  BY <1>1, <1>2, <1>3, <1>4, <1>5, <1>6, <1>7, <1>8, <1>9, <1>11 DEF Next
<1> QED
  BY <1>10, <1>11

(* With at most one process that writes, a pair is never in two slots of a *)
(* segment, even if other processes open it, and clear it, or remove it in *)
(* the middle of a write.                                                  *)
THEOREM PairIsUnique == ASSUME Alone PROVE Spec => []UniquePair
<1>1. Init => Missed /\ UniquePair
  BY DEF Init, Missed, UniquePair, Empty, Zero, Process
<1>2. TInv /\ Missed /\ UniquePair /\ [Next]_vars => Missed' /\ UniquePair'
  BY StepMissed
<1> QED
  BY <1>1, <1>2, InitTInv, StepTInv, PTL DEF Spec

-----------------------------------------------------------------------------
(* With one writer a pair stays in its slot until some process opens the   *)
(* segment: the writer stores into the slot of its pair, or into one that  *)
(* is still empty, and the numbers it stores grow.  What was stored when a *)
(* read began is therefore at or after the slot the reader has come to,    *)
(* unless the segment was opened meanwhile.  A segment that a process is   *)
(* attached to, or that has a name, is not used again for another.         *)

(* The slot a writer fills.  If the segment was opened after the first     *)
(* half, the half may be gone, and nothing has been stored since.          *)
Placed ==
  \A p \in Process :
    LET r == node[seg[p]][node_i[p]] IN
    /\ pc[p] = "head" => r = Zero \/ r.pair = arg[p].pair
    /\ pc[p] = "key" => r.pair = arg[p].pair \/ (r = Zero /\ ~calm[p])
    /\ pc[p] = "key" /\ ~calm[p] => \A q \in Pair : stored[seg[p]][q] = 0

(* A key in a segment is one of the pair it was written for, and no key is *)
(* newer than the write under way.                                         *)
Numbered ==
  /\ \A g \in Segment : \A s \in Slot :
       /\ node[g][s].key <= writes
       /\ node[g][s].pair \in Pair /\ node[g][s].key # 0 =>
            owner[node[g][s].key] = node[g][s].pair
  /\ \A p \in Process :
       /\ pc[p] \in Writing => arg[p].key = writes /\ owner[writes] = arg[p].pair
       /\ got[p].key <= writes /\ base[p] <= writes
  /\ \A g \in Segment : \A q \in Pair : stored[g][q] <= writes

Ahead ==
  \A p \in Process :
    /\ pc[p] \in {"read", "copy"} => arg[p].pair \in Pair
    /\ pc[p] = "read" /\ calm[p] /\ base[p] # 0 =>
         \E s \in Slot : /\ s >= node_i[p] /\ node[seg[p]][s].pair = arg[p].pair
                         /\ node[seg[p]][s].key >= base[p]
    /\ pc[p] = "copy" /\ calm[p] => /\ node[seg[p]][node_i[p]].pair = arg[p].pair
                                    /\ node[seg[p]][node_i[p]].key >= base[p]

KInv == /\ TInv /\ HInv /\ Missed /\ UniquePair
        /\ Placed /\ Numbered /\ Ahead /\ StoredStays /\ ReadFindsStored

LEMMA InitKInv == Init => KInv
<1> SUFFICES ASSUME Init PROVE KInv
  OBVIOUS
<1> USE ShmAssumption
<1>1. Missed /\ UniquePair
  BY DEF Init, Missed, UniquePair, Empty, Zero, Process
<1>2. /\ \A g \in Segment, s \in Slot : node[g][s].key = 0 /\ node[g][s].pair = NoPair
      /\ \A p \in Process : pc[p] = "closed" /\ got[p].key = 0 /\ base[p] = 0
      /\ \A g \in Segment, q \in Pair : stored[g][q] = 0
      /\ writes = 0
  BY DEF Init, Empty, Zero
<1>3. Placed /\ Ahead /\ StoredStays /\ ReadFindsStored
  BY <1>2 DEF Placed, Ahead, StoredStays, ReadFindsStored
<1>4. Numbered
  BY <1>2 DEF Numbered, Writing
<1> QED
  BY <1>1, <1>3, <1>4, InitTInv, InitHInv DEF KInv

(* What a read has returned stays right: its segment, if it was gone, stays*)
(* gone.                                                                   *)
Right(p) ==
  /\ pc[p] = "missing" => base[p] = 0 \/ ~Exists(seg[p])
  /\ pc[p] = "found" => /\ got[p].key # 0 => owner[got[p].key] = arg[p].pair
                        /\ got[p].key >= base[p]

LEMMA ReturnedStays ==
  ASSUME TInv, ReadFindsStored, [Next]_vars,
         \A r \in Process : pc'[r] \in {"missing", "found"} /\ calm'[r] =>
           \/ /\ pc'[r] = pc[r] /\ calm[r] /\ seg'[r] = seg[r]
              /\ base'[r] = base[r] /\ arg'[r] = arg[r] /\ got'[r] = got[r]
              /\ got[r].key # 0 => owner'[got[r].key] = owner[got[r].key]
           \/ Right(r)'
  PROVE  ReadFindsStored'
<1> SUFFICES ASSUME NEW r \in Process, calm'[r] PROVE Right(r)'
  BY DEF ReadFindsStored, Right
<1>1. CASE pc'[r] = "found"
  BY <1>1 DEF ReadFindsStored, Right
<1>2. CASE pc'[r] = "missing" /\ ~Right(r)'
  <2>1. /\ pc[r] = "missing" /\ seg'[r] = seg[r] /\ base'[r] = base[r]
        /\ seg[r] # NoSegment /\ (base[r] = 0 \/ ~Exists(seg[r]))
    BY <1>2 DEF ReadFindsStored, TInv, TypeOK
  <2>2. CASE ~Exists(seg[r])
    <3>1. ~Exists(seg[r])'
      BY <2>1, <2>2, GoneStays
    <3> QED
      BY <1>2, <3>1 DEF Right
  <2>3. CASE base[r] = 0
    BY <1>2, <2>1, <2>3 DEF Right
  <2> QED
    BY <2>1, <2>2, <2>3
<1>3. CASE pc'[r] \notin {"missing", "found"}
  BY <1>3 DEF Right
<1> QED
  BY <1>1, <1>2, <1>3

(* One lemma for each kind of step: the ones that open, clear and end.     *)
LEMMA OpenKInv ==
  ASSUME Alone, KInv, [Next]_vars, NEW p \in Process, Open(p) PROVE
         Placed' /\ Numbered' /\ Ahead' /\ StoredStays' /\ ReadFindsStored'
<1>1. /\ UNCHANGED <<arg, writes, got, calm, base, owner>> /\ pc'[p] = "get"
      /\ \A r \in Process \ {p} : /\ pc'[r] = pc[r] /\ node_i'[r] = node_i[r]
                                  /\ seg'[r] = seg[r]
      /\ writes \in 0 .. MaxWrite
  BY DEF Open, Goto, KInv, TInv, TypeOK
<1>2. \A g \in Segment :
        \/ node'[g] = node[g] /\ stored'[g] = stored[g]
        \/ /\ node'[g] = Empty /\ stored'[g] = [q \in Pair |-> 0]
           /\ \A r \in Process : seg[r] # g
  BY DEF Open, shm, KInv, TInv, TypeOK, HInv
<1>3. \A r \in Process \ {p} : pc[r] # "closed" =>
        /\ node'[seg'[r]] = node[seg[r]] /\ stored'[seg'[r]] = stored[seg[r]]
        /\ seg[r] \in Segment
  BY <1>1, <1>2 DEF KInv, TInv, TypeOK
<1>4. Placed'
  BY <1>1, <1>3 DEF KInv, Placed
<1>5. Numbered'
  <2>1. \A s \in Slot : Empty[s].key = 0
    BY DEF Empty, Zero
  <2>2. \A g \in Segment : \A s \in Slot :
          /\ node'[g][s].key <= writes
          /\ node'[g][s].pair \in Pair /\ node'[g][s].key # 0 =>
               owner[node'[g][s].key] = node'[g][s].pair
    BY <1>1, <1>2, <2>1 DEF KInv, Numbered
  <2>3. \A g \in Segment : \A q \in Pair : stored'[g][q] <= writes
    BY <1>1, <1>2 DEF KInv, Numbered
  <2>4. \A r \in Process : pc'[r] \in Writing => pc[r] \in Writing
    BY <1>1 DEF Writing
  <2> QED
    BY <1>1, <2>2, <2>3, <2>4 DEF KInv, Numbered
<1>6. Ahead'
  BY <1>1, <1>3 DEF KInv, Ahead
<1>7. StoredStays'
  BY <1>2 DEF KInv, StoredStays
<1>8. ReadFindsStored'
  BY <1>1, ReturnedStays DEF KInv
<1> QED
  BY <1>4, <1>5, <1>6, <1>7, <1>8

LEMMA AttachKInv ==
  ASSUME Alone, KInv, [Next]_vars, NEW p \in Process, Attach(p) PROVE
         Placed' /\ Numbered' /\ Ahead' /\ StoredStays' /\ ReadFindsStored'
<1>1. /\ UNCHANGED <<node, seg, arg, writes, got, base, owner>>
      /\ pc'[p] = "clear" /\ writes \in 0 .. MaxWrite /\ seg[p] \in Segment
      /\ \A r \in Process \ {p} : pc'[r] = pc[r] /\ node_i'[r] = node_i[r]
      /\ \A r \in Process : calm'[r] = (calm[r] /\ seg[r] # seg[p])
  BY DEF Attach, Goto, shm, KInv, TInv, TypeOK
<1>2. \A g \in Segment : \A q \in Pair :
        stored'[g][q] = IF g = seg[p] THEN 0 ELSE stored[g][q]
  BY <1>1 DEF Attach, KInv, HInv
<1>3. Placed'
  <2>1. \A r \in Process : pc'[r] \in {"head", "key"} =>
          r # p /\ pc'[r] = pc[r] /\ node_i'[r] = node_i[r] /\ seg[r] \in Segment
    BY <1>1 DEF KInv, TInv, TypeOK
  <2>2. \A r \in Process : /\ ~calm[r] => ~calm'[r]
                           /\ ~calm'[r] => ~calm[r] \/ seg[r] = seg[p]
    BY <1>1
  <2>3. \A r \in Process : pc'[r] = "key" /\ ~calm'[r] =>
          \A q \in Pair : stored'[seg[r]][q] = 0
    BY <1>2, <2>1, <2>2 DEF KInv, Placed
  <2>4. \A r \in Process : pc'[r] \in {"head", "key"} =>
          LET c == node[seg[r]][node_i[r]] IN
          /\ pc'[r] = "head" => c = Zero \/ c.pair = arg[r].pair
          /\ pc'[r] = "key" => c.pair = arg[r].pair \/ (c = Zero /\ ~calm'[r])
    BY <2>1, <2>2 DEF KInv, Placed
  <2> QED
    BY <1>1, <2>1, <2>3, <2>4 DEF Placed
<1>4. Numbered'
  BY <1>1, <1>2 DEF KInv, Numbered, Writing
<1>5. Ahead' /\ StoredStays'
  <2>1. \A r \in Process : pc'[r] \in {"read", "copy"} =>
          pc'[r] = pc[r] /\ node_i'[r] = node_i[r] /\ (calm'[r] => calm[r])
    BY <1>1
  <2>2. Ahead'
    BY <1>1, <2>1 DEF KInv, Ahead
  <2>3. StoredStays'
    BY <1>1, <1>2 DEF KInv, StoredStays
  <2> QED
    BY <2>2, <2>3
<1>6. ReadFindsStored'
  BY <1>1, ReturnedStays DEF KInv
<1> QED
  BY <1>3, <1>4, <1>5, <1>6

LEMMA ClearKInv ==
  ASSUME Alone, KInv, [Next]_vars, NEW p \in Process, Clear(p) PROVE
         Placed' /\ Numbered' /\ Ahead' /\ StoredStays' /\ ReadFindsStored'
<1>1. /\ UNCHANGED <<seg, arg, writes, got, stored, calm, base, owner>>
      /\ pc[p] = "clear" /\ pc'[p] \in {"clear", "open"} /\ seg[p] \in Segment
      /\ \A r \in Process \ {p} : pc'[r] = pc[r] /\ node_i'[r] = node_i[r]
      /\ node_i[p] \in 0 .. MaxNode /\ writes \in 0 .. MaxWrite
  BY DEF Clear, Goto, KInv, TInv, TypeOK, history
<1>2. \A g \in Segment : /\ g # seg[p] => node'[g] = node[g]
                         /\ \A s \in Slot : node'[g][s] = node[g][s] \/ node'[g][s] = Zero
  <2>1. CASE node_i[p] < MaxNode
    <3>1. node' = [node EXCEPT ![seg[p]][node_i[p]] = Zero]
      BY <2>1 DEF Clear
    <3> QED
      BY <1>1, <3>1 DEF KInv, TInv, TypeOK
  <2>2. CASE ~(node_i[p] < MaxNode)
    BY <2>2 DEF Clear
  <2> QED
    BY <2>1, <2>2
<1>3. /\ \A r \in Process : seg[r] = seg[p] => ~calm[r]
      /\ \A q \in Pair : stored[seg[p]][q] = 0
  BY <1>1 DEF Opening, KInv, HInv
<1>4. \A r \in Process : pc[r] \in {"head", "key", "read", "copy"} => seg[r] \in Segment
  BY DEF KInv, TInv, TypeOK
<1>5. Placed'
  <2>1. \A r \in Process : pc[r] \in {"head", "key"} => node_i[r] \in Slot
    BY DEF KInv, TInv, TypeOK
  <2>2. \A r \in Process : pc'[r] \in {"head", "key"} =>
          /\ pc'[r] = pc[r] /\ node_i'[r] = node_i[r]
          /\ \/ node'[seg[r]][node_i[r]] = node[seg[r]][node_i[r]]
             \/ node'[seg[r]][node_i[r]] = Zero /\ ~calm[r]
    BY <1>1, <1>2, <1>3, <1>4, <2>1
  <2> QED
    BY <1>1, <2>2 DEF KInv, Placed
<1>6. Numbered'
  <2>1. Zero.key = 0
    BY DEF Zero
  <2>2. \A g \in Segment : \A s \in Slot :
          /\ node'[g][s].key <= writes
          /\ node'[g][s].pair \in Pair /\ node'[g][s].key # 0 =>
               owner[node'[g][s].key] = node'[g][s].pair
    BY <1>1, <1>2, <2>1 DEF KInv, Numbered
  <2>3. \A r \in Process : pc'[r] \in Writing => pc[r] \in Writing
    BY <1>1 DEF Writing
  <2> QED
    BY <1>1, <2>2, <2>3 DEF KInv, Numbered
<1>7. Ahead'
  <2>1. \A r \in Process : pc'[r] \in {"read", "copy"} =>
          /\ pc'[r] = pc[r] /\ node_i'[r] = node_i[r]
          /\ calm'[r] => node'[seg[r]] = node[seg[r]]
    BY <1>1, <1>2, <1>3, <1>4
  <2> QED
    BY <1>1, <2>1 DEF KInv, Ahead
<1>8. StoredStays'
  BY <1>1, <1>2, <1>3 DEF KInv, StoredStays
<1>9. ReadFindsStored'
  BY <1>1, ReturnedStays DEF KInv
<1> QED
  BY <1>5, <1>6, <1>7, <1>8, <1>9

LEMMA EndKInv ==
  ASSUME Alone, KInv, [Next]_vars, NEW p \in Process, End(p) PROVE
         Placed' /\ Numbered' /\ Ahead' /\ StoredStays' /\ ReadFindsStored'
<1>1. /\ UNCHANGED <<node, writes, stored, owner>>
      /\ pc'[p] = "closed" /\ got'[p].key = 0 /\ base'[p] = 0
      /\ \A r \in Process \ {p} : /\ pc'[r] = pc[r] /\ node_i'[r] = node_i[r]
                                  /\ arg'[r] = arg[r] /\ got'[r] = got[r]
                                  /\ calm'[r] = calm[r] /\ base'[r] = base[r]
                                  /\ seg'[r] = seg[r]
      /\ writes \in 0 .. MaxWrite
  BY DEF End, Goto, KInv, TInv, TypeOK, HInv, Zero
<1>2. Placed' /\ Ahead'
  BY <1>1 DEF KInv, Placed, Ahead
<1>3. StoredStays'
  BY <1>1 DEF KInv, StoredStays
<1>4. Numbered'
  BY <1>1 DEF KInv, Numbered, Writing
<1>5. ReadFindsStored'
  BY <1>1, ReturnedStays DEF KInv
<1> QED
  BY <1>2, <1>3, <1>4, <1>5

(* The steps of shmWrite.                                                  *)
LEMMA WriteKInv ==
  ASSUME Alone, KInv, [Next]_vars, NEW p \in Process, NEW q \in Pair, Write(p, q) PROVE
         Placed' /\ Numbered' /\ Ahead' /\ StoredStays' /\ ReadFindsStored'
<1>1. /\ UNCHANGED <<node, seg, got, stored, base>> /\ writes' = writes + 1
      /\ p \in Writer /\ writes \in 0 .. MaxWrite /\ writes + 1 \in 1 .. MaxWrite
  BY ShmAssumption DEF Write, shm, KInv, TInv
<1>2. /\ pc'[p] \in {"search", "failed"} /\ arg'[p] = [pair |-> q, key |-> writes + 1]
      /\ owner'[writes + 1] = q
      /\ \A k \in 1 .. writes : owner'[k] = owner[k]
      /\ \A r \in Process \ {p} : /\ pc'[r] = pc[r] /\ node_i'[r] = node_i[r]
                                  /\ arg'[r] = arg[r] /\ calm'[r] = calm[r]
  BY <1>1 DEF Write, Goto, KInv, TInv, TypeOK, HInv
<1>3. \A r \in Process \ {p} : pc[r] \notin Writing
  BY <1>1 DEF KInv, TInv, WriterOf, Alone
<1>4. \A g \in Segment, s \in Slot : node[g][s].key \in 0 .. MaxWrite
  BY DEF KInv, TInv, TypeOK
<1>5. \A r \in Process : got[r].key \in 0 .. MaxWrite /\ base[r] \in 0 .. MaxWrite
  BY DEF KInv, HInv, Record
<1>6. \A g \in Segment, r \in Pair : stored[g][r] \in 0 .. MaxWrite
  BY DEF KInv, HInv
<1>7. Placed' /\ Ahead' /\ StoredStays'
  BY <1>1, <1>2 DEF KInv, Placed, Ahead, StoredStays
<1>8. Numbered'
  <2>1. \A g \in Segment, s \in Slot :
          /\ node'[g][s].key <= writes'
          /\ node'[g][s].pair \in Pair /\ node'[g][s].key # 0 =>
               owner'[node'[g][s].key] = node'[g][s].pair
    BY <1>1, <1>2, <1>4 DEF KInv, Numbered
  <2>2. \A r \in Process : /\ pc'[r] \in Writing => /\ arg'[r].key = writes'
                                                    /\ owner'[writes'] = arg'[r].pair
                           /\ got'[r].key <= writes' /\ base'[r] <= writes'
    BY <1>1, <1>2, <1>3, <1>5 DEF KInv, Numbered
  <2>3. \A g \in Segment, r \in Pair : stored'[g][r] <= writes'
    BY <1>1, <1>6 DEF KInv, Numbered
  <2> QED
    BY <2>1, <2>2, <2>3 DEF Numbered
<1>9. ReadFindsStored'
  <2>1. \A r \in Process \ {p} : got[r].key # 0 => owner'[got[r].key] = owner[got[r].key]
    BY <1>1, <1>2, <1>5 DEF KInv, Numbered
  <2> QED
    BY <1>1, <1>2, <2>1, ReturnedStays DEF KInv
<1> QED
  BY <1>7, <1>8, <1>9

LEMMA LoopKInv ==
  ASSUME Alone, KInv, [Next]_vars, NEW p \in Process, Search(p) \/ FindFree(p) PROVE
         Placed' /\ Numbered' /\ Ahead' /\ StoredStays' /\ ReadFindsStored'
<1>1. /\ UNCHANGED <<node, seg, arg, writes, got, stored, calm, base, owner>>
      /\ pc[p] \in Writing /\ pc'[p] \in {"search", "free", "head", "failed"}
      /\ \A r \in Process \ {p} : pc'[r] = pc[r] /\ node_i'[r] = node_i[r]
  BY DEF Search, FindFree, Goto, shm, KInv, TInv, TypeOK, history, Writing
<1>2. pc'[p] = "head" => LET r == node[seg[p]][node_i'[p]] IN
                           r = Zero \/ r.pair = arg[p].pair
  BY DEF Search, FindFree, Goto, KInv, TInv, TypeOK, FreeSlot, Matches
<1>3. Placed'
  BY <1>1, <1>2 DEF KInv, Placed
<1>4. Numbered'
  BY <1>1 DEF KInv, Numbered, Writing
<1>5. Ahead' /\ StoredStays'
  BY <1>1 DEF KInv, Ahead, StoredStays
<1>6. ReadFindsStored'
  BY <1>1, ReturnedStays DEF KInv
<1> QED
  BY <1>3, <1>4, <1>5, <1>6

LEMMA HeadKInv ==
  ASSUME Alone, KInv, [Next]_vars, NEW p \in Process, StoreHead(p) PROVE
         Placed' /\ Numbered' /\ Ahead' /\ StoredStays' /\ ReadFindsStored'
<1> DEFINE h == seg[p]
           i == node_i[p]
<1>1. /\ UNCHANGED <<seg, arg, writes, got, stored, base, owner>>
      /\ pc[p] = "head" /\ pc'[p] = "key" /\ i \in Slot /\ node_i' = node_i
      /\ calm'[p] = ~Opening(h)
      /\ \A r \in Process \ {p} : pc'[r] = pc[r] /\ calm'[r] = calm[r]
  BY DEF StoreHead, Goto, KInv, TInv, TypeOK, HInv
<1>4. /\ p \in Writer /\ h \in Segment
      /\ \A r \in Process \ {p} : pc[r] \notin Writing
  BY <1>1, OneWrites DEF KInv, Writing
<1>2. /\ node'[h][i].pair = arg[p].pair /\ node'[h][i].key = node[h][i].key
      /\ \A g \in Segment, s \in Slot : g # h \/ s # i => node'[g][s] = node[g][s]
  BY <1>1, <1>4 DEF StoreHead, KInv, TInv, TypeOK
<1>3. node[h][i] = Zero \/ node[h][i].pair = arg[p].pair
  BY <1>1 DEF KInv, Placed
<1>5. \A g \in Segment, s \in Slot :
        node[g][s].pair \in Pair => node'[g][s].pair = node[g][s].pair
  BY <1>1, <1>2, <1>3, ShmAssumption DEF Zero
<1>6. \A g \in Segment, s \in Slot : node'[g][s].key = node[g][s].key
  BY <1>2
<1>7. Placed'
  <2>1. ~calm'[p] => \A q \in Pair : stored[h][q] = 0
    BY <1>1, <1>4 DEF KInv, HInv
  <2> QED
    BY <1>1, <1>2, <1>4, <2>1 DEF Placed, Writing
<1>8. Numbered'
  <2>1. \A g \in Segment, s \in Slot : node'[g][s].pair \in Pair /\ node'[g][s].key # 0 =>
                                         owner[node'[g][s].key] = node'[g][s].pair
    <3>1. node[h][i].key # 0 => node'[h][i].pair = node[h][i].pair
      BY <1>2, <1>3 DEF Zero
    <3> QED
      BY <1>1, <1>2, <3>1 DEF KInv, Numbered
  <2> QED
    BY <1>1, <1>6, <2>1 DEF KInv, Numbered, Writing
<1>9. Ahead'
  <2>1. \A r \in Process : /\ pc[r] = "copy" => node_i[r] \in Slot
                           /\ pc[r] \in {"read", "copy"} => seg[r] \in Segment
    BY DEF KInv, TInv, TypeOK
  <2>2. \A r \in Process : pc'[r] \in {"read", "copy"} => r # p /\ pc[r] \in {"read", "copy"}
    BY <1>1
  <2>3. \A r \in Process : pc'[r] = "copy" /\ calm'[r] =>
          /\ node'[seg'[r]][node_i'[r]].pair = arg'[r].pair
          /\ node'[seg'[r]][node_i'[r]].key >= base'[r]
    BY <1>1, <1>5, <1>6, <2>1, <2>2 DEF KInv, Ahead
  <2>4. \A r \in Process : pc'[r] = "read" /\ calm'[r] /\ base'[r] # 0 =>
          \E s \in Slot : /\ s >= node_i'[r] /\ node'[seg'[r]][s].pair = arg'[r].pair
                          /\ node'[seg'[r]][s].key >= base'[r]
    BY <1>1, <1>5, <1>6, <2>1, <2>2 DEF KInv, Ahead
  <2> QED
    BY <1>1, <2>2, <2>3, <2>4 DEF KInv, Ahead
<1>10. StoredStays'
  BY <1>1, <1>5, <1>6 DEF KInv, StoredStays
<1>11. ReadFindsStored'
  BY <1>1, ReturnedStays DEF KInv
<1> QED
  BY <1>7, <1>8, <1>9, <1>10, <1>11

LEMMA KeyKInv ==
  ASSUME Alone, KInv, [Next]_vars, NEW p \in Process, StoreKey(p) PROVE
         Placed' /\ Numbered' /\ Ahead' /\ StoredStays' /\ ReadFindsStored'
<1> DEFINE h == seg[p]
           i == node_i[p]
           q0 == arg[p].pair
<1>1. /\ UNCHANGED <<seg, arg, writes, got, calm, base, owner>>
      /\ pc[p] = "key" /\ pc'[p] = "open" /\ i \in Slot
      /\ \A r \in Process \ {p} : pc'[r] = pc[r] /\ node_i'[r] = node_i[r]
  BY DEF StoreKey, Goto, KInv, TInv, TypeOK
<1>4. h \in Segment /\ \A r \in Process \ {p} : pc[r] \notin Writing
  BY <1>1, OneWrites DEF KInv, Writing
<1>2. /\ node'[h][i].pair = node[h][i].pair /\ node'[h][i].key = arg[p].key
      /\ \A g \in Segment, s \in Slot : g # h \/ s # i => node'[g][s] = node[g][s]
  BY <1>1, <1>4 DEF StoreKey, KInv, TInv, TypeOK
<1>3. /\ arg[p].key = writes /\ owner[writes] = q0
      /\ q0 \in Pair /\ writes \in 0 .. MaxWrite
  BY <1>1 DEF KInv, Numbered, TInv, Writing, WriterOf
<1>5. calm[p] => node[h][i].pair = q0
  BY <1>1 DEF KInv, Placed
<1>6. /\ \A g \in Segment, q \in Pair : g # h \/ q # q0 => stored'[g][q] = stored[g][q]
      /\ calm[p] => stored'[h][q0] = writes
      /\ ~calm[p] => stored' = stored /\ \A q \in Pair : stored[h][q] = 0
  BY <1>1, <1>3, <1>4 DEF StoreKey, KInv, Placed, HInv
<1>7. \A g \in Segment, s \in Slot : node[g][s].key \in 0 .. MaxWrite /\ node[g][s].key <= writes
  BY DEF KInv, TInv, TypeOK, Numbered
<1>8. Placed'
  BY <1>1, <1>4 DEF Placed, Writing
<1>9. Numbered'
  <2>1. \A g \in Segment, s \in Slot : node'[g][s].key <= writes
    BY <1>2, <1>3, <1>7
  <2>2. \A g \in Segment, s \in Slot : node'[g][s].pair \in Pair /\ node'[g][s].key # 0 =>
                                         owner[node'[g][s].key] = node'[g][s].pair
    <3>1. node[h][i].pair \in Pair => node[h][i].pair = q0
      BY <1>1, ShmAssumption DEF KInv, Placed, Zero
    <3> QED
      BY <1>2, <1>3, <3>1 DEF KInv, Numbered
  <2>3. \A g \in Segment, q \in Pair : stored'[g][q] <= writes
    BY <1>3, <1>6 DEF KInv, Numbered
  <2>4. \A r \in Process : pc'[r] \in Writing => pc[r] \in Writing
    BY <1>1 DEF Writing
  <2> QED
    BY <1>1, <2>1, <2>2, <2>3, <2>4 DEF KInv, Numbered
<1>10. Ahead'
  <2>1. \A r \in Process : base[r] \in 0 .. MaxWrite /\ base[r] <= writes
    BY DEF KInv, HInv, Numbered
  <2>2. \A g \in Segment, s \in Slot : node'[g][s].pair = node[g][s].pair
    BY <1>2
  <2>3. \A g \in Segment, s \in Slot :
          node'[g][s].key >= node[g][s].key /\ node'[g][s].key \in 0 .. MaxWrite
    BY <1>2, <1>3, <1>7
  <2>5. \A g \in Segment, s \in Slot, r \in Process :
          node[g][s].key >= base[r] => node'[g][s].key >= base[r]
    BY <1>7, <2>1, <2>3
  <2>6. \A r \in Process : /\ pc[r] = "copy" => node_i[r] \in Slot
                           /\ pc[r] \in {"read", "copy"} => seg[r] \in Segment
    BY DEF KInv, TInv, TypeOK
  <2>7. \A r \in Process : pc'[r] \in {"read", "copy"} =>
          pc'[r] = pc[r] /\ node_i'[r] = node_i[r]
    BY <1>1
  <2>8. \A r \in Process : pc'[r] = "copy" /\ calm'[r] =>
          /\ node'[seg'[r]][node_i'[r]].pair = arg'[r].pair
          /\ node'[seg'[r]][node_i'[r]].key >= base'[r]
    BY <1>1, <2>2, <2>5, <2>6, <2>7 DEF KInv, Ahead
  <2>9. \A r \in Process : pc'[r] = "read" /\ calm'[r] /\ base'[r] # 0 =>
          \E s \in Slot : /\ s >= node_i'[r] /\ node'[seg'[r]][s].pair = arg'[r].pair
                          /\ node'[seg'[r]][s].key >= base'[r]
    BY <1>1, <2>2, <2>5, <2>6, <2>7 DEF KInv, Ahead
  <2> QED
    BY <1>1, <2>7, <2>8, <2>9 DEF KInv, Ahead
<1>11. StoredStays'
  <2> SUFFICES ASSUME NEW g \in Segment, NEW q \in Pair, stored'[g][q] # 0
               PROVE  \E s \in Slot : /\ node'[g][s].pair = q
                                      /\ node'[g][s].key = stored'[g][q]
    BY DEF StoredStays
  <2>1. CASE g = h /\ q = q0
    <3>1. calm[p]
      BY <1>6, <2>1
    <3> QED
      BY <1>1, <1>2, <1>3, <1>5, <1>6, <2>1, <3>1
  <2>2. CASE g # h \/ q # q0
    <3>1. PICK s \in Slot : node[g][s].pair = q /\ node[g][s].key = stored[g][q]
      BY <1>6, <2>2 DEF KInv, StoredStays
    <3>2. g # h \/ s # i
      BY <1>5, <1>6, <2>2, <3>1
    <3> QED
      BY <1>2, <1>6, <2>2, <3>1, <3>2
  <2> QED
    BY <2>1, <2>2
<1>12. ReadFindsStored'
  BY <1>1, ReturnedStays DEF KInv
<1> QED
  BY <1>8, <1>9, <1>10, <1>11, <1>12

(* The steps of shmRead.                                                   *)
LEMMA ReadKInv ==
  ASSUME Alone, KInv, [Next]_vars, NEW p \in Process, NEW q \in Pair, Read(p, q) PROVE
         Placed' /\ Numbered' /\ Ahead' /\ StoredStays' /\ ReadFindsStored'
<1>1. /\ UNCHANGED <<node, seg, named, writes, got, stored, owner>>
      /\ seg[p] \in Segment /\ node_i'[p] = 0 /\ arg'[p].pair = q
      /\ base'[p] = stored[seg[p]][q] /\ calm'[p] = ~Opening(seg[p])
      /\ pc'[p] = IF Exists(seg[p]) THEN "read" ELSE "missing"
      /\ \A r \in Process \ {p} : /\ pc'[r] = pc[r] /\ node_i'[r] = node_i[r]
                                  /\ arg'[r] = arg[r] /\ calm'[r] = calm[r]
                                  /\ base'[r] = base[r]
  BY DEF Read, Idle, Goto, shm, KInv, TInv, TypeOK, HInv
<1>2. stored[seg[p]][q] \in 0 .. MaxWrite
  BY <1>1 DEF KInv, HInv
<1>3. Placed' /\ StoredStays'
  BY <1>1 DEF KInv, Placed, StoredStays
<1>4. Numbered'
  BY <1>1 DEF KInv, Numbered, Writing
<1>5. Ahead'
  <2>1. stored[seg[p]][q] # 0 =>
          \E s \in Slot : /\ s >= 0 /\ node[seg[p]][s].pair = q
                          /\ node[seg[p]][s].key >= stored[seg[p]][q]
    BY <1>1, <1>2 DEF KInv, StoredStays, Slot
  <2> QED
    BY <1>1, <2>1 DEF KInv, Ahead
<1>6. ReadFindsStored'
  <2>1. pc'[p] = "missing" => ~Exists(seg[p])'
    <3>1. seg[p] # NoSegment
      BY <1>1, ShmAssumption
    <3> QED
      BY <1>1, <3>1, GoneStays DEF KInv
  <2>2. Right(p)'
    BY <1>1, <2>1 DEF Right
  <2> QED
    BY <1>1, <2>2, ReturnedStays DEF KInv
<1> QED
  BY <1>3, <1>4, <1>5, <1>6

LEMMA ReadSlotKInv ==
  ASSUME Alone, KInv, [Next]_vars, NEW p \in Process, ReadSlot(p) PROVE
         Placed' /\ Numbered' /\ Ahead' /\ StoredStays' /\ ReadFindsStored'
<1> DEFINE n == node[seg[p]]
           i == node_i[p]
<1>1. /\ UNCHANGED <<node, seg, arg, writes, got, stored, calm, base, owner>>
      /\ pc[p] = "read" /\ i \in 0 .. MaxNode /\ arg[p].pair \in Pair /\ seg[p] \in Segment
      /\ pc'[p] \in {"missing", "copy", "read"}
      /\ \A r \in Process \ {p} : pc'[r] = pc[r] /\ node_i'[r] = node_i[r]
  BY DEF ReadSlot, Goto, shm, KInv, TInv, TypeOK, Ahead, history
<1>2. Placed' /\ StoredStays'
  BY <1>1 DEF KInv, Placed, StoredStays
<1>3. Numbered'
  BY <1>1 DEF KInv, Numbered, Writing
<1>0. ASSUME Right(p)' PROVE ReadFindsStored'
  BY <1>0, <1>1, ReturnedStays DEF KInv
<1>4. CASE ReadEnd(i)
  <2>1. pc'[p] = "missing"
    BY <1>4 DEF ReadSlot, Goto, KInv, TInv, TypeOK
  <2>2. \A s \in Slot : ~(s >= i)
    BY <1>4, ShmAssumption DEF ReadEnd, Slot
  <2>3. calm[p] => base[p] = 0
    BY <1>1, <2>2 DEF KInv, Ahead
  <2>4. Ahead'
    BY <1>1, <2>1 DEF KInv, Ahead
  <2>5. ReadFindsStored'
    <3>1. CASE calm[p]
      BY <1>0, <2>1, <2>3, <3>1, <1>1 DEF Right
    <3>2. CASE ~calm[p]
      BY <1>1, <3>2, ReturnedStays DEF KInv
    <3> QED
      BY <3>1, <3>2
  <2> QED
    BY <1>2, <1>3, <2>4, <2>5
<1>5. CASE ~ReadEnd(i) /\ Matches(p, i)
  <2>1. pc'[p] = "copy" /\ node_i'[p] = i /\ i \in Slot
    BY <1>1, <1>5, ShmAssumption DEF ReadSlot, Goto, KInv, TInv, TypeOK, ReadEnd, Slot
  <2>2. n[i].pair = arg[p].pair /\ arg[p].pair # NoPair
    BY <1>1, <1>5, ShmAssumption DEF Matches
  <2>3. calm[p] => n[i].key >= base[p]
    <3>1. CASE base[p] = 0
      BY <1>1, <2>1, <3>1 DEF KInv, TInv, TypeOK
    <3>2. CASE base[p] # 0 /\ calm[p]
      <4>1. PICK s \in Slot : n[s].pair = arg[p].pair /\ n[s].key >= base[p]
        BY <1>1, <3>2 DEF KInv, Ahead
      <4>2. s = i
        BY <1>1, <2>1, <2>2, <4>1 DEF KInv, UniquePair
      <4> QED
        BY <4>1, <4>2
    <3> QED
      BY <3>1, <3>2
  <2>4. Ahead'
    BY <1>1, <2>1, <2>2, <2>3 DEF KInv, Ahead
  <2>5. ReadFindsStored'
    BY <1>0, <2>1 DEF Right
  <2> QED
    BY <1>2, <1>3, <2>4, <2>5
<1>6. CASE ~ReadEnd(i) /\ ~Matches(p, i)
  <2>1. pc'[p] = "read" /\ node_i'[p] = i + 1
    BY <1>6 DEF ReadSlot, Goto, KInv, TInv, TypeOK
  <2>2. \A s \in Slot : s >= i /\ n[s].pair = arg[p].pair => s >= i + 1
    BY <1>1, <1>6 DEF Matches, Slot
  <2>3. Ahead'
    BY <1>1, <2>1, <2>2 DEF KInv, Ahead
  <2>4. ReadFindsStored'
    BY <1>0, <2>1 DEF Right
  <2> QED
    BY <1>2, <1>3, <2>3, <2>4
<1> QED
  BY <1>4, <1>5, <1>6

LEMMA ReadCopyKInv ==
  ASSUME Alone, KInv, [Next]_vars, NEW p \in Process, ReadCopy(p) PROVE
         Placed' /\ Numbered' /\ Ahead' /\ StoredStays' /\ ReadFindsStored'
<1> DEFINE r0 == node[seg[p]][node_i[p]]
<1>1. /\ UNCHANGED <<node, seg, arg, writes, stored, calm, base, owner>>
      /\ pc[p] = "copy" /\ pc'[p] = "found" /\ node_i[p] \in Slot /\ seg[p] \in Segment
      /\ got'[p] = r0 /\ arg[p].pair \in Pair
      /\ \A r \in Process \ {p} : /\ pc'[r] = pc[r] /\ node_i'[r] = node_i[r]
                                  /\ got'[r] = got[r]
  BY DEF ReadCopy, Goto, shm, KInv, TInv, TypeOK, HInv, Ahead
<1>2. Placed' /\ StoredStays' /\ Ahead'
  BY <1>1 DEF KInv, Placed, StoredStays, Ahead
<1>3. r0.key <= writes
  BY <1>1 DEF KInv, Numbered
<1>4. Numbered'
  BY <1>1, <1>3 DEF KInv, Numbered, Writing
<1>5. calm[p] => r0.key >= base[p] /\ (r0.key # 0 => owner[r0.key] = arg[p].pair)
  BY <1>1 DEF KInv, Ahead, Numbered
<1>6. ReadFindsStored'
  <2>1. CASE calm[p]
    <3>1. Right(p)'
      BY <1>1, <1>5, <2>1 DEF Right
    <3> QED
      BY <1>1, <3>1, ReturnedStays DEF KInv
  <2>2. CASE ~calm[p]
    BY <1>1, <2>2, ReturnedStays DEF KInv
  <2> QED
    BY <2>1, <2>2
<1> QED
  BY <1>2, <1>4, <1>6

LEMMA StepKInv == ASSUME Alone, KInv, [Next]_vars PROVE KInv'
<1>1. TInv' /\ HInv'
  BY StepTInv, StepHInv DEF KInv
<1>2. Missed' /\ UniquePair'
  BY StepMissed DEF KInv
<1>3. Placed' /\ Numbered' /\ Ahead' /\ StoredStays' /\ ReadFindsStored'
  <2>1. CASE UNCHANGED vars
    <3>1. Placed' /\ Numbered' /\ Ahead' /\ StoredStays'
      BY <2>1 DEF vars, shm, history, KInv, Placed, Numbered, Ahead, StoredStays
    <3>2. ReadFindsStored'
      BY <2>1, ReturnedStays DEF KInv, vars, shm, history
    <3> QED
      BY <3>1, <3>2
  <2>2. ASSUME NEW p \in Process, Kill(p) \/ AttachFails(p) \/ Quit(p)
        PROVE  Placed' /\ Numbered' /\ Ahead' /\ StoredStays' /\ ReadFindsStored'
    BY <2>2, EndKInv DEF Kill, AttachFails, Quit
  <2>3. CASE Next
    BY <2>2, <2>3, OpenKInv, AttachKInv, ClearKInv, WriteKInv, LoopKInv, HeadKInv, KeyKInv,
       ReadKInv, ReadSlotKInv, ReadCopyKInv DEF Next
  <2> QED
    BY <2>1, <2>3
<1> QED
  BY <1>1, <1>2, <1>3 DEF KInv

LEMMA KInvHolds == ASSUME Alone PROVE Spec => []KInv
<1>1. KInv /\ [Next]_vars => KInv'
  BY StepKInv
<1> QED
  BY <1>1, InitKInv, PTL DEF Spec

(* StoredStays: with one writer a key whose write has returned is in the   *)
(* segment it was written to, as long as some process has its id, until a  *)
(* key of the same pair replaces it, or a process that is started opens    *)
(* that segment; a process that is killed takes nothing with it, and one   *)
(* that leaves in good order the name of the segment.                      *)
THEOREM StoredKeyStays == ASSUME Alone PROVE Spec => []StoredStays
<1>1. KInv => StoredStays
  BY DEF KInv
<1> QED
  BY <1>1, KInvHolds, PTL

(* ReadFindsStored: with one writer, and unless its segment is opened      *)
(* during the call or gone before it, a read finds what was stored when it *)
(* began, or a later key of the same pair.                                 *)
THEOREM StoredIsFound == ASSUME Alone PROVE Spec => []ReadFindsStored
<1>1. KInv => ReadFindsStored
  BY DEF KInv
<1> QED
  BY <1>1, KInvHolds, PTL

-----------------------------------------------------------------------------
(* The segment with a name implements KeyTable.  A record is written in two*)
(* halves, and the first one changes no key of the table: the key of a slot*)
(* that is taken from the empty ones is still 0.                           *)

KeyIn(n, q) == LET S == {s \in Slot : n[s].pair = q}
               IN IF S = {} THEN 0 ELSE n[CHOOSE s \in S : \A t \in S : s <= t].key

Unique(n, q) == \A s, t \in Slot : n[s].pair = q /\ n[t].pair = q => s = t

TableKeys == [q \in Pair |-> IF named = NoSegment THEN 0 ELSE KeyOf(named, q)]

LEMMA KeyOfIsKeyIn ==
  \A g, q : KeyOf(g, q) = KeyIn(node[g], q) /\ KeyOf(g, q)' = KeyIn(node'[g], q)
  BY DEF KeyOf, KeyIn

LEMMA TableKeysNext ==
  TableKeys' = [q \in Pair |-> IF named' = NoSegment THEN 0 ELSE KeyIn(node'[named'], q)]
  BY DEF TableKeys, KeyOf, KeyIn

LEMMA KeyOfSlot ==
  ASSUME NEW n, NEW q, Unique(n, q), NEW s \in Slot, n[s].pair = q
  PROVE  KeyIn(n, q) = n[s].key
<1> DEFINE S == {t \in Slot : n[t].pair = q}
<1>1. S = {s}
  BY DEF Unique
<1>2. s <= s
  BY ShmAssumption DEF Slot
<1>3. (CHOOSE t \in S : \A u \in S : t <= u) = s
  <2> HIDE DEF S
  <2> QED
    BY <1>1, <1>2
<1> QED
  BY <1>1, <1>3 DEF KeyIn

LEMMA KeyOfNone ==
  ASSUME NEW n, NEW q, \A s \in Slot : n[s].pair # q PROVE KeyIn(n, q) = 0
<1>1. {s \in Slot : n[s].pair = q} = {}
  OBVIOUS
<1> QED
  BY <1>1 DEF KeyIn

(* What becomes of the key of a pair, if its slots and their keys stay.    *)
LEMMA KeyKept ==
  ASSUME NEW n, NEW m, NEW q, Unique(n, q),
         \A s \in Slot : (m[s].pair = q) = (n[s].pair = q),
         \A s \in Slot : n[s].pair = q => m[s].key = n[s].key
  PROVE  KeyIn(m, q) = KeyIn(n, q)
<1>1. Unique(m, q)
  BY DEF Unique
<1>2. CASE \E s \in Slot : n[s].pair = q
  BY <1>1, <1>2, KeyOfSlot
<1>3. CASE \A s \in Slot : n[s].pair # q
  BY <1>3, KeyOfNone
<1> QED
  BY <1>2, <1>3

(* The key of a slot of pair q is in the table before its write returns    *)
(* only if the pair was stored before.                                     *)
LEMMA RoomForKey ==
  ASSUME NEW n, NEW s \in Slot, n[s].pair \in Pair, KeyIn(n, n[s].pair) = 0
  PROVE  Cardinality({q \in Pair : KeyIn(n, q) # 0}) < MaxNode
<1> USE ShmAssumption
<1> DEFINE Rest == Slot \ {s}
           Held == {n[t].pair : t \in Rest}
           f == [t \in Rest |-> n[t].pair]
           K == {q \in Pair : KeyIn(n, q) # 0}
<1>1. IsFiniteSet(Slot) /\ Cardinality(Slot) = MaxNode
  <2>1. MaxNode - 1 \in Int /\ 0 \in Int
    OBVIOUS
  <2> QED
    BY <2>1, FS_Interval DEF Slot
<1>2. IsFiniteSet(Rest) /\ Cardinality(Rest) = MaxNode - 1
  BY <1>1, FS_RemoveElement
<1>3. f \in Surjection(Rest, Held)
  BY DEF Surjection
<1>4. IsFiniteSet(Held) /\ Cardinality(Held) <= Cardinality(Rest)
  BY <1>2, <1>3, FS_Surjection
<1>5. K \subseteq Held
  <2> SUFFICES ASSUME NEW q \in Pair, KeyIn(n, q) # 0 PROVE q \in Held
    OBVIOUS
  <2>1. PICK t \in Slot : n[t].pair = q
    BY KeyOfNone
  <2> QED
    BY <2>1
<1>6. IsFiniteSet(K) /\ Cardinality(K) <= Cardinality(Held)
  BY <1>4, <1>5, FS_Subset
<1>7. Cardinality(K) \in Nat /\ Cardinality(Held) \in Nat
  BY <1>4, <1>6, FS_CardinalityType
<1> QED
  BY <1>2, <1>4, <1>6, <1>7

(* A step that leaves the segment with a name, and the keys in it, as they *)
(* are is a step of the processes that open it, or none.                   *)
LEMMA SameKeys ==
  ASSUME TInv, TInv', named' = named,
         named # NoSegment =>
           \A q \in Pair : KeyIn(node'[named], q) = KeyIn(node[named], q)
  PROVE  [KT!KTNext]_<<TableKeys, Opening(named), named>>
<1>1. TableKeys' = TableKeys
  BY TableKeysNext, KeyOfIsKeyIn DEF TableKeys
<1>2. CASE named = NoSegment
  <2>1. Opening(named)' = Opening(named)
    BY <1>2 DEF Opening, TInv, TypeOK
  <2> QED
    BY <1>1, <2>1
<1>3. CASE named # NoSegment
  <2>1. Opening(named)' \in BOOLEAN
    BY DEF Opening
  <2>2. KT!Openings
    BY <1>1, <1>3, <2>1 DEF KT!Openings, TableKeys
  <2> QED
    BY <2>2 DEF KT!KTNext
<1> QED
  BY <1>2, <1>3

(* A step of the store is a step of the table.                             *)
LEMMA StepKeys ==
  ASSUME Alone, KInv, [Next]_vars
  PROVE  [KT!KTNext]_<<TableKeys, Opening(named), named>>
<1> USE ShmAssumption
<1>0. TInv /\ TypeOK /\ Placed /\ UniquePair /\ Missed
  BY DEF KInv, TInv
<1>00. TInv'
  BY <1>0, StepTInv
<1>1. \A g \in Segment, q \in Pair : Unique(node[g], q)
  BY <1>0 DEF UniquePair, Unique
<1>3. ASSUME node' = node, named' = named
      PROVE  [KT!KTNext]_<<TableKeys, Opening(named), named>>
  BY <1>0, <1>00, <1>3, SameKeys
<1>2. ASSUME NEW g \in Segment, named' = named, \A h \in Segment : h # g => node'[h] = node[h],
             named = g => \A q \in Pair : KeyIn(node'[g], q) = KeyIn(node[g], q)
      PROVE  [KT!KTNext]_<<TableKeys, Opening(named), named>>
  <2>1. named # NoSegment => \A q \in Pair : KeyIn(node'[named], q) = KeyIn(node[named], q)
    BY <1>0, <1>2 DEF TypeOK
  <2> QED
    BY <1>0, <1>00, <1>2, <2>1, SameKeys
<1>4. ASSUME NEW p \in Process, Clear(p)
      PROVE  [KT!KTNext]_<<TableKeys, Opening(named), named>>
  <2> DEFINE g == seg[p]
             i == node_i[p]
  <2>0. /\ pc[p] = "clear" /\ g \in Segment /\ named' = named /\ i \in 0 .. MaxNode
        /\ seg' = seg
    BY <1>0, <1>4 DEF Clear, TypeOK
  <2>1. CASE ~(i < MaxNode)
    BY <1>3, <1>4, <2>1 DEF Clear
  <2>2. CASE i < MaxNode
    <3>1. /\ i \in Slot /\ node'[g][i] = Zero
          /\ \A s \in Slot \ {i} : node'[g][s] = node[g][s]
          /\ \A h \in Segment : h # g => node'[h] = node[h]
          /\ pc'[p] = "clear"
      <4>1. i \in Slot
        BY <2>0, <2>2 DEF Slot
      <4> QED
        BY <1>0, <1>4, <2>0, <2>2, <4>1 DEF Clear, Goto, TypeOK
    <3>3. \A q \in Pair : node[g][i].pair # q => KeyIn(node'[g], q) = KeyIn(node[g], q)
      <4> SUFFICES ASSUME NEW q \in Pair, node[g][i].pair # q
                   PROVE  KeyIn(node'[g], q) = KeyIn(node[g], q)
        OBVIOUS
      <4>1. /\ \A s \in Slot : (node'[g][s].pair = q) = (node[g][s].pair = q)
            /\ \A s \in Slot : node[g][s].pair = q => node'[g][s].key = node[g][s].key
        BY <3>1 DEF Zero
      <4>2. Unique(node[g], q)
        BY <1>1, <2>0
      <4> QED
        BY <4>1, <4>2, KeyKept
    <3>4. CASE node[g][i].pair \in Pair /\ g = named
      <4> DEFINE q == node[g][i].pair
      <4>1. \A s \in Slot : node'[g][s].pair # q
        <5>1. Unique(node[g], q)
          BY <1>1, <2>0, <3>4
        <5> QED
          BY <3>1, <3>4, <5>1 DEF Unique, Zero
      <4>2. KeyIn(node'[g], q) = 0
        BY <4>1, KeyOfNone
      <4>3. TableKeys' = [TableKeys EXCEPT ![q] = 0]
        BY <2>0, <3>3, <3>4, <4>2, KeyOfIsKeyIn, TableKeysNext DEF TableKeys
      <4>4. Opening(named) /\ Opening(named)'
        BY <2>0, <3>1, <3>4 DEF Opening
      <4>5. KT!Forget(q)
        BY <2>0, <4>3, <4>4 DEF KT!Forget, TableKeys
      <4> QED
        BY <3>4, <4>5 DEF KT!KTNext
    <3>5. CASE node[g][i].pair \notin Pair \/ g # named
      BY <1>2, <2>0, <3>1, <3>3, <3>5
    <3> QED
      BY <3>4, <3>5
  <2> QED
    BY <2>1, <2>2
<1>5. ASSUME NEW p \in Process, StoreHead(p)
      PROVE  [KT!KTNext]_<<TableKeys, Opening(named), named>>
  <2> DEFINE g == seg[p]
             i == node_i[p]
  <2>1. pc[p] = "head" /\ i \in Slot /\ named' = named
    BY <1>0, <1>5 DEF StoreHead, TypeOK
  <2>2. p \in Writer /\ arg[p].pair \in Pair /\ g \in Segment
    BY <1>0, <2>1, OneWrites DEF Writing
  <2>3. /\ node'[g][i].pair = arg[p].pair /\ node'[g][i].key = node[g][i].key
        /\ \A s \in Slot : s # i => node'[g][s] = node[g][s]
        /\ \A h \in Segment : h # g => node'[h] = node[h]
    BY <1>0, <1>5, <2>1, <2>2 DEF StoreHead, TypeOK
  <2>4. ASSUME NEW q \in Pair PROVE KeyIn(node'[g], q) = KeyIn(node[g], q)
    <3>0. Unique(node[g], q)
      BY <1>1, <2>2
    <3>1. CASE node[g][i].pair = arg[p].pair \/ q # arg[p].pair
      <4>1. node[g][i] = Zero \/ node[g][i].pair = arg[p].pair
        BY <1>0, <2>1 DEF Placed
      <4>2. /\ \A s \in Slot : (node'[g][s].pair = q) = (node[g][s].pair = q)
            /\ \A s \in Slot : node[g][s].pair = q => node'[g][s].key = node[g][s].key
        BY <2>2, <2>3, <3>1, <4>1 DEF Zero
      <4> QED
        BY <3>0, <4>2, KeyKept
    <3>2. CASE node[g][i].pair # arg[p].pair /\ q = arg[p].pair
      <4>1. node[g][i] = Zero /\ node'[g][i].key = 0
        BY <1>0, <2>1, <2>3, <3>2 DEF Placed, Zero
      <4>2. \A s \in Slot : s # i => node[g][s].pair # q
        BY <1>0, <2>1, <2>2, <3>2 DEF Missed
      <4>3. \A s \in Slot : node[g][s].pair # q
        BY <3>2, <4>2
      <4>4. Unique(node'[g], q)
        BY <2>1, <2>3, <3>2, <4>2 DEF Unique
      <4> QED
        BY <2>1, <2>3, <3>2, <4>1, <4>3, <4>4, KeyOfSlot, KeyOfNone
    <3> QED
      BY <3>1, <3>2
  <2> QED
    BY <1>2, <2>1, <2>2, <2>3, <2>4
<1>6. ASSUME NEW p \in Process, StoreKey(p)
      PROVE  [KT!KTNext]_<<TableKeys, Opening(named), named>>
  <2> DEFINE g == seg[p]
             i == node_i[p]
             a == arg[p]
  <2>1. pc[p] = "key" /\ i \in Slot /\ named' = named
    BY <1>0, <1>6 DEF StoreKey, TypeOK
  <2>2. a.pair \in Pair /\ a.key \in 1 .. MaxWrite /\ g \in Segment
    BY <1>0, <2>1 DEF TInv, TypeOK, Writing, WriterOf
  <2>0. /\ node'[g][i].pair = node[g][i].pair /\ node'[g][i].key = a.key
        /\ \A s \in Slot : s # i => node'[g][s] = node[g][s]
        /\ \A h \in Segment : h # g => node'[h] = node[h]
    BY <1>0, <1>6, <2>1, <2>2 DEF StoreKey, TypeOK
  <2>3. \A q \in Pair : node[g][i].pair # q => KeyIn(node'[g], q) = KeyIn(node[g], q)
    <3> SUFFICES ASSUME NEW q \in Pair, node[g][i].pair # q
                 PROVE  KeyIn(node'[g], q) = KeyIn(node[g], q)
      OBVIOUS
    <3>1. /\ \A s \in Slot : (node'[g][s].pair = q) = (node[g][s].pair = q)
          /\ \A s \in Slot : node[g][s].pair = q => node'[g][s].key = node[g][s].key
      BY <2>0
    <3>2. Unique(node[g], q)
      BY <1>1, <2>2
    <3> QED
      BY <3>1, <3>2, KeyKept
  <2>4. CASE node[g][i].pair # a.pair \/ g # named
    <3>1. g = named => node[g][i].pair = NoPair
      BY <1>0, <2>1, <2>4 DEF Placed, Zero
    <3> QED
      BY <1>2, <2>0, <2>1, <2>2, <2>3, <3>1
  <2>5. CASE node[g][i].pair = a.pair /\ g = named
    <3>0. named # NoSegment
      BY <2>2, <2>5
    <3>1. a.pair \in KT!Known \/ KT!Cardinality(KT!Known) < MaxNode
      <4>0. \A S : KT!Cardinality(S) = Cardinality(S)
        BY DEF KT!Cardinality, Cardinality
      <4>1. KT!Known = {q \in Pair : KeyIn(node[g], q) # 0}
        BY <2>5, <3>0, KeyOfIsKeyIn DEF KT!Known
      <4>2. CASE KeyIn(node[g], a.pair) = 0
        BY <2>1, <2>2, <2>5, <4>0, <4>1, <4>2, RoomForKey
      <4>3. CASE KeyIn(node[g], a.pair) # 0
        BY <2>2, <4>1, <4>3
      <4> QED
        BY <4>2, <4>3
    <3>2. KeyIn(node'[g], a.pair) = a.key
      <4>1. Unique(node[g], a.pair)
        BY <1>1, <2>2
      <4>2. Unique(node'[g], a.pair)
        BY <2>0, <4>1 DEF Unique
      <4> QED
        BY <2>0, <2>1, <2>5, <4>2, KeyOfSlot
    <3>3. TableKeys' = [TableKeys EXCEPT ![a.pair] = a.key]
      BY <2>1, <2>2, <2>3, <2>5, <3>0, <3>2, KeyOfIsKeyIn, TableKeysNext DEF TableKeys
    <3>4. Opening(named)' = Opening(named)
      <4>1. /\ pc[p] # "clear" /\ "open" \in Pcs \ {"clear"} /\ Goto(p, "open", 0)
            /\ seg' = seg
        BY <1>6 DEF StoreKey, Pcs
      <4> QED
        BY <1>0, <2>1, <4>1, OpeningStays DEF Opening
    <3>5. KT!Store(a.pair, a.key)
      <4>1. named # NoSegment /\ UNCHANGED named
        BY <2>1, <3>0
      <4> QED
        BY <3>1, <3>3, <3>4, <4>1, Zenon DEF KT!Store, TableKeys
    <3> QED
      BY <2>2, <3>5 DEF KT!KTNext
  <2> QED
    BY <2>4, <2>5
<1>7. ASSUME NEW p \in Process, Open(p)
      PROVE  [KT!KTNext]_<<TableKeys, Opening(named), named>>
  <2>1. CASE named # NoSegment
    BY <1>3, <1>7, <2>1 DEF Open, shm
  <2>2. CASE named = NoSegment
    <3>1. PICK g \in Segment \ {seg[r] : r \in Process} :
            named' = g /\ seg' = [seg EXCEPT ![p] = g] /\ node' = [node EXCEPT ![g] = Empty]
      BY <1>7, <2>2 DEF Open
    <3>2. TableKeys' = [q \in Pair |-> 0]
      <4>1. \A q \in Pair : \A s \in Slot : node'[g][s].pair # q
        BY <1>0, <3>1 DEF Empty, Zero, TypeOK
      <4>2. \A q \in Pair : KeyIn(node'[g], q) = 0
        BY <4>1, KeyOfNone
      <4> QED
        BY <3>1, <4>2, TableKeysNext
    <3>3. ~Opening(named)
      BY <1>0, <2>2 DEF Opening, TypeOK
    <3>4. ~Opening(named)'
      <4>1. pc'[p] = "get" /\ \A r \in Process : r # p => seg'[r] # g
        BY <1>0, <1>7, <3>1 DEF Open, Goto, TypeOK
      <4> QED
        BY <3>1, <4>1 DEF Opening
    <3>5. named' # NoSegment
      BY <3>1
    <3>6. Opening(named)' = Opening(named)
      BY <3>3, <3>4 DEF Opening
    <3>7. KT!Create
      BY <2>2, <3>2, <3>5, <3>6 DEF KT!Create, KT!None, TableKeys
    <3> QED
      BY <3>7 DEF KT!KTNext
  <2> QED
    BY <2>1, <2>2
<1>8. ASSUME NEW p \in Process, Quit(p)
      PROVE  [KT!KTNext]_<<TableKeys, Opening(named), named>>
  <2>0. node' = node /\ seg[p] # NoSegment
    BY <1>0, <1>8 DEF Quit, End, Idle, TypeOK
  <2>1. CASE seg[p] # named
    BY <1>3, <1>8, <2>0, <2>1 DEF Quit
  <2>2. CASE seg[p] = named
    <3>1. named # NoSegment /\ named' = NoSegment
      BY <1>8, <2>0, <2>2 DEF Quit
    <3>2. TableKeys' = [q \in Pair |-> 0]
      BY <3>1, TableKeysNext
    <3>3. ~Opening(named)'
      BY <1>00, <3>1 DEF Opening, TInv, TypeOK
    <3>4. Opening(named)' = FALSE
      BY <3>3 DEF Opening
    <3>5. KT!Remove
      BY <3>1, <3>2, <3>4 DEF KT!Remove, KT!None, TableKeys
    <3> QED
      BY <3>5 DEF KT!KTNext
  <2> QED
    BY <2>1, <2>2
<1>9. ASSUME NEW p \in Process,
             \/ Attach(p) \/ AttachFails(p) \/ Kill(p)
             \/ Search(p) \/ FindFree(p) \/ ReadSlot(p) \/ ReadCopy(p)
             \/ \E q \in Pair : Write(p, q) \/ Read(p, q)
      PROVE  [KT!KTNext]_<<TableKeys, Opening(named), named>>
  <2>1. node' = node /\ named' = named
    BY <1>9 DEF Attach, AttachFails, Kill, End, Search, FindFree, ReadSlot, ReadCopy,
                Write, Read, shm
  <2> QED
    BY <1>3, <2>1
<1>10. CASE UNCHANGED vars
  BY <1>3, <1>10 DEF vars, shm
<1>11. CASE Next
  BY <1>4, <1>5, <1>6, <1>7, <1>8, <1>9, <1>11 DEF Next
<1> QED
  BY <1>10, <1>11

(* RefinesKeyTable: with one writer the segment that has a name, scanned   *)
(* from slot 0, is a table of keys, which changes when the second half of a*)
(* record is written, and then by one Store: a new pair is stored only if  *)
(* there is room, and no other pair loses its key.  Keys are forgotten only*)
(* while a process opens the segment, or all of them, when a process that  *)
(* leaves in good order removes it.                                        *)
THEOREM StoreRefines == ASSUME Alone PROVE Spec => RefinesKeyTable
<1>1. Init => KT!KTInit
  <2> SUFFICES ASSUME Init PROVE KT!KTInit
    OBVIOUS
  <2>1. named = NoSegment
    BY DEF Init
  <2>2. Opening(named) = FALSE
    BY DEF Init, Opening
  <2> QED
    BY <2>1, <2>2 DEF KT!KTInit, KT!None
<1>2. KInv /\ [Next]_vars => [KT!KTNext]_<<TableKeys, Opening(named), named>>
  BY StepKeys
<1> QED
  BY <1>1, <1>2, KInvHolds, PTL DEF Spec, RefinesKeyTable, KT!KTSpec, TableKeys
=============================================================================
