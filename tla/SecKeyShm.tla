----------------------------- MODULE SecKeyShm -----------------------------
(***************************************************************************)
(* The key store of the second generation: SecKeyShm.cpp over a System V   *)
(* segment (ShareMemory.cpp), an array of NodeSHMInfo that any number of   *)
(* processes attach.  There is no lock: a step is the comparison of one    *)
(* slot, one half of the memcpy into a record (its numbers and names, then *)
(* the key, in the order of the fields), the copy of a slot that a read has*)
(* found, the clearing of one slot, or one of shmget, shmat, shmctl.       *)
(*                                                                         *)
(* A process may be killed at any step, or leave in good order between two *)
(* calls, and be started again.  One that starts opens the store anew,     *)
(* which clears it under the others; one that leaves in good order removes *)
(* its segment.  A removed segment has no name any more: its id is still   *)
(* good for those that have it, as long as one of them is attached.        *)
(*                                                                         *)
(* A key is named by the number of the write that stores it, and seckeyID  *)
(* is that number too.                                                     *)
(***************************************************************************)
EXTENDS Integers, FiniteSets

CONSTANTS Writer,    \* processes that open the store and call shmWrite
          Reader,    \* processes that open the store and call shmRead
          Pair,      \* (clientID, serverID)
          MaxNode,   \* slots of the segment
          MaxWrite,  \* bound on the writes of all processes together
          NoPair,    \* the names of an empty slot
          Segment,   \* ids of segments: one is used again when nobody has it
          NoSegment  \* no segment

ASSUME ShmAssumption ==
  /\ MaxNode \in Nat \ {0} /\ MaxWrite \in Nat
  /\ NoPair \notin Pair
  /\ NoSegment \notin Segment

Process == Writer \cup Reader
Slot    == 0 .. MaxNode - 1
Zero    == [pair |-> NoPair, id |-> 0, key |-> 0]

Nothing == [pair |-> NoPair, key |-> 0]

VARIABLES
  named,   \* the segment that the IPC key leads to, or NoSegment
  node,    \* Segment -> Slot -> record
  seg,     \* Process -> its m_shmID
  pc,      \* Process -> where it stands
  node_i,  \* Process -> index of its loop
  arg,     \* Process -> the pair it looks for and the key it stores
  writes,  \* how many have been started
  got,     \* Process -> what its last read returned
  stored,  \* Segment -> Pair -> the last key whose write returned 0, if the
           \* segment has not been opened since (history)
  calm,    \* Process -> nobody was opening its segment since its call began,
           \* or since it wrote the first half of its record (history)
  base,    \* Process -> what was stored of its pair when its read began (history)
  owner    \* key -> the pair it was written for (history)

history == <<writes, got, stored, calm, base, owner>>
shm  == <<named, node>>
vars == <<shm, seg, pc, node_i, arg, history>>

Pcs == {"closed", "get", "clear", "open", "search", "free", "head", "key", "failed", "read",
        "copy", "found", "missing"}
Idle(p) == pc[p] \in {"open", "failed", "found", "missing"}

(* shmat by id: a segment without a name is gone once nobody is attached.  *)
Attached(p) == pc[p] \in {"clear", "search", "free", "head", "key", "read", "copy"}
Exists(g)   == g = named \/ \E p \in Process : Attached(p) /\ seg[p] = g

Empty == [s \in Slot |-> Zero]

Init ==
  /\ named = NoSegment
  /\ node = [g \in Segment |-> Empty]
  /\ seg = [p \in Process |-> NoSegment]
  /\ pc = [p \in Process |-> "closed"]
  /\ node_i = [p \in Process |-> 0]
  /\ arg = [p \in Process |-> Nothing]
  /\ writes = 0
  /\ got = [p \in Process |-> Zero]
  /\ stored = [g \in Segment |-> [q \in Pair |-> 0]]
  /\ calm = [p \in Process |-> FALSE]
  /\ base = [p \in Process |-> 0]
  /\ owner = [k \in 1 .. MaxWrite |-> NoPair]

Goto(p, l, n) == /\ pc' = [pc EXCEPT ![p] = l]
                 /\ node_i' = [node_i EXCEPT ![p] = n]

(* The constructor with a size.  shmget finds the segment of the key, or   *)
(* creates one, which is all zeros.                                        *)
Opening(g) == \E p \in Process : pc[p] = "clear" /\ seg[p] = g

Open(p) ==
  /\ pc[p] = "closed"
  /\ Goto(p, "get", 0)
  /\ \/ /\ named # NoSegment
        /\ seg' = [seg EXCEPT ![p] = named]
        /\ UNCHANGED <<shm, stored>>
     \/ /\ named = NoSegment
        /\ \E g \in Segment \ {seg[r] : r \in Process} :
             /\ named' = g
             /\ seg' = [seg EXCEPT ![p] = g]
             /\ node' = [node EXCEPT ![g] = Empty]
             /\ stored' = [stored EXCEPT ![g] = [q \in Pair |-> 0]]
  /\ UNCHANGED <<arg, writes, got, calm, base, owner>>

(* From here the segment is cleared, new or not, from its first byte to its*)
(* last: what was stored is lost.                                          *)
Attach(p) ==
  /\ pc[p] = "get" /\ Exists(seg[p])
  /\ Goto(p, "clear", 0)
  /\ stored' = [stored EXCEPT ![seg[p]] = [q \in Pair |-> 0]]
  /\ calm' = [r \in Process |-> calm[r] /\ seg[r] # seg[p]]
  /\ UNCHANGED <<shm, seg, arg, writes, got, base, owner>>

Clear(p) ==
  /\ pc[p] = "clear"
  /\ IF node_i[p] < MaxNode
       THEN /\ node' = [node EXCEPT ![seg[p]][node_i[p]] = Zero]
            /\ Goto(p, "clear", node_i[p] + 1)
       ELSE Goto(p, "open", 0) /\ node' = node
  /\ UNCHANGED <<named, seg, arg, history>>

(* A process ends.                                                         *)
End(p) ==
  /\ Goto(p, "closed", 0)
  /\ seg' = [seg EXCEPT ![p] = NoSegment]
  /\ arg' = [arg EXCEPT ![p] = Nothing]
  /\ got' = [got EXCEPT ![p] = Zero]
  /\ calm' = [calm EXCEPT ![p] = FALSE]
  /\ base' = [base EXCEPT ![p] = 0]
  /\ UNCHANGED <<node, writes, stored, owner>>

\* The segment is gone: shmat returns -1, and memset writes to that address.
AttachFails(p) ==
  /\ pc[p] = "get" /\ ~Exists(seg[p])
  /\ End(p)
  /\ UNCHANGED named

Kill(p) ==
  /\ pc[p] # "closed"
  /\ End(p)
  /\ UNCHANGED named

(* ~ClientOperation calls delShm: the segment loses its name, if it has it.*)
Quit(p) ==
  /\ Idle(p)
  /\ End(p)
  /\ named' = IF seg[p] = named THEN NoSegment ELSE named

-----------------------------------------------------------------------------
(* shmWrite                                                                *)

\* Mutant of LoopEnd: the loops stop before the last slot.
LoopEndShort(n) == n = MaxNode - 1
LoopEnd(n) == n = MaxNode

Matches(p, s) == node[seg[p]][s].pair = arg[p].pair

Write(p, q) ==
  /\ p \in Writer /\ Idle(p) /\ writes < MaxWrite
  /\ Goto(p, IF Exists(seg[p]) THEN "search" ELSE "failed", 0)
  /\ writes' = writes + 1
  /\ arg' = [arg EXCEPT ![p] = [pair |-> q, key |-> writes + 1]]
  /\ owner' = [owner EXCEPT ![writes + 1] = q]
  /\ calm' = [calm EXCEPT ![p] = ~Opening(seg[p])]
  /\ UNCHANGED <<shm, seg, got, stored, base>>

(* The first loop looks for the pair, to overwrite its key.                *)
\* Mutant of Search: a known pair is not looked for.
SearchNothing(p) ==
  /\ pc[p] = "search"
  /\ Goto(p, "free", 0)
  /\ UNCHANGED <<shm, seg, arg, history>>

Search(p) ==
  /\ pc[p] = "search"
  /\ IF LoopEnd(node_i[p]) THEN Goto(p, "free", 0)
     ELSE IF Matches(p, node_i[p]) THEN Goto(p, "head", node_i[p])
     ELSE Goto(p, "search", node_i[p] + 1)
  /\ UNCHANGED <<shm, seg, arg, history>>

(* The second loop looks for a slot that is all zeros.                     *)
\* Mutant of FreeSlot: any slot of another pair is taken for free.
FreeAny(p, s)  == TRUE
FreeSlot(p, s) == node[seg[p]][s] = Zero

\* Mutant of FindFree: a full segment is written past its end.
FindFreeAlways(p) ==
  /\ pc[p] = "free"
  /\ IF LoopEnd(node_i[p]) \/ FreeSlot(p, node_i[p])
       THEN Goto(p, "head", node_i[p])
       ELSE Goto(p, "free", node_i[p] + 1)
  /\ UNCHANGED <<shm, seg, arg, history>>

FindFree(p) ==
  /\ pc[p] = "free"
  /\ IF LoopEnd(node_i[p]) THEN Goto(p, "failed", node_i[p])
     ELSE IF FreeSlot(p, node_i[p]) THEN Goto(p, "head", node_i[p])
     ELSE Goto(p, "free", node_i[p] + 1)
  /\ UNCHANGED <<shm, seg, arg, history>>

StoreHead(p) ==
  /\ pc[p] = "head"
  /\ node' = [node EXCEPT ![seg[p]][node_i[p]].pair = arg[p].pair,
                          ![seg[p]][node_i[p]].id = arg[p].key]
  /\ Goto(p, "key", node_i[p])
  /\ calm' = [calm EXCEPT ![p] = ~Opening(seg[p])]
  /\ UNCHANGED <<named, seg, arg, writes, got, stored, base, owner>>

(* A key is stored unless its record was cleared between the two halves.   *)
StoreKey(p) ==
  /\ pc[p] = "key"
  /\ node' = [node EXCEPT ![seg[p]][node_i[p]].key = arg[p].key]
  /\ Goto(p, "open", 0)
  /\ stored' = IF calm[p]
                 THEN [stored EXCEPT ![seg[p]][arg[p].pair] = arg[p].key]
                 ELSE stored
  /\ UNCHANGED <<named, seg, arg, writes, got, calm, base, owner>>

-----------------------------------------------------------------------------
(* shmRead                                                                 *)

Read(p, q) ==
  /\ p \in Reader /\ Idle(p)
  /\ Goto(p, IF Exists(seg[p]) THEN "read" ELSE "missing", 0)
  /\ arg' = [arg EXCEPT ![p] = [pair |-> q, key |-> 0]]
  /\ calm' = [calm EXCEPT ![p] = ~Opening(seg[p])]
  /\ base' = [base EXCEPT ![p] = stored[seg[p]][q]]
  /\ UNCHANGED <<shm, seg, writes, got, stored, owner>>

\* Mutant of ReadEnd: the last slot is not read.
ReadEndShort(n) == n = MaxNode - 1
ReadEnd(n)      == n = MaxNode

ReadSlot(p) ==
  /\ pc[p] = "read"
  /\ IF ReadEnd(node_i[p]) THEN Goto(p, "missing", 0)
     ELSE IF Matches(p, node_i[p]) THEN Goto(p, "copy", node_i[p])
     ELSE Goto(p, "read", node_i[p] + 1)
  /\ UNCHANGED <<shm, seg, arg, history>>

(* The slot is copied whatever it holds by now.                            *)
ReadCopy(p) ==
  /\ pc[p] = "copy"
  /\ Goto(p, "found", 0)
  /\ got' = [got EXCEPT ![p] = node[seg[p]][node_i[p]]]
  /\ UNCHANGED <<shm, seg, arg, writes, stored, calm, base, owner>>

Next == \E p \in Process :
          \/ Open(p) \/ Attach(p) \/ AttachFails(p) \/ Clear(p) \/ Kill(p) \/ Quit(p)
          \/ Search(p) \/ FindFree(p) \/ StoreHead(p) \/ StoreKey(p)
          \/ ReadSlot(p) \/ ReadCopy(p)
          \/ \E q \in Pair : Write(p, q) \/ Read(p, q)

Spec == Init /\ [][Next]_vars

-----------------------------------------------------------------------------
(* Properties                                                              *)

(* Slots hold records and processes stand at a slot or past the last one.  *)
(* An open store has an id.                                                *)
TypeOK ==
  /\ named \in Segment \cup {NoSegment}
  /\ node \in [Segment -> [Slot -> [pair : Pair \cup {NoPair}, id : 0 .. MaxWrite,
                                   key : 0 .. MaxWrite]]]
  /\ seg \in [Process -> Segment \cup {NoSegment}]
  /\ pc \in [Process -> Pcs]
  /\ node_i \in [Process -> 0 .. MaxNode]
  /\ arg \in [Process -> [pair : Pair \cup {NoPair}, key : 0 .. MaxWrite]]
  /\ \A p \in Process : pc[p] \in {"head", "key", "copy"} => node_i[p] \in Slot
  /\ \A p \in Process : seg[p] = NoSegment <=> pc[p] = "closed"

(* SecKeyShm.cpp:49: the key of a known pair replaces the old one: a pair  *)
(* is in one slot of a segment, or a later write and a read may disagree on*)
(* which.                                                                  *)
UniquePair ==
  \A g \in Segment : \A s, t \in Slot :
    node[g][s].pair = node[g][t].pair /\ node[g][s].pair # NoPair => s = t

(* SecKeyShm.cpp:36, :56: a write fails only if its segment is gone, as    *)
(* another client has left in good order, or no slot was free: whoever else*)
(* writes meanwhile, every slot is taken when shmWrite returns -1, unless  *)
(* a process that opens the store has cleared some since the call began.   *)
FailsOnlyIfFull ==
  \A p \in Process : pc[p] = "failed" /\ calm[p] =>
    \/ ~Exists(seg[p])
    \/ \A s \in Slot : node[seg[p]][s] # Zero

(* SecKeyShm.cpp:101: unless the store is opened during the call, or its   *)
(* segment is gone before it, a read finds a pair whose write had returned *)
(* before it began, and what it copies, after it compared the slot, is a   *)
(* key of that pair, and no older one, whatever is written meanwhile and   *)
(* whoever removes the segment.                                            *)
ReadFindsStored ==
  \A p \in Process : calm[p] =>
    /\ pc[p] = "missing" => base[p] = 0 \/ ~Exists(seg[p])
    /\ pc[p] = "found" => /\ got[p].key # 0 => owner[got[p].key] = arg[p].pair
                          /\ got[p].key >= base[p]

(* ShareMemory.cpp:75: a key whose write has returned 0 is in the segment  *)
(* it was written to until a key of the same pair replaces it, or some     *)
(* process opens that segment.  A write that meets an opening loses its key*)
(* only if this comes between the two halves of the record.                *)
StoredStays ==
  \A g \in Segment : \A q \in Pair : stored[g][q] # 0 =>
    \E s \in Slot : node[g][s].pair = q /\ node[g][s].key = stored[g][q]

(* Refinement: the table is the segment that the IPC key leads to, with the*)
(* keys found by scanning it from slot 0.                                  *)
KeyOf(g, q) == LET S == {s \in Slot : node[g][s].pair = q}
               IN IF S = {} THEN 0
                  ELSE node[g][CHOOSE s \in S : \A t \in S : s <= t].key

KT == INSTANCE KeyTable WITH Key <- 1 .. MaxWrite, NoKey <- 0, Room <- MaxNode,
                             NoTable <- NoSegment,
                             keys <- [q \in Pair |-> IF named = NoSegment THEN 0
                                                     ELSE KeyOf(named, q)],
                             opening <- Opening(named), table <- named
RefinesKeyTable == KT!KTSpec
=============================================================================
