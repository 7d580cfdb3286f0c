------------------------------ MODULE KeyTable ------------------------------
(***************************************************************************)
(* What the shared-memory key stores promise: a map from (client, server)  *)
(* pairs to keys with room for a fixed number of pairs.  Storing the key of*)
(* a known pair replaces it; a new pair is stored only if there is room.   *)
(* A key is lost only while some process opens the table, or with the whole*)
(* table, when a process removes it; the next one is another table.        *)
(***************************************************************************)
EXTENDS Naturals, FiniteSets

CONSTANTS Pair, Key, NoKey, Room,
          NoTable   \* there is no table

VARIABLES keys,     \* Pair -> its key, or NoKey
          opening,  \* some process is opening the table
          table     \* the table that can be opened, or NoTable

Known == {p \in Pair : keys[p] # NoKey}
None  == [p \in Pair |-> NoKey]

KTInit == keys = None /\ opening = FALSE /\ table = NoTable

Store(p, k) ==
  /\ table # NoTable
  /\ p \in Known \/ Cardinality(Known) < Room
  /\ keys' = [keys EXCEPT ![p] = k]
  /\ UNCHANGED <<opening, table>>

Forget(p) ==
  /\ opening
  /\ keys' = [keys EXCEPT ![p] = NoKey]
  /\ UNCHANGED <<opening, table>>

Openings ==
  /\ table # NoTable
  /\ opening' \in BOOLEAN
  /\ UNCHANGED <<keys, table>>

Create ==
  /\ table = NoTable /\ table' # NoTable
  /\ keys' = None
  /\ UNCHANGED opening

Remove ==
  /\ table # NoTable /\ table' = NoTable
  /\ keys' = None
  /\ opening' = FALSE

KTNext == \/ \E p \in Pair, k \in Key : Store(p, k)
          \/ \E p \in Pair : Forget(p)
          \/ Openings \/ Create \/ Remove

KTSpec == KTInit /\ [][KTNext]_<<keys, opening, table>>
=============================================================================
