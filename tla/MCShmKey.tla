------------------------------ MODULE MCShmKey ------------------------------
(***************************************************************************)
(* Instances of ShmKey for TLC.                                            *)
(***************************************************************************)
EXTENDS ShmKey, TLC

Symmetry == Permutations(Process) \cup Permutations(Pair) \cup Permutations(KeyId)
=============================================================================
