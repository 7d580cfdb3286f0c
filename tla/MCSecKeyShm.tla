---------------------------- MODULE MCSecKeyShm ----------------------------
(***************************************************************************)
(* Instances of SecKeyShm for TLC.                                         *)
(***************************************************************************)
EXTENDS SecKeyShm, TLC

Symmetry == Permutations(Pair) \cup Permutations(Segment)
=============================================================================
