---------------------------- MODULE MCThreadPool ----------------------------
(***************************************************************************)
(* Instances of ThreadPool for TLC.                                        *)
(***************************************************************************)
EXTENDS ThreadPool, TLC

\* Every task has an argument block of its own (clientop's test main).
OwnArg == [t \in Task |-> t]

\* One task has an argument of its own, the others share one, as all the
\* tasks of the epoll server do.
Loner  == CHOOSE t \in Task : TRUE
Sharer == CHOOSE t \in Task \ {Loner} : TRUE
OneOwn == [t \in Task |-> IF t = Loner THEN Loner ELSE Sharer]
OneOwnArgs == {Loner, Sharer}

TaskSymmetry == Permutations(Task) \cup Permutations(Caller)

OnlyZero == {0}
AnySmall == {-1, 0, 1}
=============================================================================
