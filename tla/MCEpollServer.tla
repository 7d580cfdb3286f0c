--------------------------- MODULE MCEpollServer ---------------------------
EXTENDS EpollServer, TLC

CONSTANTS c1, c2

AlikeWorkers == Permutations(Worker)

NoBeats  == [c \in Client |-> 0]
OneBeats == [c \in Client |-> IF c = c1 THEN 1 ELSE 0]
=============================================================================
