-------------------------- MODULE MCKeyArrangement --------------------------
EXTENDS KeyArrangement

CONSTANTS p1, c1, c2

\* main.cpp makes the first call; a second one on the same object is legal.
TwoCalls == [p \in Process |-> <<c1, c2>>]

OneBeatEach == [c \in Client |-> 1]
=============================================================================
