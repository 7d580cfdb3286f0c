------------------------- MODULE MCSecKeyAgreement -------------------------
EXTENDS SecKeyAgreement

Once == [c \in Client |-> 1]

\* One client comes back for a second key.
OneTwice == [Once EXCEPT ![CHOOSE c \in Client : TRUE] = 2]
=============================================================================
