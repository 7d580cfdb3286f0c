----------------------------- MODULE Agreement -----------------------------
(***************************************************************************)
(* What ServerOperation::secKeyAgree and ClientOperation::secKeyAgree      *)
(* promise together: a session makes at most one key, on the server, and a *)
(* client takes no key but one that was made for a session of its own,     *)
(* each session at most once and none after a later one.                   *)
(***************************************************************************)
EXTENDS Naturals

CONSTANTS Client, Rounds, R2

Session == UNION {{c} \X (1 .. Rounds[c]) : c \in Client}

VARIABLES made,   \* Session -> the server's random numbers it made keys of
          taken   \* Client -> the last session it took a key of, and the key

Init == /\ made = [s \in Session |-> {}]
        /\ taken = [c \in Client |-> [round |-> 0, r2 |-> {}]]

Make(s) == /\ made[s] = {}
           /\ \E r \in R2 : made' = [made EXCEPT ![s] = {r}]
           /\ UNCHANGED taken

Take(c) == /\ \E n \in 1 .. Rounds[c] :
                /\ n > taken[c].round
                /\ made[<<c, n>>] # {}
                /\ taken' = [taken EXCEPT ![c] = [round |-> n, r2 |-> made[<<c, n>>]]]
           /\ UNCHANGED made

Next == (\E s \in Session : Make(s)) \/ (\E c \in Client : Take(c))

Spec == Init /\ [][Next]_<<made, taken>>
=============================================================================
