----------------------- MODULE SecKeyAgreementProofs -----------------------
(***************************************************************************)
(* Proofs about SecKeyAgreement: its type invariant, that it implements    *)
(* Agreement, and, if a thread finds its socket in the map, that no entry  *)
(* of the map outlives its thread; with any number of clients, threads and *)
(* descriptors and under the faults of the model: threads that find the    *)
(* wrong descriptor or none, accept without a descriptor left, a port that *)
(* is taken, strangers, killed clients, timeouts, SIGUSR1.                 *)
(*                                                                         *)
(* Then on which conditions a thread works on its own socket, and on which *)
(* the server outlives every agreement.                                    *)
(***************************************************************************)
EXTENDS SecKeyAgreement, FiniteSetTheorems, WellFoundedInduction, TLAPS

Answer == [to : Client, r2 : R2]

Types ==
  /\ TypeOK
  /\ up \in [Session -> Seq(Session \cup {Length})]
  /\ down \in [Session -> Seq(Answer \cup {Junk})]
  /\ outData \in [Thread -> Answer \cup {Junk, None}]

(* A thread that has read a request and not yet closed its socket.         *)
Serving(t) == pc[t] \in {"agree", "send", "close"}

(* A session whose request is not sent yet.                                *)
Unsent(s) == \/ s[2] > round[s[1]]
             \/ s[2] = round[s[1]] /\ cpc[s[1]] = "connected"

(* A request is on its way at most once, and no key is made before it has  *)
(* arrived.                                                                *)
RequestOnce ==
  \A s \in Session : /\ up[s] \in {<< >>, <<Length, s>>, <<s>>}
                     /\ up[s] # << >> => made[s] = {}

UnsentUnserved ==
  \A s \in Session : Unsent(s) =>
    /\ up[s] = << >> /\ made[s] = {}
    /\ \A t \in Thread : Serving(t) => reqmsg[t] # s

(* Whatever descriptor a thread was given: the request it has read came    *)
(* over it, and it is still open for that session.  No other thread serves *)
(* the session, which is why none closes the descriptor.                   *)
ServesPeer ==
  \A t \in Thread : Serving(t) =>
    /\ sock[t] \in Fd /\ reqmsg[t] \in Session /\ reqmsg[t] # None
    /\ peer[sock[t]] = reqmsg[t] /\ up[reqmsg[t]] = << >>

ServesAlone ==
  \A t, u \in Thread : Serving(t) /\ Serving(u) /\ t # u => reqmsg[t] # reqmsg[u]

KeyOfThread ==
  \A t \in Thread :
    /\ pc[t] = "agree" => made[reqmsg[t]] = {}
    /\ pc[t] = "send" /\ outData[t] \notin {None, Junk} =>
         made[reqmsg[t]] = {outData[t].r2}

KeyOnItsWay ==
  \A s \in Session : \A i \in 1 .. Len(down[s]) :
    down[s][i] # Junk => made[s] = {down[s][i].r2}

TakesNext ==
  \A c \in Client : cpc[c] \in {"connected", "waiting"} => taken[c].round < round[c]

SInv == /\ Types /\ RequestOnce /\ UnsentUnserved /\ ServesPeer /\ ServesAlone
        /\ KeyOfThread /\ KeyOnItsWay /\ TakesNext

-----------------------------------------------------------------------------
LEMMA MinIsMember == ASSUME NEW T, T \subseteq Nat, T # {} PROVE Min(T) \in T
<1> DEFINE Less == OpToRel(<, Nat)
<1>1. IsWellFoundedOn(Less, Nat)
  BY NatLessThanWellFounded
<1>2. PICK x \in T : \A y \in T : <<y, x>> \notin Less
  <2> HIDE DEF Less
  <2> QED BY <1>1, WFMin
<1>3. \A y \in T : ~(y < x)
  BY <1>2 DEF OpToRel
<1> HIDE DEF Less
<1>4. \A y \in T : x =< y
  BY <1>3
<1> QED
  BY <1>4, Zenon DEF Min

LEMMA SessionIsPair ==
  /\ \A c \in Client : \A n \in 1 .. Rounds[c] : <<c, n>> \in Session
  /\ \A s \in Session : /\ s = <<s[1], s[2]>> /\ s[1] \in Client
                        /\ s[2] \in 1 .. Rounds[s[1]]
                        /\ s # Length
<1>1. \A c \in Client : \A n \in 1 .. Rounds[c] : <<c, n>> \in Session
  BY DEF Session
<1>2. ASSUME NEW s \in Session
      PROVE  /\ s = <<s[1], s[2]>> /\ s[1] \in Client /\ s[2] \in 1 .. Rounds[s[1]]
             /\ s # Length
  <2>1. PICK c \in Client : s \in {c} \X (1 .. Rounds[c])
    BY DEF Session
  <2>2. PICK n \in 1 .. Rounds[c] : s = <<c, n>>
    BY <2>1
  <2>3. Len(s) = 2 /\ Len(Length) = 1
    BY <2>2 DEF Length
  <2> QED
    BY <2>2, <2>3
<1> QED
  BY <1>1, <1>2

LEMMA InitSInv == Init => SInv
<1> SUFFICES ASSUME Init PROVE SInv
  OBVIOUS
<1> USE AgreementAssumption DEF AgreementAssumption
<1>1. Types
  <2>1. /\ up \in [Session -> Seq(Session \cup {Length})]
        /\ down \in [Session -> Seq(Answer \cup {Junk})]
        /\ outData \in [Thread -> Answer \cup {Junk, None}]
    BY DEF Init
  <2>2. taken \in [Client -> [round : Nat, r2 : SUBSET R2]]
    BY DEF Init
  <2>3. /\ backlog \in Seq(Session) /\ round \in [Client -> Nat]
        /\ \A c \in Client : taken[c].round <= round[c] /\ round[c] <= Rounds[c]
    BY DEF Init
  <2> QED
    BY <2>1, <2>2, <2>3 DEF Init, Types, TypeOK
<1>2. ~\E t \in Thread : Serving(t)
  BY DEF Init, Serving
<1>3. RequestOnce /\ KeyOnItsWay /\ TakesNext
  BY DEF Init, RequestOnce, KeyOnItsWay, TakesNext
<1>4. UnsentUnserved /\ ServesPeer /\ ServesAlone /\ KeyOfThread
  BY <1>2 DEF Init, UnsentUnserved, ServesPeer, ServesAlone, KeyOfThread, Serving
<1> QED
  BY <1>1, <1>3, <1>4 DEF SInv
LEMMA NowIsSession ==
  ASSUME Types, TakesNext, NEW c \in Client, cpc[c] \in {"connected", "waiting"}
  PROVE  Now(c) \in Session /\ Now(c)[1] = c /\ Now(c)[2] = round[c]
<1>1. round[c] \in 1 .. Rounds[c]
  BY AgreementAssumption DEF AgreementAssumption, Types, TypeOK, TakesNext
<1> QED
  BY <1>1, SessionIsPair DEF Now

(* Only what is at the head of a stream is taken out of it.                *)
LEMMA ReceiveTypes ==
  ASSUME Types, NEW t \in Thread, Receivable(t), Receive(t)
  PROVE  /\ up' \in [Session -> Seq(Session \cup {Length})]
         /\ Received(t) \in Session \cup {Length}
         /\ peer[sock[t]] \in Session /\ sock[t] \in Fd
<1>1. sock[t] \in Fd /\ peer[sock[t]] \in Session
  BY DEF Types, TypeOK, Receivable, IsOpen
<1> DEFINE s == peer[sock[t]]
<1>2. up[s] \in Seq(Session \cup {Length}) /\ up[s] # << >>
  BY <1>1 DEF Types, Receivable
<1>3. Head(up[s]) \in Session \cup {Length} /\ Tail(up[s]) \in Seq(Session \cup {Length})
  BY <1>2
<1> QED
  BY <1>1, <1>3 DEF Types, Receive, Received

LEMMA StepTypes == SInv /\ [Next]_vars => Types'
<1> SUFFICES ASSUME SInv, [Next]_vars PROVE Types'
  OBVIOUS
<1> USE AgreementAssumption DEF AgreementAssumption
<1>0. Types /\ TypeOK /\ ServesPeer /\ TakesNext
  BY DEF SInv, Types
<1> USE <1>0
<1>1. ASSUME Crash PROVE Types'
  BY <1>1 DEF Types, TypeOK, kernel, mainVars, working, clients, Crash
<1>2. ASSUME Signal PROVE Types'
  BY <1>2 DEF Types, TypeOK, kernel, mainVars, working, clients, Signal
<1>3. ASSUME SetListen PROVE Types'
  BY <1>3 DEF Types, TypeOK, kernel, mainVars, working, clients, SetListen
<1>4. ASSUME MainStop PROVE Types'
  BY <1>4 DEF Types, TypeOK, kernel, mainVars, working, clients, MainStop
<1>5. ASSUME MainLoop PROVE Types'
  BY <1>5 DEF Types, TypeOK, kernel, mainVars, working, clients, MainLoop
<1>6. ASSUME MainAccept PROVE Types'
  <2>1. mfd' \in Fd
    <3>1. FreeFd \subseteq Nat /\ FreeFd # {}
      BY <1>6 DEF MainAccept, FreeFd
    <3> QED
      BY <1>6, <3>1, MinIsMember DEF MainAccept, FreeFd
  <2>2. Head(backlog) \in Session /\ Tail(backlog) \in Seq(Session)
    BY <1>6 DEF MainAccept, TypeOK
  <2> QED
    BY <1>6, <2>1, <2>2 DEF Types, TypeOK, kernel, mainVars, working, clients, MainAccept
<1>7. ASSUME MainAcceptFails PROVE Types'
  BY <1>7 DEF Types, TypeOK, kernel, mainVars, working, clients, MainAcceptFails
<1>8. ASSUME MainAcceptTimeout PROVE Types'
  BY <1>8 DEF Types, TypeOK, kernel, mainVars, working, clients, MainAcceptTimeout
<1>9. ASSUME MainCreate PROVE Types'
  BY <1>9 DEF Types, TypeOK, kernel, mainVars, working, clients, MainCreate
<1>10. ASSUME MainInsertBegin PROVE Types'
  BY <1>10 DEF Types, TypeOK, kernel, mainVars, working, clients, MainInsertBegin, Enter
<1>11. ASSUME MainInsertEnd PROVE Types'
  BY <1>11 DEF Types, TypeOK, kernel, mainVars, working, clients, MainInsertEnd, Leave
<1>12. ASSUME NEW t \in Thread, LookupBegin(t) PROVE Types'
  BY <1>12 DEF Types, TypeOK, kernel, mainVars, working, clients, LookupBegin, At, Goto, Enter
<1>13. ASSUME NEW t \in Thread, LookupEnd(t) PROVE Types'
  BY <1>13 DEF Types, TypeOK, kernel, mainVars, working, clients, LookupEnd, At, Goto, Leave
<1>14. ASSUME NEW t \in Thread, RecvHeader(t) PROVE Types'
  <2>1. up' \in [Session -> Seq(Session \cup {Length})]
    BY <1>14, ReceiveTypes DEF RecvHeader
  <2> QED
    BY <1>14, <2>1 DEF Types, TypeOK, kernel, mainVars, working, clients, RecvHeader, At, Goto
<1>15. ASSUME NEW t \in Thread, RecvBody(t) PROVE Types'
  <2>1. up' \in [Session -> Seq(Session \cup {Length})] /\ Received(t) \in Session
    BY <1>15, ReceiveTypes DEF RecvBody
  <2> QED
    BY <1>15, <2>1 DEF Types, TypeOK, kernel, mainVars, working, clients, RecvBody, At, Goto
<1>16. ASSUME NEW t \in Thread, Agree(t) PROVE Types'
  <2>1. reqmsg[t] \in Session /\ reqmsg[t][1] \in Client
    BY <1>16, SessionIsPair DEF Agree, At, ServesPeer, Serving
  <2>2. made' \in [Session -> SUBSET R2]
    BY <1>16, <2>1 DEF Agree, TypeOK
  <2>3. outData' \in [Thread -> Answer \cup {Junk, None}]
    BY <1>16, <2>1 DEF Agree, Types, Answer
  <2> QED
    BY <1>16, <2>2, <2>3 DEF Types, TypeOK, kernel, mainVars, working, clients, Agree, At, Goto
<1>17. ASSUME NEW t \in Thread, Refuse(t) PROVE Types'
  <2>1. outData' \in [Thread -> Answer \cup {Junk, None}]
    BY <1>17 DEF Refuse, Types
  <2>2. /\ UNCHANGED <<kernel, server, mainVars, m_listSocket, inMap, sock, reqmsg, made, clients>>
        /\ pc' = [pc EXCEPT ![t] = "send"]
    BY <1>17 DEF Refuse, Goto
  <2>3. pc' \in [Thread -> {"none", "start", "lookup", "header", "body", "agree", "send",
                           "close", "erase", "erasing"}]
    BY <2>2 DEF TypeOK
  <2>4. TypeOK'
    BY <2>2, <2>3 DEF TypeOK, kernel, mainVars, clients
  <2> QED
    BY <2>1, <2>2, <2>4 DEF Types, kernel
<1>18. ASSUME NEW t \in Thread, Send(t) PROVE Types'
  <2>1. down' \in [Session -> Seq(Answer \cup {Junk})]
    <3>1. CASE IsOpen(sock[t]) /\ outData[t] # None
      <4>1. /\ peer[sock[t]] \in Session /\ outData[t] \in Answer \cup {Junk}
            /\ down[peer[sock[t]]] \in Seq(Answer \cup {Junk})
        BY <3>1 DEF IsOpen, Types, TypeOK
      <4>2. Append(down[peer[sock[t]]], outData[t]) \in Seq(Answer \cup {Junk})
        BY <4>1
      <4> QED
        BY <1>18, <3>1, <4>1, <4>2 DEF Send, Types
    <3>2. CASE ~(IsOpen(sock[t]) /\ outData[t] # None)
      BY <1>18, <3>2 DEF Send, Types
    <3> QED
      BY <3>1, <3>2
  <2>2. /\ UNCHANGED <<backlog, peer, up, closed, shut, server, mainVars, m_listSocket, inMap,
                       sock, reqmsg, outData, made, clients>>
        /\ pc' = [pc EXCEPT ![t] = "close"]
    BY <1>18 DEF Send, Goto
  <2>3. TypeOK'
    BY <2>2 DEF TypeOK, mainVars, clients
  <2> QED
    BY <2>1, <2>2, <2>3 DEF Types
<1>19. ASSUME NEW t \in Thread, Disconnect(t) PROVE Types'
  <2>1. IsOpen(sock[t]) => peer[sock[t]] \in Session
    <3>1. peer \in [Fd -> Session \cup {None}]
      BY DEF TypeOK
    <3> QED
      BY <3>1 DEF IsOpen
  <2>2. peer' \in [Fd -> Session \cup {None}] /\ shut' \subseteq Session
    <3>1. CASE IsOpen(sock[t])
      <4>1. /\ peer' = [peer EXCEPT ![sock[t]] = None]
            /\ shut' = shut \cup {peer[sock[t]]}
        BY <1>19, <3>1 DEF Disconnect
      <4> QED
        BY <2>1, <3>1, <4>1 DEF TypeOK
    <3>2. CASE ~IsOpen(sock[t])
      BY <1>19, <3>2 DEF Disconnect, TypeOK
    <3> QED
      BY <3>1, <3>2
  <2>3. /\ UNCHANGED <<backlog, up, down, closed, server, mainVars, m_listSocket, inMap,
                       sock, reqmsg, outData, made, clients>>
        /\ pc' = [pc EXCEPT ![t] = "erase"]
    BY <1>19 DEF Disconnect, Goto
  <2>4. pc' \in [Thread -> {"none", "start", "lookup", "header", "body", "agree", "send",
                           "close", "erase", "erasing"}]
    BY <2>3 DEF TypeOK
  <2>5. TypeOK'
    BY <2>2, <2>3, <2>4 DEF TypeOK, mainVars, clients
  <2> QED
    BY <2>3, <2>5 DEF Types
<1>20. ASSUME NEW t \in Thread, EraseBegin(t) PROVE Types'
  BY <1>20 DEF Types, TypeOK, kernel, mainVars, working, clients, EraseBegin, At, Goto, Enter
<1>21. ASSUME NEW t \in Thread, EraseEnd(t) PROVE Types'
  <2>1. /\ UNCHANGED <<kernel, server, mainVars, made, clients>> /\ inMap' = inMap \ {t}
        /\ pc' = [pc EXCEPT ![t] = "none"] /\ m_listSocket' = [m_listSocket EXCEPT ![t] = None]
        /\ sock' = [sock EXCEPT ![t] = None] /\ reqmsg' = [reqmsg EXCEPT ![t] = None]
    BY <1>21 DEF EraseEnd, Goto, Leave, Erased
  <2>2. outData' \in [Thread -> Answer \cup {Junk, None}]
    BY <1>21 DEF EraseEnd, Types
  <2>3. TypeOK'
    BY <2>1 DEF TypeOK, kernel, mainVars, clients
  <2> QED
    BY <2>1, <2>2, <2>3 DEF Types, kernel
<1>22. ASSUME NEW c \in Client, ClientConnect(c) PROVE Types'
  <2>1. /\ round' \in [Client -> Nat]
        /\ \A d \in Client : taken[d].round <= round'[d] /\ round'[d] <= Rounds[d]
    BY <1>22 DEF ClientConnect, TypeOK
  <2>2. <<c, round'[c]>> \in Session
    <3>1. round'[c] \in 1 .. Rounds[c]
      BY <1>22 DEF ClientConnect, TypeOK
    <3> QED
      BY <3>1, SessionIsPair
  <2>3. backlog' \in Seq(Session)
    <3>1. Append(backlog, <<c, round'[c]>>) \in Seq(Session)
      BY <2>2 DEF TypeOK
    <3>2. backlog' = Append(backlog, <<c, round'[c]>>) \/ backlog' = backlog
      BY <1>22 DEF ClientConnect
    <3> QED
      BY <3>1, <3>2 DEF TypeOK
  <2>4. cpc' \in [Client -> {"idle", "connected", "waiting", "crashed", "killed"}]
    BY <1>22 DEF ClientConnect, ClientGoto, TypeOK
  <2>5. UNCHANGED <<peer, up, down, closed, shut, taken, server, mainVars, m_listSocket, inMap,
                    working, made>>
    BY <1>22 DEF ClientConnect, ServerUnchanged
  <2>6. TypeOK'
    BY <2>1, <2>3, <2>4, <2>5 DEF TypeOK, mainVars, working
  <2> QED
    BY <2>5, <2>6 DEF Types, working
<1>23. ASSUME NEW c \in Client, ClientSend(c) PROVE Types'
  <2>1. Now(c) \in Session
    BY <1>23, NowIsSession DEF ClientSend, ClientIs
  <2>2. up' \in [Session -> Seq(Session \cup {Length})]
    <3>1. <<Length, Now(c)>> \in Seq(Session \cup {Length})
      BY <2>1
    <3> QED
      BY <1>23, <3>1 DEF ClientSend, Types
  <2> QED
    BY <1>23, <2>2 DEF Types, TypeOK, kernel, mainVars, working, clients, ClientSend, ClientGoto, ServerUnchanged
<1>24. ASSUME NEW c \in Client, ClientRecv(c) PROVE Types'
  <2>1. Now(c) \in Session
    BY <1>24, NowIsSession DEF ClientRecv, ClientIs
  <2>2. down[Now(c)] \in Seq(Answer \cup {Junk}) /\ down[Now(c)] # << >>
    BY <1>24, <2>1 DEF ClientRecv, Types
  <2>3. Head(down[Now(c)]) \in Answer /\ Tail(down[Now(c)]) \in Seq(Answer \cup {Junk})
    BY <1>24, <2>2 DEF ClientRecv
  <2>4. down' \in [Session -> Seq(Answer \cup {Junk})]
    BY <1>24, <2>3 DEF ClientRecv, Types
  <2>5. /\ taken' \in [Client -> [round : Nat, r2 : SUBSET R2]]
        /\ \A d \in Client : taken'[d].round <= round[d]
    BY <1>24, <2>3 DEF ClientRecv, TypeOK, Answer
  <2> QED
    BY <1>24, <2>1, <2>4, <2>5 DEF Types, TypeOK, kernel, mainVars, working, clients, ClientRecv, ClientGoto, ServerUnchanged
<1>25. ASSUME NEW c \in Client, ClientDecodeNull(c) PROVE Types'
  <2>1. Now(c) \in Session
    BY <1>25, NowIsSession DEF ClientDecodeNull, ClientIs
  <2> QED
    BY <1>25, <2>1 DEF Types, TypeOK, kernel, mainVars, working, clients, ClientDecodeNull, ClientGoto, ServerUnchanged
<1>26. ASSUME NEW c \in Client, ClientKilled(c) PROVE Types'
  <2>1. Now(c) \in Session
    BY <1>26, NowIsSession DEF ClientKilled, ClientIs
  <2> QED
    BY <1>26, <2>1 DEF Types, TypeOK, kernel, mainVars, working, clients, ClientKilled, ClientGoto, ServerUnchanged
<1>27. CASE UNCHANGED vars
  BY <1>27 DEF Types, TypeOK, kernel, mainVars, working, clients, vars
<1> QED
  BY <1>1, <1>2, <1>3, <1>4, <1>5, <1>6, <1>7, <1>8, <1>9, <1>10,
     <1>11, <1>12, <1>13, <1>14, <1>15, <1>16, <1>17, <1>18, <1>19,
     <1>20, <1>21, <1>22, <1>23, <1>24, <1>25, <1>26, <1>27
     DEF Next, Main, MapRace, Worker, NullSocket, DecodeNull, SendUninitialised, ClientStep

-----------------------------------------------------------------------------
(* What a step has to leave alone for a thread that serves afterwards.     *)
Carries(t) ==
  /\ Serving(t) /\ sock'[t] = sock[t] /\ reqmsg'[t] = reqmsg[t]
  /\ peer'[sock[t]] = peer[sock[t]]
  /\ up'[reqmsg[t]] = << >> /\ made'[reqmsg[t]] = made[reqmsg[t]]
  /\ pc'[t] = "agree" => pc[t] = "agree"
  /\ pc'[t] = "send" /\ outData'[t] \notin {None, Junk} =>
       pc[t] = "send" /\ outData'[t] = outData[t]

ServingIntact == ServesPeer /\ ServesAlone /\ KeyOfThread

LEMMA Carry ==
  ASSUME SInv, \A t \in Thread : Serving(t)' => Carries(t)
  PROVE  ServingIntact'
<1> USE DEF SInv
<1>1. ServesPeer'
  BY DEF ServesPeer, Carries
<1>2. ServesAlone'
  BY DEF ServesAlone, Carries
<1>3. KeyOfThread'
  <2> SUFFICES ASSUME NEW t \in Thread
               PROVE  /\ pc'[t] = "agree" => made'[reqmsg'[t]] = {}
                      /\ pc'[t] = "send" /\ outData'[t] \notin {None, Junk} =>
                           made'[reqmsg'[t]] = {outData'[t].r2}
    BY DEF KeyOfThread
  <2>1. pc'[t] \in {"agree", "send"} => Carries(t)
    BY DEF Serving
  <2> QED
    BY <2>1 DEF Carries, KeyOfThread
<1> QED
  BY <1>1, <1>2, <1>3 DEF ServingIntact

(* A thread that serves holds on to what a step does not touch.            *)
LEMMA CarryUnchanged ==
  ASSUME SInv, NEW t \in Thread, Serving(t),
         pc'[t] = pc[t], sock'[t] = sock[t], reqmsg'[t] = reqmsg[t], outData'[t] = outData[t],
         peer'[sock[t]] = peer[sock[t]], up'[reqmsg[t]] = up[reqmsg[t]],
         made'[reqmsg[t]] = made[reqmsg[t]]
  PROVE  Carries(t)
BY DEF SInv, Carries, ServesPeer

(* A step that sends and receives nothing, makes no key and is no step of  *)
(* a client.                                                               *)
LEMMA Quiet ==
  ASSUME SInv, UNCHANGED <<up, down, made, cpc, round, taken>>,
         \A t \in Thread : Serving(t)' => Carries(t)
  PROVE  RequestOnce' /\ UnsentUnserved' /\ ServingIntact' /\ KeyOnItsWay' /\ TakesNext'
<1> USE DEF SInv
<1>1. ServingIntact'
  BY Carry
<1>2. RequestOnce' /\ KeyOnItsWay' /\ TakesNext'
  BY DEF RequestOnce, KeyOnItsWay, TakesNext
<1>3. UnsentUnserved'
  BY DEF UnsentUnserved, Unsent, Carries
<1> QED
  BY <1>1, <1>2, <1>3

(* What a thread reads is the request of the session it reads from, and no *)
(* thread serves that session.                                             *)
LEMMA Receives ==
  ASSUME SInv, NEW t \in Thread, Receivable(t), Receive(t)
  PROVE  LET s == peer[sock[t]] IN
         /\ s \in Session /\ sock[t] \in Fd /\ made[s] = {} /\ ~Unsent(s)
         /\ Received(t) = Length => up[s] = <<Length, s>> /\ up'[s] = <<s>>
         /\ Received(t) # Length => up[s] = <<s>> /\ up'[s] = << >> /\ Received(t) = s
         /\ \A r \in Session : r # s => up'[r] = up[r]
         /\ \A u \in Thread : Serving(u) => reqmsg[u] # s
<1> DEFINE s == peer[sock[t]]
<1>1. s \in Session /\ sock[t] \in Fd
  BY ReceiveTypes DEF SInv
<1>2. up[s] # << >>
  BY DEF Receivable
<1>3. up[s] = <<Length, s>> \/ up[s] = <<s>>
  BY <1>1, <1>2 DEF SInv, RequestOnce
<1>4. s # Length
  BY <1>1, SessionIsPair
<1>5. up' = [up EXCEPT ![s] = Tail(up[s])]
  BY DEF Receive
<1>6. up'[s] = Tail(up[s]) /\ \A r \in Session : r # s => up'[r] = up[r]
  BY <1>1, <1>5 DEF SInv, Types
<1>7. Received(t) = Head(up[s])
  BY DEF Received
<1>8. /\ Received(t) = Length => up[s] = <<Length, s>> /\ up'[s] = <<s>>
      /\ Received(t) # Length => up[s] = <<s>> /\ up'[s] = << >> /\ Received(t) = s
  <2>1. CASE up[s] = <<Length, s>>
    BY <2>1, <1>4, <1>6, <1>7
  <2>2. CASE up[s] = <<s>>
    BY <2>2, <1>4, <1>6, <1>7
  <2> QED
    BY <1>3, <2>1, <2>2
<1>9. /\ made[s] = {} /\ ~Unsent(s)
      /\ \A u \in Thread : Serving(u) => reqmsg[u] # s
  BY <1>1, <1>2 DEF SInv, RequestOnce, UnsentUnserved, ServesPeer
<1> QED
  BY <1>1, <1>6, <1>8, <1>9

LEMMA StepRest ==
  SInv /\ [Next]_vars =>
    RequestOnce' /\ UnsentUnserved' /\ ServingIntact' /\ KeyOnItsWay' /\ TakesNext'
<1> DEFINE Rest == RequestOnce /\ UnsentUnserved /\ ServingIntact /\ KeyOnItsWay /\ TakesNext
<1> SUFFICES ASSUME SInv, [Next]_vars PROVE Rest'
  OBVIOUS
<1> HIDE DEF Rest
<1>0. /\ Types /\ TypeOK /\ RequestOnce /\ UnsentUnserved /\ ServesPeer /\ ServesAlone
      /\ KeyOfThread /\ KeyOnItsWay /\ TakesNext
  BY DEF SInv, Types
<1>1. ASSUME Crash PROVE Rest'
  <2>1. UNCHANGED <<pc, sock, reqmsg, outData, peer, up, down, made, cpc, round, taken>>
    BY <1>1 DEF Crash, kernel, mainVars, working, clients
  <2>2. \A t \in Thread : Serving(t)' => Carries(t)
    BY <2>1, CarryUnchanged DEF Serving
  <2> QED
    BY <2>1, <2>2, Quiet DEF Rest
<1>2. ASSUME Signal PROVE Rest'
  <2>1. UNCHANGED <<pc, sock, reqmsg, outData, peer, up, down, made, cpc, round, taken>>
    BY <1>2 DEF Signal, kernel, mainVars, working, clients
  <2>2. \A t \in Thread : Serving(t)' => Carries(t)
    BY <2>1, CarryUnchanged DEF Serving
  <2> QED
    BY <2>1, <2>2, Quiet DEF Rest
<1>3. ASSUME SetListen PROVE Rest'
  <2>1. UNCHANGED <<pc, sock, reqmsg, outData, peer, up, down, made, cpc, round, taken>>
    BY <1>3 DEF SetListen, kernel, mainVars, working, clients
  <2>2. \A t \in Thread : Serving(t)' => Carries(t)
    BY <2>1, CarryUnchanged DEF Serving
  <2> QED
    BY <2>1, <2>2, Quiet DEF Rest
<1>4. ASSUME MainStop PROVE Rest'
  <2>1. UNCHANGED <<pc, sock, reqmsg, outData, peer, up, down, made, cpc, round, taken>>
    BY <1>4 DEF MainStop, kernel, mainVars, working, clients
  <2>2. \A t \in Thread : Serving(t)' => Carries(t)
    BY <2>1, CarryUnchanged DEF Serving
  <2> QED
    BY <2>1, <2>2, Quiet DEF Rest
<1>5. ASSUME MainLoop PROVE Rest'
  <2>1. UNCHANGED <<pc, sock, reqmsg, outData, peer, up, down, made, cpc, round, taken>>
    BY <1>5 DEF MainLoop, kernel, mainVars, working, clients
  <2>2. \A t \in Thread : Serving(t)' => Carries(t)
    BY <2>1, CarryUnchanged DEF Serving
  <2> QED
    BY <2>1, <2>2, Quiet DEF Rest
<1>6. ASSUME MainAcceptFails PROVE Rest'
  <2>1. UNCHANGED <<pc, sock, reqmsg, outData, peer, up, down, made, cpc, round, taken>>
    BY <1>6 DEF MainAcceptFails, kernel, mainVars, working, clients
  <2>2. \A t \in Thread : Serving(t)' => Carries(t)
    BY <2>1, CarryUnchanged DEF Serving
  <2> QED
    BY <2>1, <2>2, Quiet DEF Rest
<1>7. ASSUME MainAcceptTimeout PROVE Rest'
  <2>1. UNCHANGED <<pc, sock, reqmsg, outData, peer, up, down, made, cpc, round, taken>>
    BY <1>7 DEF MainAcceptTimeout, kernel, mainVars, working, clients
  <2>2. \A t \in Thread : Serving(t)' => Carries(t)
    BY <2>1, CarryUnchanged DEF Serving
  <2> QED
    BY <2>1, <2>2, Quiet DEF Rest
<1>8. ASSUME MainInsertBegin PROVE Rest'
  <2>1. UNCHANGED <<pc, sock, reqmsg, outData, peer, up, down, made, cpc, round, taken>>
    BY <1>8 DEF MainInsertBegin, kernel, mainVars, working, clients
  <2>2. \A t \in Thread : Serving(t)' => Carries(t)
    BY <2>1, CarryUnchanged DEF Serving
  <2> QED
    BY <2>1, <2>2, Quiet DEF Rest
<1>9. ASSUME MainInsertEnd PROVE Rest'
  <2>1. UNCHANGED <<pc, sock, reqmsg, outData, peer, up, down, made, cpc, round, taken>>
    BY <1>9 DEF MainInsertEnd, kernel, mainVars, working, clients
  <2>2. \A t \in Thread : Serving(t)' => Carries(t)
    BY <2>1, CarryUnchanged DEF Serving
  <2> QED
    BY <2>1, <2>2, Quiet DEF Rest
<1>10. ASSUME MainAccept PROVE Rest'
  <2>1. UNCHANGED <<pc, sock, reqmsg, outData, up, down, made, cpc, round, taken>>
    BY <1>10 DEF MainAccept, working, clients
  <2>2. \A t \in Thread : Serving(t) => peer'[sock[t]] = peer[sock[t]]
    <3>1. mfd' \in FreeFd
      <4>1. FreeFd \subseteq Nat /\ FreeFd # {}
        BY <1>10, AgreementAssumption DEF MainAccept, FreeFd, AgreementAssumption
      <4> QED
        BY <1>10, <4>1, MinIsMember DEF MainAccept
    <3>2. \A t \in Thread : Serving(t) => sock[t] \in Fd /\ peer[sock[t]] # None
      BY <1>0 DEF ServesPeer
    <3>3. \A t \in Thread : Serving(t) => sock[t] # mfd'
      BY <3>1, <3>2 DEF FreeFd
    <3> QED
      BY <1>10, <1>0, <3>2, <3>3 DEF MainAccept, TypeOK
  <2>3. \A t \in Thread : Serving(t)' => Carries(t)
    BY <2>1, <2>2, CarryUnchanged DEF Serving
  <2> QED
    BY <2>1, <2>3, Quiet DEF Rest
<1>11. ASSUME MainCreate PROVE Rest'
  <2>1. UNCHANGED <<sock, reqmsg, outData, peer, up, down, made, cpc, round, taken>>
    BY <1>11 DEF MainCreate, kernel, clients
  <2>2. \A u \in Thread : Serving(u)' => Serving(u) /\ pc'[u] = pc[u]
    BY <1>11, <1>0 DEF MainCreate, TypeOK, Serving
  <2>3. \A u \in Thread : Serving(u)' => Carries(u)
    BY <2>1, <2>2, CarryUnchanged
  <2> QED
    BY <2>1, <2>3, Quiet DEF Rest
<1>12. ASSUME NEW t \in Thread, LookupBegin(t) PROVE Rest'
  <2>1. UNCHANGED <<peer, up, down, made, cpc, round, taken>>
    BY <1>12 DEF LookupBegin, kernel, mainVars, clients
  <2>2. ~Serving(t)'
    BY <1>12, <1>0 DEF LookupBegin, At, Goto, TypeOK, Serving
  <2>3. \A u \in Thread \ {t} : /\ pc'[u] = pc[u] /\ sock'[u] = sock[u]
                               /\ reqmsg'[u] = reqmsg[u] /\ outData'[u] = outData[u]
    BY <1>12, <1>0 DEF LookupBegin, Goto, Types, TypeOK
  <2>4. \A u \in Thread : Serving(u)' => Carries(u)
    BY <2>1, <2>2, <2>3, CarryUnchanged DEF Serving
  <2> QED
    BY <2>1, <2>4, Quiet DEF Rest
<1>13. ASSUME NEW t \in Thread, LookupEnd(t) PROVE Rest'
  <2>1. UNCHANGED <<peer, up, down, made, cpc, round, taken>>
    BY <1>13 DEF LookupEnd, kernel, mainVars, clients
  <2>2. ~Serving(t)'
    BY <1>13, <1>0 DEF LookupEnd, At, Goto, TypeOK, Serving
  <2>3. \A u \in Thread \ {t} : /\ pc'[u] = pc[u] /\ sock'[u] = sock[u]
                               /\ reqmsg'[u] = reqmsg[u] /\ outData'[u] = outData[u]
    BY <1>13, <1>0 DEF LookupEnd, Goto, Types, TypeOK
  <2>4. \A u \in Thread : Serving(u)' => Carries(u)
    BY <2>1, <2>2, <2>3, CarryUnchanged DEF Serving
  <2> QED
    BY <2>1, <2>4, Quiet DEF Rest
<1>14. ASSUME NEW t \in Thread, EraseBegin(t) PROVE Rest'
  <2>1. UNCHANGED <<peer, up, down, made, cpc, round, taken>>
    BY <1>14 DEF EraseBegin, kernel, mainVars, clients
  <2>2. ~Serving(t)'
    BY <1>14, <1>0 DEF EraseBegin, At, Goto, TypeOK, Serving
  <2>3. \A u \in Thread \ {t} : /\ pc'[u] = pc[u] /\ sock'[u] = sock[u]
                               /\ reqmsg'[u] = reqmsg[u] /\ outData'[u] = outData[u]
    BY <1>14, <1>0 DEF EraseBegin, Goto, Types, TypeOK
  <2>4. \A u \in Thread : Serving(u)' => Carries(u)
    BY <2>1, <2>2, <2>3, CarryUnchanged DEF Serving
  <2> QED
    BY <2>1, <2>4, Quiet DEF Rest
<1>15. ASSUME NEW t \in Thread, EraseEnd(t) PROVE Rest'
  <2>1. UNCHANGED <<peer, up, down, made, cpc, round, taken>>
    BY <1>15 DEF EraseEnd, kernel, mainVars, clients
  <2>2. ~Serving(t)'
    BY <1>15, <1>0 DEF EraseEnd, At, Goto, TypeOK, Serving
  <2>3. \A u \in Thread \ {t} : /\ pc'[u] = pc[u] /\ sock'[u] = sock[u]
                               /\ reqmsg'[u] = reqmsg[u] /\ outData'[u] = outData[u]
    BY <1>15, <1>0 DEF EraseEnd, Goto, Types, TypeOK
  <2>4. \A u \in Thread : Serving(u)' => Carries(u)
    BY <2>1, <2>2, <2>3, CarryUnchanged DEF Serving
  <2> QED
    BY <2>1, <2>4, Quiet DEF Rest
<1>16. ASSUME NEW t \in Thread, RecvHeader(t) PROVE Rest'
  <2> DEFINE s == peer[sock[t]]
  <2>1. UNCHANGED <<sock, reqmsg, outData, peer, down, made, cpc, round, taken>>
    BY <1>16 DEF RecvHeader, mainVars, clients
  <2>2. /\ s \in Session /\ made[s] = {} /\ ~Unsent(s) /\ up'[s] = <<s>>
        /\ \A r \in Session : r # s => up'[r] = up[r]
        /\ \A u \in Thread : Serving(u) => reqmsg[u] # s
    BY <1>16, Receives DEF RecvHeader
  <2> HIDE DEF s
  <2>3. \A u \in Thread : Serving(u)' => Serving(u) /\ pc'[u] = pc[u]
    BY <1>16, <1>0 DEF RecvHeader, Goto, TypeOK, Serving
  <2>4. \A u \in Thread : Serving(u)' => Carries(u)
    BY <1>0, <2>1, <2>2, <2>3, CarryUnchanged DEF ServesPeer
  <2>5. RequestOnce'
    BY <1>0, <2>1, <2>2 DEF RequestOnce
  <2>6. UnsentUnserved'
    BY <1>0, <2>1, <2>2, <2>3 DEF UnsentUnserved, Unsent
  <2>7. KeyOnItsWay' /\ TakesNext'
    BY <1>0, <2>1 DEF KeyOnItsWay, TakesNext
  <2> QED
    BY <2>4, <2>5, <2>6, <2>7, Carry DEF Rest
<1>17. ASSUME NEW t \in Thread, RecvBody(t) PROVE Rest'
  <2> DEFINE s == peer[sock[t]]
  <2>1. UNCHANGED <<sock, outData, peer, down, made, cpc, round, taken>>
    BY <1>17 DEF RecvBody, mainVars, clients
  <2>2. /\ s \in Session /\ sock[t] \in Fd /\ made[s] = {} /\ ~Unsent(s) /\ up'[s] = << >>
        /\ \A r \in Session : r # s => up'[r] = up[r]
        /\ \A u \in Thread : Serving(u) => reqmsg[u] # s
        /\ Received(t) = s
    BY <1>17, Receives DEF RecvBody
  <2>3. pc'[t] = "agree" /\ reqmsg'[t] = s /\ s # None /\ peer'[sock'[t]] = s
    <3>1. s # None
      BY <1>17 DEF RecvBody, Receivable, IsOpen
    <3> QED
      BY <1>17, <1>0, <2>1, <2>2, <3>1 DEF RecvBody, Goto, TypeOK
  <2> HIDE DEF s
  <2>4. \A u \in Thread \ {t} : pc'[u] = pc[u] /\ reqmsg'[u] = reqmsg[u]
    BY <1>17, <1>0 DEF RecvBody, Goto, TypeOK
  <2>5. \A u \in Thread \ {t} : Serving(u)' => Serving(u) /\ reqmsg'[u] # s
    BY <2>2, <2>4 DEF Serving
  <2>6. RequestOnce'
    BY <1>0, <2>1, <2>2 DEF RequestOnce
  <2>7. UnsentUnserved'
    <3>1. \A r \in Session : Unsent(r)' => Unsent(r) /\ r # s
      BY <2>1, <2>2 DEF Unsent
    <3> QED
      BY <1>0, <2>1, <2>2, <2>3, <2>4, <2>5, <3>1 DEF UnsentUnserved
  <2>8. ServesPeer'
    <3> SUFFICES ASSUME NEW u \in Thread, Serving(u)'
                 PROVE  /\ sock'[u] \in Fd /\ reqmsg'[u] \in Session /\ reqmsg'[u] # None
                        /\ peer'[sock'[u]] = reqmsg'[u] /\ up'[reqmsg'[u]] = << >>
      BY DEF ServesPeer
    <3>1. CASE u = t
      BY <2>1, <2>2, <2>3, <3>1
    <3>2. CASE u # t
      BY <1>0, <2>1, <2>2, <2>4, <2>5, <3>2 DEF ServesPeer
    <3> QED
      BY <3>1, <3>2
  <2>9. ServesAlone'
    BY <1>0, <2>3, <2>4, <2>5 DEF ServesAlone
  <2>10. KeyOfThread'
    BY <1>0, <2>1, <2>2, <2>3, <2>4 DEF KeyOfThread
  <2>11. KeyOnItsWay' /\ TakesNext'
    BY <1>0, <2>1 DEF KeyOnItsWay, TakesNext
  <2> QED
    BY <2>6, <2>7, <2>8, <2>9, <2>10, <2>11 DEF Rest, ServingIntact
<1>18. ASSUME NEW t \in Thread, Agree(t) PROVE Rest'
  <2> DEFINE s == reqmsg[t]
  <2>1. UNCHANGED <<sock, reqmsg, peer, up, down, cpc, round, taken>>
    BY <1>18 DEF Agree, kernel, mainVars, clients
  <2>2. Serving(t) /\ pc[t] = "agree"
    BY <1>18 DEF Agree, At, Serving
  <2>3. s \in Session /\ up[s] = << >> /\ made[s] = {} /\ ~Unsent(s)
    BY <1>0, <2>2 DEF ServesPeer, KeyOfThread, UnsentUnserved
  <2>4. PICK r \in R2 : /\ made' = [made EXCEPT ![s] = made[s] \cup {r}]
                        /\ outData' = [outData EXCEPT ![t] = [to |-> s[1], r2 |-> r]]
    BY <1>18 DEF Agree
  <2>5. /\ made'[s] = {r} /\ outData'[t].r2 = r /\ pc'[t] = "send"
        /\ \A q \in Session : q # s => made'[q] = made[q]
    BY <1>18, <1>0, <2>3, <2>4 DEF Types, TypeOK, Agree, Goto
  <2>6. \A u \in Thread \ {t} : pc'[u] = pc[u] /\ outData'[u] = outData[u]
    BY <1>18, <1>0, <2>4 DEF Types, TypeOK, Agree, Goto
  <2>7. \A u \in Thread \ {t} : Serving(u) => reqmsg[u] # s
    BY <1>0, <2>2 DEF ServesAlone
  <2> HIDE DEF s
  <2>8. \A u \in Thread : Serving(u)' => Serving(u)
    BY <2>2, <2>6 DEF Serving
  <2>9. RequestOnce'
    BY <1>0, <2>1, <2>3, <2>5 DEF RequestOnce
  <2>10. UnsentUnserved'
    BY <1>0, <2>1, <2>3, <2>5, <2>8 DEF UnsentUnserved, Unsent
  <2>11. ServesPeer' /\ ServesAlone'
    BY <1>0, <2>1, <2>8 DEF ServesPeer, ServesAlone
  <2>12. KeyOfThread'
    <3> SUFFICES ASSUME NEW u \in Thread
                 PROVE  /\ pc'[u] = "agree" => made'[reqmsg'[u]] = {}
                        /\ pc'[u] = "send" /\ outData'[u] \notin {None, Junk} =>
                             made'[reqmsg'[u]] = {outData'[u].r2}
      BY DEF KeyOfThread
    <3>1. CASE u = t
      BY <2>1, <2>5, <3>1 DEF s
    <3>2. CASE u # t /\ Serving(u)
      <4>1. reqmsg[u] \in Session /\ reqmsg[u] # s
        BY <1>0, <2>7, <3>2 DEF ServesPeer
      <4> QED
        BY <1>0, <2>1, <2>5, <2>6, <3>2, <4>1 DEF KeyOfThread
    <3>3. CASE u # t /\ ~Serving(u)
      BY <2>6, <3>3 DEF Serving
    <3> QED
      BY <3>1, <3>2, <3>3
  <2>13. KeyOnItsWay'
    <3> SUFFICES ASSUME NEW q \in Session, NEW i \in 1 .. Len(down[q]), down[q][i] # Junk
                 PROVE  made'[q] = {down[q][i].r2}
      BY <2>1 DEF KeyOnItsWay
    <3>1. made[q] = {down[q][i].r2}
      BY <1>0 DEF KeyOnItsWay
    <3> QED
      BY <2>3, <2>5, <3>1
  <2>14. TakesNext'
    BY <1>0, <2>1 DEF TakesNext
  <2> QED
    BY <2>9, <2>10, <2>11, <2>12, <2>13, <2>14 DEF Rest, ServingIntact
<1>19. ASSUME NEW t \in Thread, Refuse(t) PROVE Rest'
  <2>1. UNCHANGED <<sock, reqmsg, peer, up, down, made, cpc, round, taken>>
    BY <1>19 DEF Refuse, kernel, mainVars, clients
  <2>2. pc[t] = "agree" /\ pc'[t] = "send" /\ outData'[t] \in {None, Junk}
    BY <1>19, <1>0 DEF Refuse, At, Goto, Types, TypeOK
  <2>3. \A u \in Thread \ {t} : pc'[u] = pc[u] /\ outData'[u] = outData[u]
    BY <1>19, <1>0 DEF Refuse, Goto, Types, TypeOK
  <2>4. Carries(t)
    BY <1>0, <2>1, <2>2 DEF Carries, Serving, ServesPeer
  <2>5. \A u \in Thread : Serving(u)' => Carries(u)
    BY <2>1, <2>3, <2>4, CarryUnchanged DEF Serving
  <2> QED
    BY <2>1, <2>5, Quiet DEF Rest
<1>20. ASSUME NEW t \in Thread, Send(t) PROVE Rest'
  <2> DEFINE s == peer[sock[t]]
  <2>1. UNCHANGED <<sock, reqmsg, outData, peer, up, made, cpc, round, taken>>
    BY <1>20 DEF Send, mainVars, clients
  <2>2. pc[t] = "send" /\ pc'[t] = "close" /\ Serving(t)
    BY <1>20, <1>0 DEF Send, At, Goto, TypeOK, Serving
  <2>3. s = reqmsg[t] /\ s \in Session
    BY <1>0, <2>2 DEF ServesPeer
  <2>4. \A u \in Thread \ {t} : pc'[u] = pc[u]
    BY <1>20, <1>0 DEF Send, Goto, TypeOK
  <2>5. Carries(t)
    BY <1>0, <2>1, <2>2 DEF Carries, ServesPeer
  <2>6. \A u \in Thread : Serving(u)' => Carries(u)
    BY <2>1, <2>4, <2>5, CarryUnchanged DEF Serving
  <2>7. RequestOnce' /\ TakesNext'
    BY <1>0, <2>1 DEF RequestOnce, TakesNext
  <2>8. UnsentUnserved'
    BY <1>0, <2>1, <2>6 DEF UnsentUnserved, Unsent, Carries
  <2>9. KeyOnItsWay'
    <3>1. CASE down' = down
      BY <1>0, <2>1, <3>1 DEF KeyOnItsWay
    <3>2. CASE outData[t] # None /\ down' = [down EXCEPT ![s] = Append(down[s], outData[t])]
      <4>1. down[s] \in Seq(Answer \cup {Junk}) /\ outData[t] \in Answer \cup {Junk}
        BY <1>0, <2>3, <3>2 DEF Types
      <4>2. down'[s] = Append(down[s], outData[t]) /\ \A q \in Session : q # s => down'[q] = down[q]
        BY <1>0, <2>3, <3>2 DEF Types
      <4>3. outData[t] # Junk => made[s] = {outData[t].r2}
        BY <1>0, <2>2, <2>3, <3>2 DEF KeyOfThread
      <4> HIDE DEF s
      <4>4. ASSUME NEW i \in 1 .. Len(down'[s]), down'[s][i] # Junk
            PROVE  made[s] = {down'[s][i].r2}
        <5>1. CASE i = Len(down[s]) + 1
          BY <4>1, <4>2, <4>3, <4>4, <5>1
        <5>2. CASE i # Len(down[s]) + 1
          <6>1. i \in 1 .. Len(down[s]) /\ down'[s][i] = down[s][i]
            BY <4>1, <4>2, <4>4, <5>2
          <6> QED
            BY <1>0, <2>3, <4>4, <6>1 DEF KeyOnItsWay
        <5> QED
          BY <5>1, <5>2
      <4>5. ASSUME NEW q \in Session, q # s, NEW i \in 1 .. Len(down'[q]), down'[q][i] # Junk
            PROVE  made[q] = {down'[q][i].r2}
        <5>1. down'[q] = down[q]
          BY <4>2, <4>5
        <5> QED
          BY <1>0, <4>5, <5>1 DEF KeyOnItsWay
      <4>6. \A q \in Session : \A i \in 1 .. Len(down'[q]) :
              down'[q][i] # Junk => made[q] = {down'[q][i].r2}
        BY <4>4, <4>5
      <4> QED
        BY <2>1, <4>6 DEF KeyOnItsWay
    <3>3. down' = down \/ (outData[t] # None /\ down' = [down EXCEPT ![s] = Append(down[s], outData[t])])
      BY <1>20 DEF Send
    <3> QED
      BY <3>1, <3>2, <3>3
  <2> QED
    BY <2>6, <2>7, <2>8, <2>9, Carry DEF Rest
<1>21. ASSUME NEW t \in Thread, Disconnect(t) PROVE Rest'
  <2>1. UNCHANGED <<sock, reqmsg, outData, up, down, made, cpc, round, taken>>
    BY <1>21 DEF Disconnect, mainVars, clients
  <2>2. pc[t] = "close" /\ Serving(t) /\ ~Serving(t)'
    BY <1>21, <1>0 DEF Disconnect, At, Goto, TypeOK, Serving
  <2>3. \A u \in Thread \ {t} : pc'[u] = pc[u]
    BY <1>21, <1>0 DEF Disconnect, Goto, TypeOK
  <2>4. \A u \in Thread \ {t} : Serving(u) => peer'[sock[u]] = peer[sock[u]]
    <3>1. \A u \in Thread \ {t} : Serving(u) => sock[u] # sock[t] /\ sock[u] \in Fd
      BY <1>0, <2>2 DEF ServesPeer, ServesAlone
    <3> QED
      BY <1>21, <1>0, <3>1 DEF Disconnect, TypeOK
  <2>5. \A u \in Thread : Serving(u)' => Carries(u)
    BY <2>1, <2>2, <2>3, <2>4, CarryUnchanged DEF Serving
  <2> QED
    BY <2>1, <2>5, Quiet DEF Rest
<1>22. ASSUME NEW c \in Client, ClientConnect(c) PROVE Rest'
  <2>1. UNCHANGED <<pc, sock, reqmsg, outData, peer, up, down, made, taken>>
    BY <1>22 DEF ClientConnect, ServerUnchanged, working
  <2>2. /\ round'[c] = round[c] + 1 /\ round[c] \in Nat /\ cpc[c] = "idle"
        /\ \A d \in Client \ {c} : round'[d] = round[d] /\ cpc'[d] = cpc[d]
    BY <1>22, <1>0 DEF ClientConnect, ClientIs, ClientGoto, TypeOK
  <2>3. \A s \in Session : Unsent(s)' => Unsent(s)
    <3> SUFFICES ASSUME NEW s \in Session, Unsent(s)' PROVE Unsent(s)
      OBVIOUS
    <3>1. s[1] \in Client /\ s[2] \in Int
      BY SessionIsPair
    <3> QED
      BY <2>2, <3>1 DEF Unsent
  <2>4. \A u \in Thread : Serving(u)' => Carries(u)
    BY <2>1, CarryUnchanged DEF Serving
  <2>5. RequestOnce' /\ KeyOnItsWay'
    BY <1>0, <2>1 DEF RequestOnce, KeyOnItsWay
  <2>6. UnsentUnserved'
    BY <1>0, <2>1, <2>3 DEF UnsentUnserved, Serving
  <2>7. TakesNext'
    <3>1. taken[c].round \in Nat /\ taken[c].round <= round[c]
      BY <1>0 DEF TypeOK
    <3>2. taken'[c].round < round'[c]
      BY <2>1, <2>2, <3>1
    <3>3. \A d \in Client \ {c} : taken'[d] = taken[d] /\ round'[d] = round[d] /\ cpc'[d] = cpc[d]
      BY <2>1, <2>2
    <3>4. \A d \in Client : cpc[d] \in {"connected", "waiting"} => taken[d].round < round[d]
      BY <1>0 DEF TakesNext
    <3> QED
      BY <3>2, <3>3, <3>4 DEF TakesNext
  <2> QED
    BY <2>4, <2>5, <2>6, <2>7, Carry DEF Rest
<1>23. ASSUME NEW c \in Client, ClientSend(c) PROVE Rest'
  <2> DEFINE s == Now(c)
  <2>1. UNCHANGED <<pc, sock, reqmsg, outData, peer, down, made, round, taken>>
    BY <1>23 DEF ClientSend, ServerUnchanged, working
  <2>2. cpc[c] = "connected" /\ s \in Session /\ s[1] = c /\ s[2] = round[c]
    BY <1>23, <1>0, NowIsSession DEF ClientSend, ClientIs
  <2>3. /\ up'[s] = <<Length, s>> /\ \A r \in Session : r # s => up'[r] = up[r]
        /\ cpc'[c] = "waiting" /\ \A d \in Client \ {c} : cpc'[d] = cpc[d]
    BY <1>23, <1>0, <2>2 DEF ClientSend, ClientGoto, Types, TypeOK
  <2>4. Unsent(s)
    BY <2>2 DEF Unsent
  <2>5. made[s] = {} /\ \A u \in Thread : Serving(u) => reqmsg[u] # s
    BY <1>0, <2>2, <2>4 DEF UnsentUnserved
  <2>6. \A r \in Session : Unsent(r)' => Unsent(r) /\ r # s
    <3> SUFFICES ASSUME NEW r \in Session, Unsent(r)' PROVE Unsent(r) /\ r # s
      OBVIOUS
    <3>1. r[1] \in Client /\ r[2] \in Int /\ round[c] \in Nat
      BY <1>0, SessionIsPair DEF TypeOK
    <3>2. r # s
      BY <2>1, <2>2, <2>3, <3>1 DEF Unsent
    <3> QED
      BY <2>1, <2>3, <3>1, <3>2 DEF Unsent
  <2> HIDE DEF s
  <2>7. \A u \in Thread : Serving(u)' => Carries(u)
    BY <1>0, <2>1, <2>3, <2>5, CarryUnchanged DEF Serving, ServesPeer
  <2>8. RequestOnce'
    BY <1>0, <2>1, <2>3, <2>5 DEF RequestOnce
  <2>9. UnsentUnserved'
    BY <1>0, <2>1, <2>3, <2>6 DEF UnsentUnserved, Serving
  <2>10. KeyOnItsWay' /\ TakesNext'
    BY <1>0, <2>1, <2>2, <2>3 DEF KeyOnItsWay, TakesNext
  <2> QED
    BY <2>7, <2>8, <2>9, <2>10, Carry DEF Rest
<1>24. ASSUME NEW c \in Client, ClientRecv(c) PROVE Rest'
  <2>1. UNCHANGED <<pc, sock, reqmsg, outData, peer, up, made, round>>
    BY <1>24 DEF ClientRecv, ServerUnchanged, working
  <2>2. /\ cpc'[c] \in {"idle", "crashed", "killed"}
        /\ \A d \in Client \ {c} : cpc'[d] = cpc[d] /\ taken'[d] = taken[d]
    BY <1>24, <1>0 DEF ClientRecv, ClientGoto, TypeOK
  <2>3. \A s \in Session : Unsent(s)' => Unsent(s)
    BY <2>1, <2>2, SessionIsPair DEF Unsent
  <2>4. \A u \in Thread : Serving(u)' => Carries(u)
    BY <2>1, CarryUnchanged DEF Serving
  <2>5. RequestOnce'
    BY <1>0, <2>1 DEF RequestOnce
  <2>6. UnsentUnserved'
    BY <1>0, <2>1, <2>3 DEF UnsentUnserved, Serving
  <2>7. TakesNext'
    BY <1>0, <2>1, <2>2 DEF TakesNext
  <2>8. KeyOnItsWay'
    <3> DEFINE s == Now(c)
    <3>1. s \in Session
      BY <1>24, <1>0, NowIsSession DEF ClientRecv, ClientIs
    <3>2. down[s] \in Seq(Answer \cup {Junk}) /\ down[s] # << >>
      BY <1>24, <1>0, <3>1 DEF ClientRecv, Types
    <3>3. down'[s] = Tail(down[s]) /\ \A q \in Session : q # s => down'[q] = down[q]
      BY <1>24, <1>0, <3>1 DEF ClientRecv, Types
    <3> HIDE DEF s
    <3>4. \A i \in 1 .. Len(down'[s]) : i + 1 \in 1 .. Len(down[s]) /\ down'[s][i] = down[s][i + 1]
      BY <3>2, <3>3
    <3> SUFFICES ASSUME NEW q \in Session, NEW i \in 1 .. Len(down'[q]), down'[q][i] # Junk
                 PROVE  made[q] = {down'[q][i].r2}
      BY <2>1 DEF KeyOnItsWay
    <3>5. CASE q = s
      <4>1. i + 1 \in 1 .. Len(down[s]) /\ down'[q][i] = down[s][i + 1]
        BY <3>4, <3>5
      <4> QED
        BY <1>0, <3>1, <3>5, <4>1 DEF KeyOnItsWay
    <3>6. CASE q # s
      BY <1>0, <3>3, <3>6 DEF KeyOnItsWay
    <3> QED
      BY <3>5, <3>6
  <2> QED
    BY <2>4, <2>5, <2>6, <2>7, <2>8, Carry DEF Rest
<1>25. ASSUME NEW c \in Client, ClientDecodeNull(c) PROVE Rest'
  <2>1. UNCHANGED <<pc, sock, reqmsg, outData, peer, up, made, round>>
    BY <1>25 DEF ClientDecodeNull, ServerUnchanged, working
  <2>2. /\ cpc'[c] \in {"idle", "crashed", "killed"}
        /\ \A d \in Client \ {c} : cpc'[d] = cpc[d] /\ taken'[d] = taken[d]
    BY <1>25, <1>0 DEF ClientDecodeNull, ClientGoto, TypeOK
  <2>3. \A s \in Session : Unsent(s)' => Unsent(s)
    BY <2>1, <2>2, SessionIsPair DEF Unsent
  <2>4. \A u \in Thread : Serving(u)' => Carries(u)
    BY <2>1, CarryUnchanged DEF Serving
  <2>5. RequestOnce'
    BY <1>0, <2>1 DEF RequestOnce
  <2>6. UnsentUnserved'
    BY <1>0, <2>1, <2>3 DEF UnsentUnserved, Serving
  <2>7. TakesNext'
    BY <1>0, <2>1, <2>2 DEF TakesNext
  <2>8. KeyOnItsWay'
    BY <1>25, <1>0, <2>1 DEF KeyOnItsWay, ClientDecodeNull
  <2> QED
    BY <2>4, <2>5, <2>6, <2>7, <2>8, Carry DEF Rest
<1>26. ASSUME NEW c \in Client, ClientKilled(c) PROVE Rest'
  <2>1. UNCHANGED <<pc, sock, reqmsg, outData, peer, up, made, round>>
    BY <1>26 DEF ClientKilled, ServerUnchanged, working
  <2>2. /\ cpc'[c] \in {"idle", "crashed", "killed"}
        /\ \A d \in Client \ {c} : cpc'[d] = cpc[d] /\ taken'[d] = taken[d]
    BY <1>26, <1>0 DEF ClientKilled, ClientGoto, TypeOK
  <2>3. \A s \in Session : Unsent(s)' => Unsent(s)
    BY <2>1, <2>2, SessionIsPair DEF Unsent
  <2>4. \A u \in Thread : Serving(u)' => Carries(u)
    BY <2>1, CarryUnchanged DEF Serving
  <2>5. RequestOnce'
    BY <1>0, <2>1 DEF RequestOnce
  <2>6. UnsentUnserved'
    BY <1>0, <2>1, <2>3 DEF UnsentUnserved, Serving
  <2>7. TakesNext'
    BY <1>0, <2>1, <2>2 DEF TakesNext
  <2>8. KeyOnItsWay'
    BY <1>26, <1>0, <2>1 DEF KeyOnItsWay, ClientKilled
  <2> QED
    BY <2>4, <2>5, <2>6, <2>7, <2>8, Carry DEF Rest
<1>27. CASE UNCHANGED vars
  <2>1. UNCHANGED <<pc, sock, reqmsg, outData, peer, up, down, made, cpc, round, taken>>
    BY <1>27 DEF vars, kernel, working, clients
  <2>2. \A t \in Thread : Serving(t)' => Carries(t)
    BY <2>1, CarryUnchanged DEF Serving
  <2> QED
    BY <2>1, <2>2, Quiet DEF Rest
<1> QED
  BY <1>1, <1>2, <1>3, <1>4, <1>5, <1>6, <1>7, <1>8, <1>9,
     <1>10, <1>11, <1>12, <1>13, <1>14, <1>15, <1>16, <1>17, <1>18,
     <1>19, <1>20, <1>21, <1>22, <1>23, <1>24, <1>25, <1>26, <1>27
     DEF Next, Main, MapRace, Worker, NullSocket, DecodeNull, SendUninitialised, ClientStep

LEMMA StepSInv == SInv /\ [Next]_vars => SInv'
BY StepTypes, StepRest DEF SInv, ServingIntact

-----------------------------------------------------------------------------
(* SInv, the inductive invariant behind the theorems: a request is on its  *)
(* way once, and a thread that has read one holds the descriptor it came   *)
(* over, and serves that session alone.                                    *)
THEOREM AgreementSInv == Spec => []SInv
<1>1. Init => SInv
  BY InitSInv
<1>2. SInv /\ [Next]_vars => SInv'
  BY StepSInv
<1> QED
  BY <1>1, <1>2, PTL DEF Spec

(* TypeOK: every variable of the server, of its threads and of the clients *)
(* keeps its type, and no client has taken a key of a session it has not   *)
(* started.                                                                *)
THEOREM AgreementTypeCorrect == Spec => []TypeOK
<1>1. SInv => TypeOK
  BY DEF SInv, Types
<1> QED
  BY <1>1, AgreementSInv, PTL

(* Agree makes the one key of its session.                                 *)
LEMMA AgreeIsMake ==
  ASSUME SInv, NEW t \in Thread, Agree(t)
  PROVE  reqmsg[t] \in Session /\ Implements!Make(reqmsg[t])
<1>1. reqmsg[t] \in Session /\ made[reqmsg[t]] = {}
  BY DEF Agree, At, SInv, ServesPeer, Serving, KeyOfThread
<1>2. taken' = taken
  BY DEF Agree, clients
<1>3. \E r \in R2 : made' = [made EXCEPT ![reqmsg[t]] = {r}]
  <2>1. PICK r \in R2 : made' = [made EXCEPT ![reqmsg[t]] = made[reqmsg[t]] \cup {r}]
    BY DEF Agree
  <2>2. made[reqmsg[t]] \cup {r} = {r}
    BY <1>1
  <2> QED
    BY <2>1, <2>2
<1> QED
  BY <1>1, <1>2, <1>3 DEF Implements!Make

(* ClientRecv takes the key that was made for the session it is in.        *)
LEMMA RecvIsTake ==
  ASSUME SInv, NEW c \in Client, ClientRecv(c)
  PROVE  Implements!Take(c)
<1>0. Types /\ TypeOK /\ TakesNext /\ KeyOnItsWay
  BY DEF SInv, Types
<1>1. Now(c) \in Session /\ Now(c) = <<c, round[c]>>
  BY <1>0, NowIsSession DEF ClientRecv, ClientIs, Now
<1>2. round[c] \in 1 .. Rounds[c] /\ round[c] > taken[c].round
  <2>1. cpc[c] = "waiting" /\ round[c] \in Nat /\ taken[c].round \in Nat /\ Rounds[c] \in Nat
    BY <1>0, AgreementAssumption DEF ClientRecv, ClientIs, TypeOK, AgreementAssumption
  <2> QED
    BY <1>0, <2>1 DEF TakesNext, TypeOK
<1>3. down[Now(c)] \in Seq(Answer \cup {Junk}) /\ down[Now(c)] # << >>
  BY <1>0, <1>1 DEF ClientRecv, Types
<1>4. 1 \in 1 .. Len(down[Now(c)]) /\ Head(down[Now(c)]) = down[Now(c)][1]
  BY <1>3
<1>5. made[Now(c)] = {Head(down[Now(c)]).r2}
  BY <1>0, <1>1, <1>4 DEF ClientRecv, KeyOnItsWay
<1>6. taken' = [taken EXCEPT ![c] = [round |-> round[c], r2 |-> made[<<c, round[c]>>]]]
  BY <1>1, <1>5 DEF ClientRecv
<1>7. made[<<c, round[c]>>] # {} /\ made' = made
  BY <1>1, <1>5 DEF ClientRecv, ServerUnchanged
<1> QED
  BY <1>2, <1>6, <1>7 DEF Implements!Take

(* RefinesAgreement: whichever descriptor a thread finds in the map,       *)
(* however the map's operations overlap and whoever dies, a session makes  *)
(* one key at most, and the key a client puts into its store is the one    *)
(* that was made for that session of its own.                              *)
THEOREM AgreementRefines == Spec => RefinesAgreement
<1>1. Init => Implements!Init
  BY DEF Init, Implements!Init, Session, Implements!Session
<1>2. SInv /\ [Next]_vars => [Implements!Next]_<<made, taken>>
  <2> SUFFICES ASSUME SInv, [Next]_vars, ~UNCHANGED <<made, taken>> PROVE Implements!Next
    OBVIOUS
  <2>1. ASSUME NEW t \in Thread, Agree(t) PROVE Implements!Next
    BY <2>1, AgreeIsMake DEF Implements!Next, Implements!Session, Session
  <2>2. ASSUME NEW c \in Client, ClientRecv(c) PROVE Implements!Next
    BY <2>2, RecvIsTake DEF Implements!Next
  <2>3. ASSUME Crash \/ Signal \/ Main PROVE FALSE
    BY <2>3 DEF Crash, Signal, Main, SetListen, MainStop, MainLoop, MainAccept, MainAcceptFails,
         MainAcceptTimeout, MainCreate, MainInsertBegin, MainInsertEnd, clients
  <2>4. ASSUME NEW t \in Thread, Worker(t), ~Agree(t), ~Crash PROVE FALSE
    BY <2>4 DEF Worker, LookupBegin, LookupEnd, NullSocket, RecvHeader, RecvBody, DecodeNull,
         Refuse, SendUninitialised, Send, Disconnect, EraseBegin, EraseEnd, clients
  <2>5. ASSUME NEW c \in Client, ~ClientRecv(c),
               ClientConnect(c) \/ ClientStep(c) \/ ClientKilled(c)
        PROVE  FALSE
    BY <2>5 DEF ClientStep, ClientConnect, ClientSend, ClientDecodeNull, ClientKilled,
         ServerUnchanged
  <2>6. ~UNCHANGED vars
    BY DEF vars, clients
  <2> QED
    BY <2>1, <2>2, <2>3, <2>4, <2>5, <2>6 DEF Next, MapRace
<1> QED
  BY <1>1, <1>2, AgreementSInv, PTL DEF Spec, RefinesAgreement, Implements!Spec

-----------------------------------------------------------------------------
(* If usleep(1) lasts long enough, the entry of a thread is made before the*)
(* thread looks it up, and therefore before it erases it.                  *)

InsertsForStarting ==
  mpc \in {"insert", "inserting"} => mthread \in Thread /\ pc[mthread] = "start"

LEMMA StepStale ==
  ASSUME InsertFirst = TRUE, TypeOK, InsertsForStarting, NoStaleEntry, [Next]_vars
  PROVE  InsertsForStarting' /\ NoStaleEntry'
<1> DEFINE Goal == InsertsForStarting' /\ NoStaleEntry'
<1>1. ASSUME UNCHANGED <<pc, m_listSocket, mthread>>, mpc' \in {"insert", "inserting"} => mpc' = mpc
      PROVE  Goal
  BY <1>1 DEF InsertsForStarting, NoStaleEntry
<1>2. ASSUME Crash \/ Signal \/ SetListen \/ MainStop \/ MainLoop \/ MainAccept
             \/ MainAcceptFails \/ MainAcceptTimeout
             \/ \E c \in Client : ClientConnect(c) \/ ClientStep(c) \/ ClientKilled(c)
      PROVE  Goal
  BY <1>1, <1>2 DEF Crash, Signal, SetListen, MainStop, MainLoop, MainAccept, MainAcceptFails,
       MainAcceptTimeout, ClientConnect, ClientStep, ClientSend, ClientRecv, ClientDecodeNull,
       ClientKilled, ServerUnchanged, mainVars, working
<1>3. ASSUME MainCreate PROVE Goal
  BY <1>3 DEF MainCreate, TypeOK, InsertsForStarting, NoStaleEntry
<1>4. ASSUME MainInsertBegin PROVE Goal
  BY <1>4 DEF MainInsertBegin, working, InsertsForStarting, NoStaleEntry
<1>5. ASSUME MainInsertEnd PROVE Goal
  BY <1>5 DEF MainInsertEnd, working, TypeOK, InsertsForStarting, NoStaleEntry
(* A thread's step changes its own pc, and no entry but its own.           *)
<1>6. ASSUME NEW t \in Thread, UNCHANGED <<mpc, mthread>>,
             ~(mthread = t /\ mpc \in {"insert", "inserting"}),
             \A u \in Thread \ {t} : pc'[u] = pc[u] /\ m_listSocket'[u] = m_listSocket[u],
             m_listSocket'[t] # None => pc'[t] # "none"
      PROVE  Goal
  BY <1>6 DEF InsertsForStarting, NoStaleEntry
<1>7. ASSUME NEW t \in Thread, LookupBegin(t) PROVE Goal
  BY <1>6, <1>7 DEF LookupBegin, MainHasInserted, At, Goto, TypeOK, mainVars
<1>8. ASSUME NEW t \in Thread,
             \/ LookupEnd(t) \/ RecvHeader(t) \/ RecvBody(t) \/ Agree(t) \/ Refuse(t)
             \/ Send(t) \/ Disconnect(t) \/ EraseBegin(t) \/ EraseEnd(t)
      PROVE  Goal
  <2>1. pc[t] # "start" /\ UNCHANGED <<mpc, mthread>>
    BY <1>8 DEF LookupEnd, RecvHeader, RecvBody, Agree, Refuse, Send, Disconnect, EraseBegin,
         EraseEnd, At, mainVars
  <2>2. ~(mthread = t /\ mpc \in {"insert", "inserting"})
    BY <2>1 DEF InsertsForStarting
  <2>3. \A u \in Thread \ {t} : pc'[u] = pc[u] /\ m_listSocket'[u] = m_listSocket[u]
    BY <1>8 DEF LookupEnd, RecvHeader, RecvBody, Agree, Refuse, Send, Disconnect, EraseBegin,
         EraseEnd, Goto, Erased, TypeOK
  <2>4. m_listSocket'[t] # None => pc'[t] # "none"
    BY <1>8 DEF LookupEnd, RecvHeader, RecvBody, Agree, Refuse, Send, Disconnect, EraseBegin,
         EraseEnd, Goto, Erased, TypeOK
  <2> QED
    BY <1>6, <2>1, <2>2, <2>3, <2>4
<1>9. ASSUME UNCHANGED vars PROVE Goal
  BY <1>1, <1>9 DEF vars, mainVars, working
<1> HIDE DEF Goal
<1>10. ASSUME NEW t \in Thread, Worker(t) PROVE Goal
  BY <1>2, <1>7, <1>8, <1>10 DEF Worker, NullSocket, DecodeNull, SendUninitialised
<1>11. ASSUME Main PROVE Goal
  BY <1>2, <1>3, <1>4, <1>5, <1>11 DEF Main
<1>12. Goal
  BY <1>2, <1>9, <1>10, <1>11 DEF Next, MapRace
<1> QED
  BY <1>12 DEF Goal

(* NoStaleEntry: if usleep(1) lasts long enough, an entry of m_listSocket  *)
(* belongs to a thread that runs, even where operations of the map overlap,*)
(* and under every other fault of the model.                               *)
THEOREM NoEntryOutlivesItsThread ==
  ASSUME InsertFirst = TRUE PROVE Spec => []NoStaleEntry
<1>1. Init => InsertsForStarting /\ NoStaleEntry
  BY DEF Init, InsertsForStarting, NoStaleEntry
<1>2. TypeOK /\ InsertsForStarting /\ NoStaleEntry /\ [Next]_vars
        => InsertsForStarting' /\ NoStaleEntry'
  BY StepStale
<1> QED
  BY <1>1, <1>2, AgreementTypeCorrect, PTL DEF Spec

-----------------------------------------------------------------------------
(***************************************************************************)
(* The server: its threads and their sockets.                              *)
(***************************************************************************)
(* The socket of a thread is its own, if usleep(1) lasts long enough, the  *)
(* port was free and there are more descriptors than threads.              *)

Supplied == /\ InsertFirst = TRUE /\ BindFails = FALSE
            /\ IsFiniteSet(Thread) /\ Cardinality(Thread) < Cardinality(Fd)

Reading(t) == pc[t] \in {"header", "body", "agree", "send", "close"}
Holds(t)   == pc[t] \in {"start", "lookup"} \/ Reading(t)

Inserting(t) == mpc \in {"insert", "inserting"} /\ mthread = t

(* The descriptor that was accepted for a thread, in the map or on its way.*)
Held(t) == IF Inserting(t) THEN mfd ELSE m_listSocket[t]

Inserts ==
  /\ InsertsForStarting /\ NoStaleEntry
  /\ mpc \in {"insert", "inserting"} => m_listSocket[mthread] = None
  /\ mpc # "listen" => listening

HeldIsOpen ==
  \A t \in Thread : /\ Holds(t) => IsOpen(Held(t))
                    /\ Reading(t) => sock[t] = m_listSocket[t]

HeldOnce ==
  /\ \A t, u \in Thread : Holds(t) /\ Holds(u) /\ t # u => Held(t) # Held(u)
  /\ mpc = "create" => IsOpen(mfd) /\ \A t \in Thread : Holds(t) => Held(t) # mfd

OpenIsHeld ==
  \A f \in Fd : peer[f] # None =>
    (mpc = "create" /\ f = mfd) \/ \E t \in Thread : Holds(t) /\ f = Held(t)

NothingRead ==
  \A t \in Thread : ~Serving(t) /\ pc[t] \notin {"erase", "erasing"} => reqmsg[t] = None

OInv == Inserts /\ HeldIsOpen /\ HeldOnce /\ OpenIsHeld /\ NothingRead

LEMMA InitOInv == Init => OInv
BY DEF Init, OInv, Inserts, InsertsForStarting, NoStaleEntry, HeldIsOpen, HeldOnce,
   OpenIsHeld, NothingRead, Holds, Reading, Serving

(* Every thread may hold a descriptor, and there is one left.              *)
LEMMA DescriptorLeft ==
  ASSUME Supplied, TypeOK, OInv, mpc = "accept" PROVE FreeFd # {}
<1> SUFFICES ASSUME FreeFd = {} PROVE FALSE
  OBVIOUS
<1> DEFINE Holder == {t \in Thread : Holds(t)}
           held == [t \in Holder |-> Held(t)]
<1>1. \A f \in Fd : \E t \in Holder : f = Held(t)
  BY DEF FreeFd, OInv, OpenIsHeld
<1>2. \A t \in Holder : Held(t) \in Fd
  BY DEF OInv, HeldIsOpen, IsOpen
<1>3. held \in Surjection(Holder, Fd)
  BY <1>1, <1>2 DEF Surjection
<1>4. IsFiniteSet(Holder) /\ Cardinality(Holder) <= Cardinality(Thread)
  BY FS_Subset DEF Supplied
<1>5. Cardinality(Fd) <= Cardinality(Holder)
  <2> HIDE DEF held, Holder
  <2> QED
    BY <1>3, <1>4, FS_Surjection
<1>6. Cardinality(Fd) \in Nat /\ Cardinality(Thread) \in Nat /\ Cardinality(Holder) \in Nat
  BY <1>4, FS_CardinalityType, AgreementAssumption DEF Supplied
<1> QED
  BY <1>4, <1>5, <1>6 DEF Supplied

(* A step that neither moves a descriptor nor changes who holds one.       *)
LEMMA HoldersSteady ==
  ASSUME OInv, UNCHANGED <<peer, mfd, mthread, m_listSocket, listening>>,
         mpc' \in {"insert", "inserting"} <=> mpc \in {"insert", "inserting"},
         mpc' = "create" <=> mpc = "create", mpc = "listen" => mpc' = "listen",
         mpc' = "listen" => mpc = "listen",
         \A t \in Thread : /\ Holds(t)' <=> Holds(t)
                           /\ pc'[t] = "none" <=> pc[t] = "none"
                           /\ pc'[t] = "start" <=> pc[t] = "start"
                           /\ Reading(t)' => Reading(t) /\ sock'[t] = sock[t]
                           /\ Serving(t)' \/ pc'[t] \in {"erase", "erasing"} \/ reqmsg'[t] = None
  PROVE  OInv'
<1>1. \A t \in Thread : Held(t)' = Held(t)
  BY DEF Held, Inserting
<1>2. Inserts'
  BY DEF OInv, Inserts, InsertsForStarting, NoStaleEntry
<1>3. HeldIsOpen' /\ HeldOnce' /\ OpenIsHeld'
  BY <1>1 DEF OInv, HeldIsOpen, HeldOnce, OpenIsHeld, IsOpen
<1>4. NothingRead'
  BY DEF NothingRead
<1> QED
  BY <1>2, <1>3, <1>4 DEF OInv

LEMMA MainKeepsOwn ==
  ASSUME Supplied, SInv, OInv, Main PROVE OInv'
<1>0. Types /\ TypeOK
  BY DEF SInv, Types
<1>1. CASE MainStop \/ MainLoop \/ MainAcceptTimeout \/ MainInsertBegin
  BY <1>1, HoldersSteady
     DEF MainStop, MainLoop, MainAcceptTimeout, MainInsertBegin, kernel, working, OInv,
         NothingRead, Holds, Reading, Serving
<1>2. CASE SetListen
  <2>1. UNCHANGED <<peer, mfd, mthread, m_listSocket, pc, sock, reqmsg>>
        /\ mpc = "listen" /\ mpc' = "loop" /\ listening'
    BY <1>2 DEF SetListen, kernel, working, Supplied
  <2>2. \A t \in Thread : Held(t)' = Held(t) /\ Holds(t)' = Holds(t) /\ Reading(t)' = Reading(t)
    BY <2>1 DEF Held, Inserting, Holds, Reading
  <2> QED
    BY <2>1, <2>2 DEF OInv, Inserts, InsertsForStarting, NoStaleEntry, HeldIsOpen, HeldOnce,
       OpenIsHeld, NothingRead, IsOpen, Serving
<1>3. CASE MainAcceptFails
  <2>1. mpc = "accept" /\ FreeFd = {}
    BY <1>3 DEF MainAcceptFails, OInv, Inserts
  <2> QED
    BY <1>0, <2>1, DescriptorLeft
<1>4. CASE MainAccept
  <2>1. /\ mfd' \in Fd /\ peer[mfd'] = None /\ peer' = [peer EXCEPT ![mfd'] = Head(backlog)]
        /\ Head(backlog) # None
        /\ mpc = "accept" /\ mpc' = "create"
        /\ UNCHANGED <<listening, mthread, m_listSocket, pc, sock, reqmsg>>
    <3>1. FreeFd \subseteq Nat /\ FreeFd # {}
      BY <1>4, AgreementAssumption DEF MainAccept, FreeFd
    <3>2. mfd' \in FreeFd
      BY <1>4, <3>1, MinIsMember DEF MainAccept
    <3>3. Head(backlog) \in Session
      BY <1>0, <1>4 DEF MainAccept, TypeOK
    <3> QED
      BY <1>4, <3>2, <3>3, SessionAssumption DEF MainAccept, FreeFd, working
  <2>2. \A t \in Thread : /\ Held(t)' = Held(t) /\ Holds(t)' = Holds(t)
                          /\ Reading(t)' = Reading(t) /\ Serving(t)' = Serving(t)
    BY <2>1 DEF Held, Inserting, Holds, Reading, Serving
  <2>3. \A f \in Fd : /\ f # mfd' => peer'[f] = peer[f]
                      /\ peer'[mfd'] # None
    BY <1>0, <2>1 DEF TypeOK
  <2>4. \A t \in Thread : Holds(t) => Held(t) # mfd'
    BY <2>1 DEF OInv, HeldIsOpen, IsOpen
  <2>5. Inserts' /\ NothingRead'
    BY <2>1, <2>2 DEF OInv, Inserts, InsertsForStarting, NoStaleEntry, NothingRead
  <2>6. HeldIsOpen' /\ HeldOnce'
    BY <2>1, <2>2, <2>3, <2>4 DEF OInv, HeldIsOpen, HeldOnce, IsOpen
  <2>7. OpenIsHeld'
    BY <2>1, <2>2, <2>3 DEF OInv, OpenIsHeld
  <2> QED
    BY <2>5, <2>6, <2>7 DEF OInv
<1>5. CASE MainCreate
  <2>1. PICK t \in Thread : pc[t] = "none" /\ mthread' = t /\ pc' = [pc EXCEPT ![t] = "start"]
    BY <1>5 DEF MainCreate
  <2>2. /\ mpc = "create" /\ mpc' = "insert"
        /\ UNCHANGED <<peer, listening, mfd, m_listSocket, sock, reqmsg>>
    BY <1>5 DEF MainCreate, kernel
  <2>3. pc'[t] = "start" /\ \A u \in Thread \ {t} : pc'[u] = pc[u]
    BY <1>0, <2>1 DEF TypeOK
  <2>4. /\ Holds(t)' /\ Held(t)' = mfd /\ ~Reading(t)' /\ m_listSocket[t] = None
        /\ reqmsg[t] = None /\ ~Holds(t)
    BY <2>1, <2>2, <2>3
       DEF Holds, Reading, Held, Inserting, OInv, Inserts, NoStaleEntry, NothingRead, Serving
  <2>5. \A u \in Thread \ {t} : /\ Held(u)' = Held(u) /\ Holds(u)' = Holds(u)
                                /\ Reading(u)' = Reading(u) /\ Serving(u)' = Serving(u)
    BY <2>1, <2>2, <2>3 DEF Held, Inserting, Holds, Reading, Serving
  <2>6. Inserts'
    BY <2>1, <2>2, <2>3, <2>4 DEF OInv, Inserts, InsertsForStarting, NoStaleEntry
  <2>7. HeldIsOpen' /\ HeldOnce'
    BY <2>2, <2>4, <2>5 DEF OInv, HeldIsOpen, HeldOnce, IsOpen
  <2>8. OpenIsHeld'
    BY <2>2, <2>4, <2>5 DEF OInv, OpenIsHeld
  <2>9. NothingRead'
    BY <2>2, <2>3, <2>4, <2>5 DEF OInv, NothingRead
  <2> QED
    BY <2>6, <2>7, <2>8, <2>9 DEF OInv
<1>6. CASE MainInsertEnd
  <2>1. /\ mpc = "inserting" /\ mpc' = "loop" /\ mthread \in Thread /\ pc[mthread] = "start"
        /\ m_listSocket' = [m_listSocket EXCEPT ![mthread] = mfd]
        /\ UNCHANGED <<peer, listening, pc, sock, reqmsg>>
    BY <1>0, <1>6 DEF MainInsertEnd, kernel, working, OInv, Inserts, InsertsForStarting, TypeOK
  <2>2. \A t \in Thread : /\ Held(t)' = Held(t) /\ Holds(t)' = Holds(t)
                          /\ Reading(t)' = Reading(t) /\ Serving(t)' = Serving(t)
                          /\ Reading(t) => m_listSocket'[t] = m_listSocket[t]
    BY <1>0, <2>1 DEF Held, Inserting, Holds, Reading, Serving, TypeOK
  <2>3. Inserts'
    BY <1>0, <2>1 DEF OInv, Inserts, InsertsForStarting, NoStaleEntry, TypeOK
  <2> QED
    BY <2>1, <2>2, <2>3 DEF OInv, HeldIsOpen, HeldOnce, OpenIsHeld, NothingRead, IsOpen
<1> QED
  BY <1>1, <1>2, <1>3, <1>4, <1>5, <1>6 DEF Main

LEMMA WorkerKeepsOwn ==
  ASSUME Supplied, SInv, OInv, NEW t \in Thread, Worker(t) PROVE OInv'
<1>0. Types /\ TypeOK
  BY DEF SInv, Types
<1>1. CASE Crash
  BY <1>1, HoldersSteady DEF Crash, kernel, mainVars, working, OInv, NothingRead, Holds, Reading, Serving
(* A step of the thread that neither takes nor gives up a descriptor.      *)
<1>2. ASSUME UNCHANGED <<peer, mainVars, m_listSocket>>,
             pc[t] \notin {"none", "start"}, pc'[t] \notin {"none", "start"},
             \A u \in Thread \ {t} : pc'[u] = pc[u] /\ sock'[u] = sock[u] /\ reqmsg'[u] = reqmsg[u],
             Holds(t)' <=> Holds(t),
             Reading(t)' => sock'[t] = m_listSocket[t],
             Serving(t)' \/ pc'[t] \in {"erase", "erasing"} \/ reqmsg'[t] = None
      PROVE  OInv'
  <2>0. mpc' = mpc /\ mfd' = mfd /\ mthread' = mthread /\ listening' = listening
    BY <1>2 DEF mainVars
  <2>1. \A u \in Thread \ {t} : Holds(u)' = Holds(u) /\ Reading(u)' = Reading(u)
                                /\ Serving(u)' = Serving(u)
    BY <1>2 DEF Holds, Reading, Serving
  <2>2. Inserts'
    BY <1>2, <2>0 DEF OInv, Inserts, InsertsForStarting, NoStaleEntry
  <2>6. \A u \in Thread : Held(u)' = Held(u) /\ (Holds(u)' <=> Holds(u))
    BY <1>2, <2>0, <2>1 DEF Held, Inserting
  <2>7. \A u \in Thread : Reading(u)' => sock'[u] = m_listSocket'[u]
    BY <1>2, <2>1 DEF OInv, HeldIsOpen
  <2>3. HeldIsOpen'
    BY <1>2, <2>6, <2>7 DEF OInv, HeldIsOpen, IsOpen
  <2>4. HeldOnce' /\ OpenIsHeld'
    BY <1>2, <2>0, <2>6 DEF OInv, HeldOnce, OpenIsHeld, IsOpen
  <2>5. NothingRead'
    BY <1>2, <2>1 DEF OInv, NothingRead
  <2> QED
    BY <2>2, <2>3, <2>4, <2>5 DEF OInv
<1>3. CASE LookupBegin(t)
  <2>1. /\ pc[t] = "start" /\ ~Inserting(t) /\ pc' = [pc EXCEPT ![t] = "lookup"]
        /\ UNCHANGED <<peer, mainVars, m_listSocket, sock, reqmsg>>
    BY <1>3 DEF LookupBegin, At, Goto, MainHasInserted, Inserting, kernel, Supplied
  <2>2. pc'[t] = "lookup" /\ \A u \in Thread \ {t} : pc'[u] = pc[u]
    BY <1>0, <2>1 DEF TypeOK
  <2>3. \A u \in Thread : /\ Held(u)' = Held(u) /\ Holds(u)' = Holds(u)
                          /\ Reading(u)' = Reading(u) /\ Serving(u)' = Serving(u)
    BY <2>1, <2>2 DEF Held, Inserting, mainVars, Holds, Reading, Serving
  <2>4. Inserts'
    BY <2>1, <2>2 DEF OInv, Inserts, InsertsForStarting, NoStaleEntry, Inserting, mainVars
  <2>5. NothingRead'
    BY <2>1, <2>2, <2>3 DEF OInv, NothingRead
  <2> QED
    BY <2>1, <2>3, <2>4, <2>5 DEF OInv, HeldIsOpen, HeldOnce, OpenIsHeld, IsOpen, mainVars
<1>4. CASE LookupEnd(t)
  <2>1. /\ pc[t] = "lookup" /\ pc' = [pc EXCEPT ![t] = "header"]
        /\ sock' = [sock EXCEPT ![t] = m_listSocket[t]]
        /\ UNCHANGED <<peer, mainVars, m_listSocket, reqmsg>>
    BY <1>4 DEF LookupEnd, At, Goto, kernel
  <2>2. pc'[t] = "header" /\ sock'[t] = m_listSocket[t] /\ reqmsg'[t] = None
        /\ \A u \in Thread \ {t} : pc'[u] = pc[u] /\ sock'[u] = sock[u] /\ reqmsg'[u] = reqmsg[u]
    BY <1>0, <2>1 DEF TypeOK, OInv, NothingRead, Serving
  <2> QED
    BY <1>2, <2>1, <2>2 DEF Holds, Reading
<1>5. CASE RecvHeader(t) \/ RecvBody(t) \/ Agree(t) \/ Refuse(t) \/ Send(t)
  <2>1. /\ UNCHANGED <<peer, mainVars, m_listSocket, sock>>
        /\ pc[t] \in {"header", "body", "agree", "send"}
        /\ pc' \in {[pc EXCEPT ![t] = l] : l \in {"body", "agree", "send", "close"}}
        /\ \A u \in Thread \ {t} : reqmsg'[u] = reqmsg[u]
        /\ pc'[t] = "body" => reqmsg'[t] = reqmsg[t] /\ pc[t] = "header"
    BY <1>0, <1>5 DEF RecvHeader, RecvBody, Agree, Refuse, Send, At, Goto, kernel, TypeOK
  <2>2. pc'[t] \in {"body", "agree", "send", "close"} /\ \A u \in Thread \ {t} : pc'[u] = pc[u]
    BY <1>0, <2>1 DEF TypeOK
  <2>3. pc'[t] = "body" => reqmsg'[t] = None
    BY <2>1 DEF OInv, NothingRead, Serving
  <2>4. Reading(t) /\ Reading(t)' /\ Holds(t) /\ Holds(t)' /\ sock[t] = m_listSocket[t]
    BY <2>1, <2>2 DEF Reading, Holds, OInv, HeldIsOpen
  <2> QED
    BY <1>2, <2>1, <2>2, <2>3, <2>4 DEF Serving
<1>6. CASE Disconnect(t)
  <2>1. pc[t] = "close" /\ pc' = [pc EXCEPT ![t] = "erase"]
        /\ UNCHANGED <<mainVars, m_listSocket, sock, reqmsg>>
    BY <1>6 DEF Disconnect, At, Goto
  <2>2. pc'[t] = "erase" /\ \A u \in Thread \ {t} : pc'[u] = pc[u]
    BY <1>0, <2>1 DEF TypeOK
  <2>3. Holds(t) /\ Reading(t) /\ ~Inserting(t) /\ sock[t] = Held(t) /\ IsOpen(sock[t])
    BY <2>1 DEF Holds, Reading, Inserting, Held, OInv, Inserts, InsertsForStarting, HeldIsOpen
  <2>4. sock[t] \in Fd /\ peer' = [peer EXCEPT ![sock[t]] = None]
    BY <1>6, <2>3 DEF Disconnect, IsOpen
  <2>5. peer'[sock[t]] = None /\ \A f \in Fd : f # sock[t] => peer'[f] = peer[f]
    BY <1>0, <2>4 DEF TypeOK
  <2>6. \A u \in Thread : /\ Held(u)' = Held(u)
                          /\ u # t => /\ Holds(u)' = Holds(u) /\ Reading(u)' = Reading(u)
                                      /\ Serving(u)' = Serving(u)
    BY <2>1, <2>2 DEF Held, Inserting, mainVars, Holds, Reading, Serving
  <2>7. ~Holds(t)' /\ ~Reading(t)'
    BY <2>2 DEF Holds, Reading
  <2>8. Inserts'
    BY <2>1, <2>2 DEF OInv, Inserts, InsertsForStarting, NoStaleEntry, mainVars
  <2>9. HeldIsOpen' /\ HeldOnce'
    BY <2>1, <2>3, <2>5, <2>6, <2>7 DEF OInv, HeldIsOpen, HeldOnce, IsOpen, mainVars
  <2>10. OpenIsHeld'
    BY <2>1, <2>3, <2>5, <2>6, <2>7 DEF OInv, OpenIsHeld, mainVars
  <2>11. NothingRead'
    BY <2>1, <2>2, <2>6 DEF OInv, NothingRead
  <2> QED
    BY <2>8, <2>9, <2>10, <2>11 DEF OInv
<1>7. CASE EraseBegin(t)
  <2>1. pc[t] = "erase" /\ pc' = [pc EXCEPT ![t] = "erasing"]
        /\ UNCHANGED <<peer, mainVars, m_listSocket, sock, reqmsg>>
    BY <1>7 DEF EraseBegin, At, Goto, kernel
  <2>2. pc'[t] = "erasing" /\ \A u \in Thread \ {t} : pc'[u] = pc[u]
    BY <1>0, <2>1 DEF TypeOK
  <2> QED
    BY <1>2, <2>1, <2>2 DEF Holds, Reading
<1>8. CASE EraseEnd(t)
  <2>1. /\ pc[t] = "erasing" /\ pc' = [pc EXCEPT ![t] = "none"]
        /\ m_listSocket' = [m_listSocket EXCEPT ![t] = None]
        /\ sock' = [sock EXCEPT ![t] = None] /\ reqmsg' = [reqmsg EXCEPT ![t] = None]
        /\ UNCHANGED <<peer, mainVars>>
    BY <1>8 DEF EraseEnd, At, Goto, Erased, kernel
  <2>2. /\ pc'[t] = "none" /\ m_listSocket'[t] = None /\ reqmsg'[t] = None
        /\ \A u \in Thread \ {t} : /\ pc'[u] = pc[u] /\ m_listSocket'[u] = m_listSocket[u]
                                   /\ sock'[u] = sock[u] /\ reqmsg'[u] = reqmsg[u]
    BY <1>0, <2>1 DEF TypeOK
  <2>3. ~Holds(t) /\ ~Holds(t)' /\ ~Reading(t)' /\ ~Inserting(t)
    BY <2>1, <2>2 DEF Holds, Reading, Inserting, OInv, Inserts, InsertsForStarting
  <2>4. \A u \in Thread \ {t} : /\ Held(u)' = Held(u) /\ Holds(u)' = Holds(u)
                                /\ Reading(u)' = Reading(u) /\ Serving(u)' = Serving(u)
    BY <2>1, <2>2 DEF Held, Inserting, mainVars, Holds, Reading, Serving
  <2>5. Inserts'
    BY <2>1, <2>2, <2>3 DEF OInv, Inserts, InsertsForStarting, NoStaleEntry, Inserting, mainVars
  <2>6. HeldIsOpen' /\ HeldOnce' /\ OpenIsHeld'
    BY <2>1, <2>2, <2>3, <2>4 DEF OInv, HeldIsOpen, HeldOnce, OpenIsHeld, IsOpen, mainVars
  <2>7. NothingRead'
    BY <2>2, <2>4 DEF OInv, NothingRead
  <2> QED
    BY <2>5, <2>6, <2>7 DEF OInv
<1> QED
  BY <1>1, <1>3, <1>4, <1>5, <1>6, <1>7, <1>8
     DEF Worker, NullSocket, DecodeNull, SendUninitialised

LEMMA StepOInv == ASSUME Supplied PROVE SInv /\ OInv /\ [Next]_vars => OInv'
<1> SUFFICES ASSUME SInv, OInv, [Next]_vars PROVE OInv'
  OBVIOUS
<1>1. ASSUME UNCHANGED <<peer, listening, mpc, mfd, mthread, m_listSocket, pc, sock, reqmsg>>
      PROVE  OInv'
  BY <1>1, HoldersSteady DEF OInv, NothingRead, Holds, Reading, Serving
<1>2. ASSUME Signal \/ Crash \/ UNCHANGED vars PROVE OInv'
  BY <1>1, <1>2 DEF Signal, Crash, vars, kernel, mainVars, working
<1>3. ASSUME NEW c \in Client, ClientConnect(c) \/ ClientStep(c) \/ ClientKilled(c) PROVE OInv'
  BY <1>1, <1>3 DEF ClientConnect, ClientStep, ClientSend, ClientRecv, ClientDecodeNull,
     ClientKilled, ServerUnchanged, mainVars, working
<1> QED
  BY <1>2, <1>3, MainKeepsOwn, WorkerKeepsOwn DEF Next, MapRace

(* OwnSocket: a thread works on the socket that was accepted for it, alone,*)
(* and closes it before its number is used again, however the operations of*)
(* the map overlap and whatever clients, strangers and signals do.         *)
THEOREM ThreadsOwnSockets == ASSUME Supplied PROVE Spec => []OwnSocket
<1>1. SInv /\ OInv => OwnSocket
  <2> SUFFICES ASSUME SInv, OInv, NEW t \in Thread, Reading(t)
               PROVE  /\ IsOpen(sock[t])
                      /\ \A u \in Thread \ {t} : Reading(u) => sock[u] # sock[t]
                      /\ reqmsg[t] # None => reqmsg[t] = peer[sock[t]]
    BY DEF OwnSocket, Reading
  <2>1. \A u \in Thread : Reading(u) => Holds(u) /\ sock[u] = Held(u) /\ IsOpen(Held(u))
    BY DEF Reading, Holds, Held, Inserting, OInv, Inserts, InsertsForStarting, HeldIsOpen
  <2>2. \A u \in Thread \ {t} : Reading(u) => sock[u] # sock[t]
    BY <2>1 DEF OInv, HeldOnce
  <2>3. reqmsg[t] # None => reqmsg[t] = peer[sock[t]]
    BY DEF OInv, NothingRead, Reading, SInv, ServesPeer, Serving
  <2> QED
    BY <2>1, <2>2, <2>3
<1>2. OInv /\ SInv /\ [Next]_vars => OInv'
  BY StepOInv
<1> QED
  BY <1>1, <1>2, InitOInv, AgreementSInv, PTL DEF Spec
-----------------------------------------------------------------------------
(* The server survives if, besides, its threads are in the map one by one, *)
(* no peer stays silent for 1000 s, and every client has the right ID and  *)
(* lives until it has its answer.                                          *)

Ideal == /\ Supplied
         /\ Exclusive = TRUE /\ Slow = FALSE /\ Stranger = {} /\ Mortal = {}

(* A session that waits for its thread to read the request.                *)
Fresh(s) == up[s] = IF Unsent(s) THEN << >> ELSE <<Length, s>>

(* A session is accepted, served and closed once.                          *)
Unique ==
  /\ \A i, j \in 1 .. Len(backlog) : backlog[i] = backlog[j] => i = j
  /\ \A i \in 1 .. Len(backlog) : /\ backlog[i] \notin shut
                                  /\ \A f \in Fd : peer[f] # backlog[i]
  /\ \A f \in Fd : peer[f] \notin shut
  /\ \A f, g \in Fd : peer[f] # None /\ peer[f] = peer[g] => f = g

Started ==
  \A s \in Session : s[2] > round[s[1]] =>
    /\ s \notin shut /\ \A f \in Fd : peer[f] # s
    /\ \A i \in 1 .. Len(backlog) : backlog[i] # s

Arrives ==
  /\ \A i \in 1 .. Len(backlog) : Fresh(backlog[i])
  /\ mpc = "create" => Fresh(peer[mfd])
  /\ \A t \in Thread : /\ pc[t] \in {"start", "lookup", "header"} => Fresh(peer[Held(t)])
                       /\ pc[t] = "body" => up[peer[Held(t)]] = <<peer[Held(t)]>>

(* A client closes a connection when it has its answer.                    *)
Answered ==
  \A s \in closed : s \in shut \/ made[s] # {} \/ server # "up"

Whole == /\ \A t \in Thread : pc[t] = "send" => outData[t] # Junk
         /\ \A s \in Session : \A i \in 1 .. Len(down[s]) : down[s][i] # Junk

AloneInMap == \A p, q \in inMap : p = q

VInv == /\ Unique /\ Started /\ Arrives /\ Answered /\ Whole /\ AloneInMap
        /\ server # "crashed"

LEMMA InitVInv == Init => VInv
<1> SUFFICES ASSUME Init PROVE VInv
  OBVIOUS
<1>1. /\ backlog = << >> /\ shut = {} /\ closed = {} /\ inMap = {} /\ mpc = "listen"
      /\ server = "up" /\ \A f \in Fd : peer[f] = None
      /\ \A t \in Thread : pc[t] = "none"
      /\ \A s \in Session : down[s] = << >>
  BY DEF Init
<1>2. Unique /\ Started
  BY <1>1, SessionAssumption DEF Unique, Started
<1>3. Arrives
  BY <1>1 DEF Arrives
<1>4. Answered /\ Whole /\ AloneInMap
  BY <1>1 DEF Answered, Whole, AloneInMap
<1> QED
  BY <1>1, <1>2, <1>3, <1>4 DEF VInv

(* What a thread reads from is its own, and the request is on its way or   *)
(* will be: recvMsg does not fail.                                         *)
LEMMA RequestArrives ==
  ASSUME Ideal, SInv, OInv, VInv, NEW t \in Thread, server = "up", pc[t] \in {"header", "body"}
  PROVE  ~RecvFails(t)
<1> DEFINE s == peer[sock[t]]
<1>1. sock[t] = Held(t) /\ IsOpen(sock[t]) /\ sock[t] \in Fd
  BY DEF OInv, HeldIsOpen, Holds, Reading, Held, Inserting, Inserts, InsertsForStarting, IsOpen
<1>2. s \in Session /\ s \notin shut
  <2>1. peer \in [Fd -> Session \cup {None}]
    BY DEF SInv, Types, TypeOK
  <2> QED
    BY <1>1, <2>1 DEF IsOpen, VInv, Unique
<1>3. /\ pc[t] = "header" => Fresh(s)
      /\ pc[t] = "body" => up[s] = <<s>>
  BY <1>1 DEF VInv, Arrives
<1> HIDE DEF s
<1>4. made[s] = {}
  BY <1>2, <1>3 DEF Fresh, SInv, RequestOnce, UnsentUnserved
<1>5. s \notin closed
  BY <1>2, <1>4 DEF VInv, Answered
<1>6. up[s] # << >> => (pc[t] = "header" <=> Head(up[s]) = Length)
  BY <1>2, <1>3, SessionIsPair DEF Fresh
<1> QED
  BY <1>1, <1>5, <1>6 DEF RecvFails, Receivable, Received, Ideal, s

(* The steps of a server that does not crash and of its clients.           *)
Calm ==
  \/ Signal \/ SetListen \/ MainStop \/ MainLoop \/ MainAccept \/ MainAcceptTimeout
  \/ MainCreate \/ MainInsertBegin \/ MainInsertEnd
  \/ \E t \in Thread : \/ LookupBegin(t) \/ LookupEnd(t) \/ RecvHeader(t) \/ RecvBody(t)
                       \/ Agree(t) \/ Send(t) \/ Disconnect(t) \/ EraseBegin(t) \/ EraseEnd(t)
  \/ \E c \in Client : \/ ClientConnect(c) \/ ClientSend(c) \/ ClientRecv(c)
                       \/ ClientDecodeNull(c)

LEMMA OnlyCalm == ASSUME Ideal, SInv, OInv, VInv, Next PROVE Calm
<1>1. ~MapRace
  <2>1. CASE inMap = {}
    BY <2>1, FS_EmptySet DEF MapRace
  <2>2. CASE inMap # {}
    <3>1. PICK p \in inMap : inMap = {p}
      BY <2>2 DEF VInv, AloneInMap
    <3>2. Cardinality(inMap) = 1
      BY <3>1, FS_Singleton
    <3> QED
      BY <3>2 DEF MapRace
  <2> QED
    BY <2>1, <2>2
<1>2. ~MainAcceptFails
  BY DescriptorLeft DEF MainAcceptFails, Ideal, OInv, Inserts, SInv, Types
<1>3. ASSUME NEW t \in Thread PROVE ~NullSocket(t)
  <2> SUFFICES ASSUME pc[t] = "lookup", m_listSocket[t] = None PROVE FALSE
    BY DEF NullSocket, At
  <2>1. IsOpen(Held(t)) /\ Held(t) = m_listSocket[t]
    BY DEF OInv, HeldIsOpen, Holds, Held, Inserting, Inserts, InsertsForStarting
  <2> QED
    BY <2>1, AgreementAssumption DEF IsOpen
<1>4. ASSUME NEW t \in Thread PROVE ~DecodeNull(t)
  BY RequestArrives DEF DecodeNull, At
<1>5. ASSUME NEW t \in Thread PROVE ~Refuse(t)
  BY DEF Refuse, Authentic, Ideal
<1>6. ASSUME NEW t \in Thread PROVE ~SendUninitialised(t)
  BY DEF SendUninitialised, At, VInv, Whole
<1>7. ASSUME NEW c \in Client PROVE ~ClientKilled(c)
  BY DEF ClientKilled, Ideal
<1> QED
  BY <1>1, <1>2, <1>3, <1>4, <1>5, <1>6, <1>7 DEF Next, Main, Worker, ClientStep, Calm

LEMMA KeepsAlone ==
  ASSUME Ideal, VInv, Calm PROVE AloneInMap' /\ server' # "crashed"
<1>1. \/ inMap' = inMap
      \/ inMap = {} /\ \E p : inMap' = inMap \cup {p}
      \/ \E p : inMap' = inMap \ {p}
  BY DEF Calm, Signal, SetListen, MainStop, MainLoop, MainAccept, MainAcceptTimeout, MainCreate,
     MainInsertBegin, MainInsertEnd, LookupBegin, LookupEnd, RecvHeader, RecvBody, Agree, Send,
     Disconnect, EraseBegin, EraseEnd, ClientConnect, ClientSend, ClientRecv, ClientDecodeNull,
     ServerUnchanged, Enter, Leave, Ideal
<1>2. server' = server \/ server' = "exited"
  BY DEF Calm, Signal, SetListen, MainStop, MainLoop, MainAccept, MainAcceptTimeout, MainCreate,
     MainInsertBegin, MainInsertEnd, LookupBegin, LookupEnd, RecvHeader, RecvBody, Agree, Send,
     Disconnect, EraseBegin, EraseEnd, ClientConnect, ClientSend, ClientRecv, ClientDecodeNull,
     ServerUnchanged
<1> QED
  BY <1>1, <1>2 DEF VInv, AloneInMap

LEMMA KeepsWhole == ASSUME SInv, VInv, Calm PROVE Whole'
<1>0. Types /\ TypeOK /\ TakesNext /\ Whole
  BY DEF SInv, Types, VInv
<1>1. ASSUME down' = down,
             \A t \in Thread : pc'[t] = "send" => pc[t] = "send" /\ outData'[t] = outData[t]
      PROVE  Whole'
  BY <1>0, <1>1 DEF Whole
<1>2. ASSUME NEW t \in Thread, Agree(t) PROVE Whole'
  <2>1. /\ down' = down /\ \A u \in Thread \ {t} : pc'[u] = pc[u] /\ outData'[u] = outData[u]
        /\ \E r : outData'[t] = [to |-> reqmsg[t][1], r2 |-> r]
    <3>1. PICK r \in R2 : outData' = [outData EXCEPT ![t] = [to |-> reqmsg[t][1], r2 |-> r]]
      BY <1>2 DEF Agree
    <3>2. down' = down /\ pc' = [pc EXCEPT ![t] = "send"]
      BY <1>2 DEF Agree, Goto, kernel
    <3> QED
      BY <1>0, <3>1, <3>2 DEF Types, TypeOK
  <2>2. reqmsg[t][1] # None
    BY <1>2, SessionIsPair, AgreementAssumption DEF Agree, At, SInv, ServesPeer, Serving
  <2>3. outData'[t] # Junk
    BY <2>1, <2>2 DEF Junk
  <2> QED
    BY <1>0, <2>1, <2>3 DEF Whole
<1>3. ASSUME NEW t \in Thread, Send(t) PROVE Whole'
  <2>1. /\ pc[t] = "send" /\ pc'[t] # "send" /\ outData' = outData
        /\ \A u \in Thread \ {t} : pc'[u] = pc[u]
    BY <1>0, <1>3 DEF Send, At, Goto, TypeOK
  <2>2. \/ down' = down
        \/ \E q \in Session : down' = [down EXCEPT ![q] = Append(down[q], outData[t])]
    BY <1>0, <1>3 DEF Send, IsOpen, TypeOK
  <2>3. ASSUME NEW q \in Session, down' = [down EXCEPT ![q] = Append(down[q], outData[t])],
               NEW s \in Session, NEW i \in 1 .. Len(down'[s])
        PROVE  down'[s][i] # Junk
    <3>1. CASE s = q
      <4>1. /\ down[s] \in Seq(Answer \cup {Junk}) /\ outData[t] \in Answer \cup {Junk, None}
            /\ down'[s] = Append(down[s], outData[t]) /\ outData[t] # Junk
        BY <1>0, <2>1, <2>3, <3>1 DEF Types, Whole
      <4>2. Len(down'[s]) = Len(down[s]) + 1
        BY <4>1
      <4>3. CASE i = Len(down[s]) + 1
        BY <4>1, <4>3
      <4>4. CASE i \in 1 .. Len(down[s])
        BY <1>0, <4>1, <4>4 DEF Whole
      <4> QED
        BY <4>1, <4>2, <4>3, <4>4
    <3>2. CASE s # q
      BY <1>0, <2>3, <3>2 DEF Types, Whole
    <3> QED
      BY <3>1, <3>2
  <2> QED
    BY <1>0, <2>1, <2>2, <2>3 DEF Whole
<1>4. ASSUME NEW c \in Client, ClientRecv(c) PROVE Whole'
  <2>1. /\ UNCHANGED <<pc, outData>> /\ down[Now(c)] # << >>
        /\ down' = [down EXCEPT ![Now(c)] = Tail(down[Now(c)])]
    BY <1>4 DEF ClientRecv, ServerUnchanged, working
  <2>2. ASSUME NEW s \in Session, NEW i \in 1 .. Len(down'[s]) PROVE down'[s][i] # Junk
    <3>1. down[s] \in Seq(Answer \cup {Junk})
      BY <1>0 DEF Types
    <3>2. CASE s = Now(c)
      <4>1. down'[s] = Tail(down[s]) /\ down[s] # << >>
        BY <1>0, <2>1, <3>2 DEF Types
      <4>2. i + 1 \in 1 .. Len(down[s]) /\ down'[s][i] = down[s][i + 1]
        BY <2>2, <3>1, <4>1
      <4> QED
        BY <1>0, <4>2 DEF Whole
    <3>3. CASE s # Now(c)
      BY <1>0, <2>1, <2>2, <3>3 DEF Types, Whole
    <3> QED
      BY <3>2, <3>3
  <2> QED
    BY <1>0, <2>1, <2>2 DEF Whole
<1>5. CASE \/ Signal \/ SetListen \/ MainStop \/ MainLoop \/ MainAccept \/ MainAcceptTimeout
           \/ MainInsertBegin \/ MainInsertEnd
  BY <1>1, <1>5 DEF Signal, SetListen, MainStop, MainLoop, MainAccept, MainAcceptTimeout,
     MainInsertBegin, MainInsertEnd, kernel, working
<1>6. CASE \E c \in Client : ClientConnect(c) \/ ClientSend(c) \/ ClientDecodeNull(c)
  BY <1>1, <1>6 DEF ClientConnect, ClientSend, ClientDecodeNull, ServerUnchanged, working
<1>7. CASE MainCreate
  BY <1>0, <1>1, <1>7 DEF MainCreate, TypeOK, kernel
<1>8. ASSUME NEW t \in Thread, \/ LookupBegin(t) \/ LookupEnd(t) \/ RecvHeader(t) \/ RecvBody(t)
                               \/ Disconnect(t) \/ EraseBegin(t) \/ EraseEnd(t)
      PROVE  Whole'
  <2>1. /\ down' = down
        /\ \E l \in {"lookup", "header", "body", "agree", "erase", "erasing", "none"} :
             pc' = [pc EXCEPT ![t] = l]
        /\ outData' = outData \/ outData' = [outData EXCEPT ![t] = None]
    BY <1>8 DEF LookupBegin, LookupEnd, RecvHeader, RecvBody, Disconnect, EraseBegin, EraseEnd,
       Goto, kernel
  <2> QED
    BY <1>0, <1>1, <2>1 DEF Types, TypeOK
<1> QED
  BY <1>2, <1>3, <1>4, <1>5, <1>6, <1>7, <1>8 DEF Calm

LEMMA KeepsAnswered == ASSUME Ideal, SInv, VInv, Calm PROVE Answered'
<1>0. Types /\ TypeOK /\ TakesNext /\ Answered /\ closed \subseteq Session
  BY DEF SInv, Types, TypeOK, VInv
<1>1. ASSUME closed' = closed, shut \subseteq shut', server' = server \/ server' # "up",
             \A s \in Session : made[s] \subseteq made'[s]
      PROVE  Answered'
  BY <1>0, <1>1 DEF Answered
<1>2. ASSUME NEW c \in Client, ClientRecv(c) \/ ClientDecodeNull(c) PROVE Answered'
  <2>1. /\ cpc[c] = "waiting" /\ closed' = closed \cup {Now(c)}
        /\ UNCHANGED <<shut, made, server>>
        /\ \/ down[Now(c)] # << >>
           \/ Lost(Now(c))
    BY <1>2, NowIsSession DEF ClientRecv, ClientDecodeNull, ClientIs, ServerUnchanged, Lost, Ideal
  <2>2. Now(c) \in Session
    BY <1>0, <2>1, NowIsSession
  <2>3. Now(c) \in shut \/ made[Now(c)] # {} \/ server # "up"
    <3>1. CASE down[Now(c)] # << >>
      <4>1. down[Now(c)] \in Seq(Answer \cup {Junk})
        BY <1>0, <2>2 DEF Types
      <4>2. 1 \in 1 .. Len(down[Now(c)])
        BY <3>1, <4>1
      <4>3. down[Now(c)][1] # Junk
        BY <2>2, <4>2 DEF VInv, Whole
      <4> QED
        BY <2>2, <4>2, <4>3 DEF SInv, KeyOnItsWay
    <3> QED
      BY <2>1, <3>1 DEF Lost
  <2> QED
    BY <1>0, <2>1, <2>3 DEF Answered
<1>3. ASSUME NEW t \in Thread, Agree(t) PROVE Answered'
  <2>1. /\ UNCHANGED <<closed, shut, server>>
        /\ \E r : made' = [made EXCEPT ![reqmsg[t]] = made[reqmsg[t]] \cup {r}]
    BY <1>3 DEF Agree, kernel
  <2>2. \A s \in Session : made[s] \subseteq made'[s]
    BY <1>0, <2>1 DEF TypeOK
  <2> QED
    BY <1>1, <2>1, <2>2
<1>4. CASE \/ Signal \/ SetListen \/ MainStop \/ MainLoop \/ MainAccept \/ MainAcceptTimeout
           \/ MainCreate \/ MainInsertBegin \/ MainInsertEnd
  BY <1>1, <1>4 DEF Signal, SetListen, MainStop, MainLoop, MainAccept, MainAcceptTimeout,
     MainCreate, MainInsertBegin, MainInsertEnd, kernel
<1>5. CASE \E c \in Client : ClientConnect(c) \/ ClientSend(c)
  BY <1>1, <1>5 DEF ClientConnect, ClientSend, ServerUnchanged
<1>6. CASE \E t \in Thread : \/ LookupBegin(t) \/ LookupEnd(t) \/ RecvHeader(t) \/ RecvBody(t)
                             \/ Send(t) \/ Disconnect(t) \/ EraseBegin(t) \/ EraseEnd(t)
  BY <1>1, <1>6 DEF LookupBegin, LookupEnd, RecvHeader, RecvBody, Send, Disconnect, EraseBegin,
     EraseEnd, kernel
<1> QED
  BY <1>2, <1>3, <1>4, <1>5, <1>6 DEF Calm

(* The sessions of the others are not the one a thread holds.              *)
LEMMA OtherSessions ==
  ASSUME SInv, OInv, VInv, NEW t \in Thread, Holds(t)
  PROVE  /\ Held(t) \in Fd /\ peer[Held(t)] \in Session
         /\ \A i \in 1 .. Len(backlog) : backlog[i] # peer[Held(t)]
         /\ mpc = "create" => mfd \in Fd /\ peer[mfd] # peer[Held(t)]
         /\ \A u \in Thread \ {t} : Holds(u) => peer[Held(u)] # peer[Held(t)]
<1>1. /\ IsOpen(Held(t)) /\ \A u \in Thread \ {t} : Holds(u) => IsOpen(Held(u)) /\ Held(u) # Held(t)
      /\ mpc = "create" => IsOpen(mfd) /\ mfd # Held(t)
  BY DEF OInv, HeldIsOpen, HeldOnce
<1>2. peer \in [Fd -> Session \cup {None}]
  BY DEF SInv, Types, TypeOK
<1> QED
  BY <1>1, <1>2 DEF IsOpen, VInv, Unique

LEMMA KeepsUnique == ASSUME SInv, OInv, VInv, Calm PROVE Unique' /\ Started'
<1>0. Types /\ TypeOK /\ TakesNext /\ Unique /\ Started
  BY DEF SInv, Types, VInv
<1>1. ASSUME UNCHANGED <<backlog, peer, shut, round>> PROVE Unique' /\ Started'
  BY <1>0, <1>1 DEF Unique, Started
<1>2. CASE MainAccept
  <2> DEFINE s == Head(backlog)
  <2>1. /\ backlog # << >> /\ backlog' = Tail(backlog) /\ UNCHANGED <<shut, round>>
        /\ peer' = [peer EXCEPT ![mfd'] = s]
    BY <1>2 DEF MainAccept, clients
  <2>2. /\ backlog \in Seq(Session) /\ 1 \in 1 .. Len(backlog) /\ s = backlog[1] /\ s \in Session
        /\ \A i \in 1 .. Len(backlog') : /\ i + 1 \in 1 .. Len(backlog)
                                         /\ backlog'[i] = backlog[i + 1] /\ 1 # i + 1
        /\ \A i, j \in 1 .. Len(backlog') : i + 1 = j + 1 => i = j
    BY <1>0, <2>1 DEF TypeOK
  <2>3. \A f \in Fd : peer'[f] = peer[f] \/ (f = mfd' /\ peer'[f] = s)
    BY <1>0, <2>1 DEF TypeOK
  <2> HIDE DEF s
  <2>4. \A i \in 1 .. Len(backlog') : backlog'[i] # s
    BY <1>0, <2>2 DEF Unique
  <2>5. \A i, j \in 1 .. Len(backlog') : backlog'[i] = backlog'[j] => i = j
    BY <1>0, <2>2 DEF Unique
  <2>6. \A i \in 1 .. Len(backlog') : /\ backlog'[i] \notin shut'
                                      /\ \A f \in Fd : peer'[f] # backlog'[i]
    BY <1>0, <2>1, <2>2, <2>3, <2>4 DEF Unique
  <2>7. \A f \in Fd : peer'[f] \notin shut'
    BY <1>0, <2>1, <2>2, <2>3 DEF Unique
  <2>8. \A f, g \in Fd : peer'[f] # None /\ peer'[f] = peer'[g] => f = g
    BY <1>0, <2>2, <2>3 DEF Unique
  <2>9. Started'
    BY <1>0, <2>1, <2>2, <2>3 DEF Started
  <2> QED
    BY <2>5, <2>6, <2>7, <2>8, <2>9 DEF Unique
<1>3. ASSUME NEW t \in Thread, Disconnect(t) PROVE Unique' /\ Started'
  <2> DEFINE s == peer[sock[t]]
  <2>1. Holds(t) /\ sock[t] = Held(t) /\ IsOpen(sock[t])
    BY <1>3 DEF Disconnect, At, Holds, Reading, Held, Inserting, OInv, Inserts,
       InsertsForStarting, HeldIsOpen
  <2>2. /\ UNCHANGED <<backlog, round>> /\ shut' = shut \cup {s}
        /\ peer' = [peer EXCEPT ![sock[t]] = None]
    BY <1>3, <2>1 DEF Disconnect, clients
  <2>3. s \in Session /\ s # None /\ sock[t] \in Fd
    BY <2>1, OtherSessions DEF IsOpen
  <2>4. \A f \in Fd : peer'[f] = IF f = sock[t] THEN None ELSE peer[f]
    BY <1>0, <2>2 DEF TypeOK
  <2>5. \A i \in 1 .. Len(backlog) : backlog[i] # s /\ backlog[i] \in Session
    BY <1>0, <2>1, OtherSessions DEF TypeOK
  <2>6. \A f \in Fd : peer'[f] # s
    BY <1>0, <2>3, <2>4 DEF Unique
  <2>7. s[2] <= round[s[1]]
    <3>1. s[2] \in Nat /\ round[s[1]] \in Nat /\ ~(s[2] > round[s[1]])
      BY <1>0, <2>3, SessionIsPair, AgreementAssumption DEF Started, TypeOK
    <3> QED
      BY <3>1
  <2>8. None \notin shut'
    BY <1>0, <2>2, <2>3, SessionAssumption DEF TypeOK
  <2> HIDE DEF s
  <2>9. Unique'
    BY <1>0, <2>2, <2>4, <2>5, <2>6, <2>8, SessionAssumption DEF Unique
  <2>10. Started'
    <3> SUFFICES ASSUME NEW q \in Session, q[2] > round[q[1]]
                 PROVE  /\ q \notin shut' /\ \A f \in Fd : peer'[f] # q
                        /\ \A i \in 1 .. Len(backlog) : backlog[i] # q
      BY <2>2 DEF Started
    <3>1. q # s
      <4>1. s[2] \in Nat /\ round[s[1]] \in Nat
        BY <1>0, <2>3, SessionIsPair, AgreementAssumption DEF TypeOK
      <4> QED
        BY <2>7, <4>1
    <3> QED
      BY <1>0, <2>2, <2>4, <3>1, SessionAssumption DEF Started
  <2> QED
    BY <2>9, <2>10
<1>4. ASSUME NEW c \in Client, ClientConnect(c) PROVE Unique' /\ Started'
  <2> DEFINE s == <<c, round[c] + 1>>
  <2>1. /\ UNCHANGED <<peer, shut>> /\ round' = [round EXCEPT ![c] = round[c] + 1]
        /\ round[c] < Rounds[c] /\ round[c] \in Nat
    BY <1>0, <1>4 DEF ClientConnect, TypeOK
  <2>2. backlog' = Append(backlog, s) \/ backlog' = backlog
    BY <1>0, <1>4, <2>1 DEF ClientConnect, TypeOK
  <2>3. s \in Session /\ s[2] > round[s[1]]
    BY <2>1, SessionIsPair, AgreementAssumption
  <2>4. s \notin shut /\ \A f \in Fd : peer[f] # s /\ \A i \in 1 .. Len(backlog) : backlog[i] # s
    BY <1>0, <2>3 DEF Started
  <2>5. \A q \in Session : q[2] > round'[q[1]] => q # s /\ q[2] > round[q[1]]
    <3> SUFFICES ASSUME NEW q \in Session, q[2] > round'[q[1]]
                 PROVE  q # s /\ q[2] > round[q[1]]
      OBVIOUS
    <3>1. q[1] \in Client /\ q[2] \in Nat /\ round[q[1]] \in Nat
      BY <1>0, SessionIsPair, AgreementAssumption DEF TypeOK
    <3>2. round'[q[1]] = IF q[1] = c THEN round[c] + 1 ELSE round[q[1]]
      BY <1>0, <2>1, <3>1 DEF TypeOK
    <3> QED
      BY <2>1, <3>1, <3>2
  <2>6. backlog \in Seq(Session)
    BY <1>0 DEF TypeOK
  <2> HIDE DEF s
  <2>7. CASE backlog' = Append(backlog, s)
    <3>1. \A i \in 1 .. Len(backlog') : \/ i \in 1 .. Len(backlog) /\ backlog'[i] = backlog[i]
                                        \/ i = Len(backlog) + 1 /\ backlog'[i] = s
      BY <2>3, <2>6, <2>7
    <3>2. \A i \in 1 .. Len(backlog) : backlog[i] # s
      BY <1>0, <2>3 DEF Started
    <3>3. Unique'
      BY <1>0, <2>1, <2>4, <3>1, <3>2 DEF Unique
    <3>4. Started'
      BY <1>0, <2>1, <2>5, <3>1 DEF Started
    <3> QED
      BY <3>3, <3>4
  <2>8. CASE backlog' = backlog
    BY <1>0, <2>1, <2>5, <2>8 DEF Unique, Started
  <2> QED
    BY <2>2, <2>7, <2>8
<1>5. CASE \/ Signal \/ SetListen \/ MainStop \/ MainLoop \/ MainAcceptTimeout
           \/ MainCreate \/ MainInsertBegin \/ MainInsertEnd
  BY <1>1, <1>5 DEF Signal, SetListen, MainStop, MainLoop, MainAcceptTimeout,
     MainCreate, MainInsertBegin, MainInsertEnd, kernel, clients
<1>6. CASE \E c \in Client : ClientSend(c) \/ ClientRecv(c) \/ ClientDecodeNull(c)
  BY <1>1, <1>6 DEF ClientSend, ClientRecv, ClientDecodeNull
<1>7. CASE \E t \in Thread : \/ LookupBegin(t) \/ LookupEnd(t) \/ RecvHeader(t) \/ RecvBody(t)
                             \/ Agree(t) \/ Send(t) \/ EraseBegin(t) \/ EraseEnd(t)
  BY <1>1, <1>7 DEF LookupBegin, LookupEnd, RecvHeader, RecvBody, Agree, Send, EraseBegin,
     EraseEnd, kernel, clients
<1> QED
  BY <1>2, <1>3, <1>4, <1>5, <1>6, <1>7 DEF Calm

(* A step that leaves the requests and the descriptors where they are.     *)
LEMMA ArrivesSteady ==
  ASSUME VInv, UNCHANGED <<backlog, peer, mfd>>,
         \A s \in Session : Fresh(s) => Fresh(s)',
         SInv, UNCHANGED up,
         mpc' = "create" => mpc = "create" /\ IsOpen(mfd),
         \A t \in Thread :
           /\ pc'[t] \in {"start", "lookup", "header"} =>
                /\ pc[t] \in {"start", "lookup", "header"}
                /\ Held(t)' = Held(t) /\ IsOpen(Held(t))
           /\ pc'[t] = "body" => pc[t] = "body" /\ Held(t)' = Held(t) /\ IsOpen(Held(t))
  PROVE  Arrives'
<1>1. peer \in [Fd -> Session \cup {None}] /\ backlog \in Seq(Session)
  BY DEF SInv, Types, TypeOK
<1>2. \A i \in 1 .. Len(backlog) : Fresh(backlog[i])'
  BY <1>1 DEF VInv, Arrives
<1>3. mpc' = "create" => Fresh(peer[mfd])'
  BY <1>1 DEF VInv, Arrives, IsOpen
<1>4. ASSUME NEW t \in Thread, pc'[t] \in {"start", "lookup", "header"} PROVE Fresh(peer[Held(t)])'
  <2>1. Fresh(peer[Held(t)]) /\ peer[Held(t)] \in Session /\ Held(t)' = Held(t)
    BY <1>1, <1>4 DEF VInv, Arrives, IsOpen
  <2> QED
    BY <2>1
<1>5. ASSUME NEW t \in Thread, pc'[t] = "body" PROVE up'[peer'[Held(t)']] = <<peer'[Held(t)']>>
  BY <1>5 DEF VInv, Arrives
<1> QED
  BY <1>2, <1>3, <1>4, <1>5 DEF Arrives

LEMMA KeepsArrives == ASSUME Ideal, SInv, OInv, VInv, Calm PROVE Arrives'
<1>0. Types /\ TypeOK /\ TakesNext /\ Arrives
  BY DEF SInv, Types, VInv
<1>1. \A t \in Thread : Holds(t) => IsOpen(Held(t))
  BY DEF OInv, HeldIsOpen
<1>2. mpc = "create" => IsOpen(mfd)
  BY DEF OInv, HeldOnce
<1>3. \A t \in Thread : pc[t] \in {"start", "lookup", "header", "body"} => Holds(t)
  BY DEF Holds, Reading
<1>4. ASSUME UNCHANGED <<up, cpc, round>> PROVE \A s \in Session : Fresh(s)' = Fresh(s)
  BY <1>4 DEF Fresh, Unsent
(* The steps of the main thread.                                           *)
<1>5. CASE \/ Signal \/ SetListen \/ MainStop \/ MainLoop \/ MainAcceptTimeout
           \/ MainInsertBegin \/ MainInsertEnd
  <2>1. /\ UNCHANGED <<backlog, peer, up, cpc, round, pc>>
        /\ mpc' = "create" => mpc = "create"
    BY <1>5 DEF Signal, SetListen, MainStop, MainLoop, MainAcceptTimeout, MainInsertBegin,
       MainInsertEnd, kernel, working, clients
  <2>2. CASE ~MainInsertEnd
    <3>1. UNCHANGED <<mfd, mthread, m_listSocket>>
          /\ (mpc' \in {"insert", "inserting"} <=> mpc \in {"insert", "inserting"})
      BY <1>5, <2>2 DEF Signal, SetListen, MainStop, MainLoop, MainAcceptTimeout, MainInsertBegin
    <3>2. \A t \in Thread : Held(t)' = Held(t)
      BY <3>1 DEF Held, Inserting
    <3> QED
      BY <1>1, <1>2, <1>3, <1>4, <2>1, <3>1, <3>2, ArrivesSteady
  <2>3. CASE MainInsertEnd
    <3>1. /\ mpc = "inserting" /\ mpc' = "loop" /\ mthread \in Thread
          /\ m_listSocket' = [m_listSocket EXCEPT ![mthread] = mfd]
      BY <2>3 DEF MainInsertEnd, OInv, Inserts, InsertsForStarting
    <3>2. \A t \in Thread : Held(t)' = Held(t)
      BY <1>0, <3>1 DEF Held, Inserting, TypeOK
    <3>3. \A s \in Session : Fresh(s)' = Fresh(s)
      BY <1>4, <2>1
    <3>4. \A t \in Thread :
            pc[t] \in {"start", "lookup", "header", "body"} => peer[Held(t)] \in Session
      BY <1>3, OtherSessions
    <3>5. \A i \in 1 .. Len(backlog) : backlog[i] \in Session
      BY <1>0 DEF TypeOK
    <3> QED
      BY <1>0, <2>1, <3>1, <3>2, <3>3, <3>4, <3>5 DEF Arrives
  <2> QED
    BY <2>2, <2>3
<1>6. CASE MainAccept
  <2>1. /\ mfd' \in Fd /\ peer[mfd'] = None /\ peer' = [peer EXCEPT ![mfd'] = Head(backlog)]
        /\ backlog # << >> /\ backlog' = Tail(backlog)
        /\ mpc = "accept" /\ mpc' = "create"
        /\ UNCHANGED <<up, cpc, round, mthread, m_listSocket, pc>>
    <3>1. FreeFd \subseteq Nat /\ FreeFd # {}
      BY <1>6, AgreementAssumption DEF MainAccept, FreeFd
    <3>2. mfd' \in FreeFd
      BY <1>6, <3>1, MinIsMember DEF MainAccept
    <3> QED
      BY <1>6, <3>2 DEF MainAccept, FreeFd, working, clients
  <2>2. \A t \in Thread : Held(t)' = Held(t)
    BY <2>1 DEF Held, Inserting
  <2>3. \A t \in Thread : Holds(t) => peer'[Held(t)] = peer[Held(t)] /\ peer[Held(t)] \in Session
    BY <1>0, <1>1, <2>1, OtherSessions DEF IsOpen, TypeOK
  <2>4. \A s \in Session : Fresh(s)' = Fresh(s)
    BY <1>4, <2>1
  <2>5. /\ peer'[mfd'] = backlog[1] /\ 1 \in 1 .. Len(backlog) /\ backlog[1] \in Session
        /\ \A i \in 1 .. Len(backlog') : /\ i + 1 \in 1 .. Len(backlog)
                                         /\ backlog'[i] = backlog[i + 1]
                                         /\ backlog[i + 1] \in Session
    BY <1>0, <2>1 DEF TypeOK
  <2>6. Fresh(peer[mfd])'
    BY <1>0, <2>4, <2>5 DEF Arrives
  <2>7. \A i \in 1 .. Len(backlog') : Fresh(backlog[i])'
    BY <1>0, <2>4, <2>5 DEF Arrives
  <2>8. \A t \in Thread :
          /\ pc[t] \in {"start", "lookup", "header"} => Fresh(peer[Held(t)])'
          /\ pc[t] = "body" => up'[peer'[Held(t)']] = <<peer'[Held(t)']>>
    BY <1>0, <1>3, <2>1, <2>2, <2>3, <2>4 DEF Arrives
  <2> QED
    BY <2>1, <2>6, <2>7, <2>8 DEF Arrives
<1>7. CASE MainCreate
  <2>1. PICK t \in Thread : pc[t] = "none" /\ mthread' = t /\ pc' = [pc EXCEPT ![t] = "start"]
    BY <1>7 DEF MainCreate
  <2>2. /\ mpc = "create" /\ mpc' = "insert"
        /\ UNCHANGED <<backlog, peer, up, cpc, round, mfd, m_listSocket>>
    BY <1>7 DEF MainCreate, kernel, clients
  <2>3. pc'[t] = "start" /\ \A u \in Thread \ {t} : pc'[u] = pc[u]
    BY <1>0, <2>1 DEF TypeOK
  <2>4. Held(t)' = mfd /\ \A u \in Thread \ {t} : Held(u)' = Held(u)
    BY <2>1, <2>2 DEF Held, Inserting
  <2>5. \A s \in Session : Fresh(s)' = Fresh(s)
    BY <1>4, <2>2
  <2>6. peer[mfd] \in Session /\ \A u \in Thread : Holds(u) => peer[Held(u)] \in Session
    BY <1>0, <1>2, <2>2, OtherSessions DEF IsOpen, TypeOK
  <2>7. \A i \in 1 .. Len(backlog) : backlog[i] \in Session
    BY <1>0 DEF TypeOK
  <2> QED
    BY <1>0, <1>3, <2>2, <2>3, <2>4, <2>5, <2>6, <2>7 DEF Arrives
(* The steps of a thread.                                                  *)
<1>8. ASSUME NEW t \in Thread, Disconnect(t) PROVE Arrives'
  <2>1. Holds(t) /\ sock[t] = Held(t) /\ IsOpen(sock[t])
    BY <1>8 DEF Disconnect, At, Holds, Reading, Held, Inserting, OInv, Inserts,
       InsertsForStarting, HeldIsOpen
  <2>2. /\ UNCHANGED <<backlog, up, cpc, round, mpc, mfd, mthread, m_listSocket>>
        /\ peer' = [peer EXCEPT ![Held(t)] = None] /\ pc' = [pc EXCEPT ![t] = "erase"]
    BY <1>8, <2>1 DEF Disconnect, Goto, clients, mainVars
  <2>3. pc'[t] = "erase" /\ \A u \in Thread \ {t} : pc'[u] = pc[u]
    BY <1>0, <2>2 DEF TypeOK
  <2>4. \A u \in Thread : Held(u)' = Held(u)
    BY <2>2 DEF Held, Inserting
  <2>5. \A s \in Session : Fresh(s)' = Fresh(s)
    BY <1>4, <2>2
  <2>6. \A u \in Thread \ {t} : Holds(u) => Held(u) # Held(t)
    BY <2>1 DEF OInv, HeldOnce
  <2>7. \A u \in Thread \ {t} : Holds(u) =>
          peer'[Held(u)] = peer[Held(u)] /\ peer[Held(u)] \in Session
    BY <1>0, <1>1, <2>2, <2>6, OtherSessions DEF IsOpen, TypeOK
  <2>8. mpc = "create" => peer'[mfd] = peer[mfd] /\ peer[mfd] \in Session
    <3>1. mpc = "create" => mfd # Held(t)
      BY <2>1 DEF OInv, HeldOnce
    <3> QED
      BY <1>0, <1>2, <2>2, <3>1 DEF IsOpen, TypeOK
  <2>9. \A i \in 1 .. Len(backlog) : backlog[i] \in Session
    BY <1>0 DEF TypeOK
  <2>10. \A i \in 1 .. Len(backlog) : Fresh(backlog[i])'
    BY <1>0, <2>2, <2>5, <2>9 DEF Arrives
  <2>11. mpc = "create" => Fresh(peer[mfd])'
    BY <1>0, <2>2, <2>5, <2>8 DEF Arrives
  <2>12. \A u \in Thread \ {t} :
           /\ pc[u] \in {"start", "lookup", "header"} => Fresh(peer[Held(u)])'
           /\ pc[u] = "body" => up'[peer'[Held(u)]] = <<peer'[Held(u)]>>
    BY <1>0, <1>3, <2>2, <2>4, <2>5, <2>7 DEF Arrives
  <2> QED
    BY <2>2, <2>3, <2>4, <2>10, <2>11, <2>12 DEF Arrives
<1>9. ASSUME NEW t \in Thread, RecvHeader(t) \/ RecvBody(t) PROVE Arrives'
  <2> DEFINE s == peer[Held(t)]
  <2>1. Holds(t) /\ sock[t] = Held(t) /\ IsOpen(sock[t])
    BY <1>9 DEF RecvHeader, RecvBody, At, Holds, Reading, Held, Inserting, OInv, Inserts,
       InsertsForStarting, HeldIsOpen
  <2>2. /\ UNCHANGED <<backlog, peer, cpc, round, mpc, mfd, mthread, m_listSocket>>
        /\ up' = [up EXCEPT ![s] = Tail(up[s])] /\ up[s] # << >>
        /\ \/ pc[t] = "header" /\ pc' = [pc EXCEPT ![t] = "body"]
           \/ pc[t] = "body" /\ pc' = [pc EXCEPT ![t] = "agree"]
    BY <1>9, <2>1 DEF RecvHeader, RecvBody, Receive, Receivable, At, Goto, clients, mainVars
  <2>3. /\ \A u \in Thread \ {t} : pc'[u] = pc[u]
        /\ pc'[t] = "agree" \/ (pc[t] = "header" /\ pc'[t] = "body")
    BY <1>0, <2>2 DEF TypeOK
  <2>4. \A u \in Thread : Held(u)' = Held(u)
    BY <2>2 DEF Held, Inserting
  <2>5. s \in Session /\ \A q \in Session \ {s} : up'[q] = up[q] /\ Fresh(q)' = Fresh(q)
    BY <1>0, <2>1, <2>2, OtherSessions DEF Fresh, Unsent, Types
  <2>6. pc'[t] = "body" => up'[s] = <<s>>
    <3> SUFFICES ASSUME pc[t] = "header" PROVE up'[s] = <<s>>
      BY <2>3
    <3>1. up[s] = <<Length, s>>
      BY <1>0, <2>2 DEF Arrives, Fresh
    <3> QED
      BY <1>0, <2>2, <2>5, <3>1 DEF Types
  <2>7. /\ \A i \in 1 .. Len(backlog) : backlog[i] \in Session \ {s}
        /\ mpc = "create" => peer[mfd] \in Session \ {s}
        /\ \A u \in Thread \ {t} : Holds(u) => peer[Held(u)] \in Session \ {s}
    BY <1>0, <1>2, <2>1, OtherSessions DEF TypeOK, IsOpen
  <2> HIDE DEF s
  <2>8. \A i \in 1 .. Len(backlog) : Fresh(backlog[i])'
    BY <1>0, <2>2, <2>5, <2>7 DEF Arrives
  <2>9. mpc = "create" => Fresh(peer[mfd])'
    BY <1>0, <2>2, <2>5, <2>7 DEF Arrives
  <2>10. \A u \in Thread \ {t} :
          /\ pc[u] \in {"start", "lookup", "header"} => Fresh(peer[Held(u)])'
          /\ pc[u] = "body" => up'[peer[Held(u)]] = <<peer[Held(u)]>>
    BY <1>0, <1>3, <2>2, <2>4, <2>5, <2>7 DEF Arrives
  <2> QED
    BY <2>2, <2>3, <2>4, <2>6, <2>8, <2>9, <2>10 DEF Arrives, s
<1>10. ASSUME NEW t \in Thread, \/ LookupBegin(t) \/ LookupEnd(t) \/ Agree(t) \/ Send(t)
                                \/ EraseBegin(t) \/ EraseEnd(t)
       PROVE  Arrives'
  <2>1. /\ UNCHANGED <<backlog, peer, up, cpc, round, mpc, mfd, mthread>>
        /\ m_listSocket' = m_listSocket \/ m_listSocket' = [m_listSocket EXCEPT ![t] = None]
        /\ \/ pc[t] = "start" /\ pc' = [pc EXCEPT ![t] = "lookup"] /\ m_listSocket' = m_listSocket
           \/ pc[t] = "lookup" /\ pc' = [pc EXCEPT ![t] = "header"] /\ m_listSocket' = m_listSocket
           \/ \E l \in {"send", "close", "erasing", "none"} : pc' = [pc EXCEPT ![t] = l]
    BY <1>10 DEF LookupBegin, LookupEnd, Agree, Send, EraseBegin, EraseEnd, At, Goto, Erased,
       kernel, clients, mainVars
  <2>2. /\ \A u \in Thread \ {t} : pc'[u] = pc[u] /\ Held(u)' = Held(u)
        /\ \/ /\ pc[t] \in {"start", "lookup"} /\ pc'[t] \in {"lookup", "header"}
              /\ Held(t)' = Held(t)
           \/ pc'[t] \in {"send", "close", "erasing", "none"}
    BY <1>0, <2>1 DEF TypeOK, Held, Inserting
  <2> QED
    BY <1>1, <1>2, <1>3, <1>4, <2>1, <2>2, ArrivesSteady
(* The steps of the clients.                                               *)
<1>11. ASSUME NEW c \in Client, ClientRecv(c) \/ ClientDecodeNull(c) PROVE Arrives'
  <2>1. /\ UNCHANGED <<backlog, peer, up, round, mpc, mfd, mthread, m_listSocket, pc>>
        /\ cpc[c] = "waiting" /\ \E l \in {"idle", "crashed"} : cpc' = [cpc EXCEPT ![c] = l]
    BY <1>11 DEF ClientRecv, ClientDecodeNull, ClientIs, ClientGoto, ServerUnchanged, mainVars, working
  <2>2. \A s \in Session : Unsent(s)' = Unsent(s)
    BY <1>0, <2>1, SessionIsPair DEF Unsent, TypeOK
  <2>3. \A s \in Session : Fresh(s) => Fresh(s)'
    BY <2>1, <2>2 DEF Fresh
  <2>4. \A t \in Thread : Held(t)' = Held(t)
    BY <2>1 DEF Held, Inserting
  <2> QED
    BY <1>1, <1>2, <1>3, <2>1, <2>3, <2>4, ArrivesSteady
<1>12. ASSUME NEW c \in Client, ClientSend(c) PROVE Arrives'
  <2>0. PICK s \in Session : s = Now(c) /\ s[1] = c /\ s[2] = round[c]
    BY <1>0, <1>12, NowIsSession DEF ClientSend, ClientIs
  <2>1. /\ UNCHANGED <<backlog, peer, round, mpc, mfd, mthread, m_listSocket, pc>>
        /\ cpc[c] = "connected" /\ cpc' = [cpc EXCEPT ![c] = "waiting"]
        /\ up' = [up EXCEPT ![s] = <<Length, s>>]
    BY <1>12, <2>0 DEF ClientSend, ClientIs, ClientGoto, ServerUnchanged, mainVars, working
  <2>2. s \in Session /\ s[1] = c /\ s[2] = round[c] /\ round[c] \in Nat /\ cpc'[c] = "waiting"
    BY <1>0, <2>0, <2>1 DEF TypeOK
  <2>3. Unsent(s) /\ ~Unsent(s)' /\ up'[s] = <<Length, s>> /\ up[s] = << >>
    <3>1. Unsent(s) /\ ~Unsent(s)'
      BY <2>1, <2>2 DEF Unsent
    <3>2. up'[s] = <<Length, s>>
      BY <1>0, <2>1, <2>2 DEF Types
    <3> QED
      BY <2>2, <3>1, <3>2 DEF SInv, UnsentUnserved
  <2>4. \A q \in Session \ {s} : up'[q] = up[q] /\ Unsent(q)' = Unsent(q)
    <3> SUFFICES ASSUME NEW q \in Session \ {s} PROVE up'[q] = up[q] /\ Unsent(q)' = Unsent(q)
      OBVIOUS
    <3>1. q[1] # c \/ q[2] # round[c]
      BY <2>2, SessionIsPair
    <3> QED
      BY <1>0, <2>1, <3>1, SessionIsPair DEF Unsent, Types, TypeOK
  <2>5. \A q \in Session : Fresh(q) => Fresh(q)'
    <3>1. Fresh(s)'
      BY <2>3 DEF Fresh
    <3>2. \A q \in Session \ {s} : Fresh(q) => Fresh(q)'
      BY <2>4 DEF Fresh
    <3> QED
      BY <3>1, <3>2
  <2>6. \A t \in Thread : Held(t)' = Held(t)
    BY <2>1 DEF Held, Inserting
  <2>7. \A t \in Thread : Holds(t) => peer[Held(t)] \in Session
    BY OtherSessions
  <2>8. \A i \in 1 .. Len(backlog) : Fresh(backlog[i])'
    BY <1>0, <2>1, <2>5 DEF Arrives, TypeOK
  <2>9. mpc = "create" => Fresh(peer[mfd])'
    BY <1>0, <1>2, <2>1, <2>5 DEF Arrives, TypeOK, IsOpen
  <2>10. ASSUME NEW t \in Thread, pc[t] \in {"start", "lookup", "header"}
         PROVE  Fresh(peer[Held(t)])'
    BY <1>0, <1>3, <2>1, <2>5, <2>6, <2>7, <2>10 DEF Arrives
  <2>11. ASSUME NEW t \in Thread, pc[t] = "body" PROVE up'[peer[Held(t)]] = <<peer[Held(t)]>>
    <3>1. up[peer[Held(t)]] = <<peer[Held(t)]>> /\ peer[Held(t)] \in Session
      BY <1>0, <1>3, <2>7, <2>11 DEF Arrives
    <3>2. peer[Held(t)] # s
      <4>1. up[s] = << >>
        BY <2>3
      <4>2. up[peer[Held(t)]] # << >>
        BY <3>1
      <4> QED
        BY <4>1, <4>2
    <3> QED
      BY <2>4, <3>1, <3>2
  <2> QED
    BY <2>1, <2>6, <2>8, <2>9, <2>10, <2>11 DEF Arrives
<1>13. ASSUME NEW c \in Client, ClientConnect(c) PROVE Arrives'
  <2>0. PICK s \in Session : s = <<c, round[c] + 1>> /\ round[c] < Rounds[c] /\ round[c] \in Nat
    <3>1. round[c] < Rounds[c] /\ round[c] \in Nat
      BY <1>0, <1>13 DEF ClientConnect, TypeOK
    <3>2. Rounds[c] \in Nat /\ round[c] + 1 \in 1 .. Rounds[c]
      BY <3>1, AgreementAssumption
    <3>3. <<c, round[c] + 1>> \in Session
      BY <3>2, SessionIsPair
    <3> QED
      BY <3>1, <3>3
  <2>1. /\ UNCHANGED <<peer, up, mpc, mfd, mthread, m_listSocket, pc>>
        /\ cpc[c] = "idle" /\ round[c] < Rounds[c] /\ round[c] \in Nat
        /\ round' = [round EXCEPT ![c] = round[c] + 1]
        /\ \/ backlog' = Append(backlog, s) /\ cpc' = [cpc EXCEPT ![c] = "connected"]
           \/ backlog' = backlog /\ cpc' = [cpc EXCEPT ![c] = "crashed"]
    <3>1. round' = [round EXCEPT ![c] = round[c] + 1] /\ round'[c] = round[c] + 1
      BY <1>0, <1>13 DEF ClientConnect, TypeOK
    <3> QED
      BY <1>13, <2>0, <3>1 DEF ClientConnect, ClientIs, ClientGoto, ServerUnchanged, mainVars, working
  <2>2. s \in Session /\ s[1] = c /\ s[2] = round[c] + 1
    BY <2>0
  <2>3. /\ \A f \in Fd : peer[f] # s
        /\ \A i \in 1 .. Len(backlog) : backlog[i] # s
    <3>1. s[2] > round[s[1]]
      BY <2>1, <2>2
    <3> QED
      BY <2>2, <3>1 DEF VInv, Started
  <2>4. backlog' = Append(backlog, s) => Fresh(s)'
    <3> SUFFICES ASSUME backlog' = Append(backlog, s) PROVE Fresh(s)'
      OBVIOUS
    <3>1. cpc' = [cpc EXCEPT ![c] = "connected"]
      <4>1. backlog \in Seq(Session)
        BY <1>0 DEF TypeOK
      <4>2. Append(backlog, s) # backlog
        BY <2>2, <4>1
      <4> QED
        BY <2>1, <4>2
    <3>2. Unsent(s) /\ Unsent(s)'
      BY <1>0, <2>1, <2>2, <3>1 DEF Unsent, TypeOK
    <3>3. up[s] = << >>
      <4> QED
        BY <2>2, <3>2 DEF SInv, UnsentUnserved
    <3> QED
      BY <2>1, <3>2, <3>3 DEF Fresh
  <2>5. \A q \in Session \ {s} : Fresh(q)' = Fresh(q)
    <3> SUFFICES ASSUME NEW q \in Session \ {s} PROVE Unsent(q)' = Unsent(q)
      BY <2>1 DEF Fresh
    <3>1. q[1] \in Client /\ q[2] \in Nat /\ (q[1] # c \/ q[2] # round[c] + 1)
      BY <2>2, SessionIsPair, AgreementAssumption
    <3>2. CASE q[1] # c
      BY <1>0, <2>1, <3>1, <3>2 DEF Unsent, TypeOK
    <3>3. CASE q[1] = c
      <4>1. round'[c] = round[c] + 1 /\ q[2] # round'[c]
        BY <1>0, <2>1, <3>1, <3>3 DEF TypeOK
      <4> QED
        BY <2>1, <3>1, <3>3, <4>1 DEF Unsent
    <3> QED
      BY <3>2, <3>3
  <2>6. \A t \in Thread : Held(t)' = Held(t)
    BY <2>1 DEF Held, Inserting
  <2>7. \A t \in Thread : Holds(t) => peer[Held(t)] \in Session \ {s}
    BY <2>3, OtherSessions
  <2>8. mpc = "create" => peer[mfd] \in Session \ {s}
    BY <1>0, <1>2, <2>3 DEF IsOpen, TypeOK
  <2>9. \A i \in 1 .. Len(backlog') : Fresh(backlog[i])'
    <3>1. backlog \in Seq(Session)
      BY <1>0 DEF TypeOK
    <3>2. \A i \in 1 .. Len(backlog) : backlog[i] \in Session \ {s} /\ Fresh(backlog[i])
      BY <1>0, <2>3, <3>1 DEF Arrives
    <3>3. CASE backlog' = Append(backlog, s)
      <4>1. \A i \in 1 .. Len(backlog') : \/ i \in 1 .. Len(backlog) /\ backlog'[i] = backlog[i]
                                          \/ backlog'[i] = s
        BY <2>2, <3>1, <3>3
      <4>2. ASSUME NEW i \in 1 .. Len(backlog') PROVE Fresh(backlog[i])'
        <5>1. CASE i \in 1 .. Len(backlog) /\ backlog'[i] = backlog[i]
          <6>1. PICK q \in Session \ {s} : q = backlog[i] /\ Fresh(q)
            BY <3>2, <5>1
          <6>2. Fresh(q)' /\ backlog'[i] = q
            BY <2>5, <5>1, <6>1
          <6> QED
            BY <6>2 DEF Fresh
        <5>2. CASE backlog'[i] = s
          BY <2>4, <3>3, <5>2
        <5> QED
          BY <4>1, <5>1, <5>2
      <4> QED
        BY <4>2
    <3>4. CASE backlog' = backlog
      BY <2>5, <3>2, <3>4
    <3> QED
      BY <2>1, <3>3, <3>4
  <2>10. \A t \in Thread :
           /\ pc[t] \in {"start", "lookup", "header"} => Fresh(peer[Held(t)])'
           /\ pc[t] = "body" => up'[peer[Held(t)]] = <<peer[Held(t)]>>
    BY <1>0, <1>3, <2>1, <2>5, <2>6, <2>7 DEF Arrives
  <2>11. mpc = "create" => Fresh(peer[mfd])'
    BY <1>0, <2>1, <2>5, <2>8 DEF Arrives
  <2> QED
    BY <2>1, <2>6, <2>9, <2>10, <2>11 DEF Arrives
<1> QED
  BY <1>5, <1>6, <1>7, <1>8, <1>9, <1>10, <1>11, <1>12, <1>13 DEF Calm

LEMMA StepVInv ==
  ASSUME Ideal PROVE SInv /\ OInv /\ VInv /\ [Next]_vars => VInv'
<1> SUFFICES ASSUME SInv, OInv, VInv, [Next]_vars PROVE VInv'
  OBVIOUS
<1>1. CASE Next
  <2>1. Calm
    BY <1>1, OnlyCalm
  <2> QED
    BY <2>1, KeepsAlone, KeepsWhole, KeepsAnswered, KeepsUnique, KeepsArrives DEF VInv
<1>2. CASE UNCHANGED vars
  <2>1. VInv' <=> VInv
    BY <1>2 DEF vars, kernel, mainVars, working, clients, VInv, Unique, Started, Arrives, Fresh,
       Unsent, Held, Inserting, Answered, Whole, AloneInMap
  <2> QED
    BY <2>1
<1> QED
  BY <1>1, <1>2

(* ServerSurvives: if the threads are in the map one by one and after the  *)
(* main thread has filled it, if there are descriptors, and if every client*)
(* is known, quick and lives, then no decoder is given NULL and no socket  *)
(* is looked up in vain: the server outlives every agreement.  The runs    *)
(* show what happens where one of the conditions fails.                    *)
THEOREM ServerOutlivesAgreements == ASSUME Ideal PROVE Spec => []ServerSurvives
<1>1. VInv => ServerSurvives
  BY DEF VInv, ServerSurvives
<1>2. Ideal => Supplied
  BY DEF Ideal
<1>3. OInv /\ SInv /\ [Next]_vars => OInv'
  BY <1>2, StepOInv
<1>4. VInv /\ OInv /\ SInv /\ [Next]_vars => VInv'
  BY StepVInv
<1> QED
  BY <1>1, <1>3, <1>4, InitOInv, InitVInv, AgreementSInv, PTL DEF Spec
=============================================================================
