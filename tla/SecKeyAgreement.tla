-------------------------- MODULE SecKeyAgreement --------------------------
(***************************************************************************)
(* Key agreement of generation 2: ServerOperation::startWork accepts a     *)
(* connection, starts a detached thread "working" for it and then puts the *)
(* socket into the map m_listSocket, where the thread looks it up under    *)
(* its own id; ClientOperation::secKeyAgree connects, sends one request    *)
(* and waits for one answer.                                               *)
(*                                                                         *)
(* No caller looks at what recvMsg returns: after an error the buffer is   *)
(* the NULL it was initialised with, and decoding it ends the process.     *)
(* A session is one connection, and stands for the random number r1 sent   *)
(* over it.  A request is its length and its body; an answer is read whole *)
(* by the only process at the other end.                                   *)
(***************************************************************************)
EXTENDS Integers, Sequences, FiniteSets, FiniteSetsExt

CONSTANTS
  Client,
  Stranger,     \* clients that are set up with the ID of another server
  Mortal,       \* clients that may be killed
  Rounds,       \* Client -> how many agreements it starts
  R2,           \* the random numbers of the server
  Thread,       \* the ids pthread_create returns
  Fd,           \* the descriptors accept can return
  Emfile,       \* the number of the error "too many open files"
  Einval,       \* the number of the error "not a listening socket"
  BindFails,    \* the port may be taken
  InsertFirst,  \* usleep(1) lasts until the main thread has filled the map
  Exclusive,    \* no two threads are inside m_listSocket at once
  Slow,         \* a peer may stay silent for the 1000 s of TIMEOUT
  Stops,        \* SIGUSR1 may come
  None

ASSUME AgreementAssumption ==
  /\ Stranger \subseteq Client /\ Mortal \subseteq Client
  /\ Rounds \in [Client -> Nat \ {0}]
  /\ Fd \subseteq Nat /\ IsFiniteSet(Fd) /\ Fd # {} /\ {Emfile, Einval} \subseteq Nat
  /\ {BindFails, InsertFirst, Exclusive, Slow, Stops} \subseteq BOOLEAN
  /\ None \notin Client \cup Thread \cup R2 \cup Nat
  /\ "main" \notin Thread

Session == UNION {{c} \X (1 .. Rounds[c]) : c \in Client}

ASSUME SessionAssumption == None \notin Session

VARIABLES
  \* the kernel
  backlog,   \* sessions that are connected and not accepted
  peer,      \* Fd -> the session it is open for, or None
  up, down,  \* Session -> what is on its way to the server, to the client
  closed,    \* sessions the client has closed
  shut,      \* sessions the server has closed
  \* the server
  server,    \* "up", "exited", "crashed"
  listening, \* somebody who connects to the port reaches m_lfd
  m_stop,
  mpc, mfd, mthread,  \* startWork
  m_listSocket,       \* Thread -> descriptor of the socket, None: no entry
  inMap,              \* the threads inside an operation of m_listSocket
  pc, sock, reqmsg, outData,  \* Thread -> working
  made,               \* Session -> r2 of the keys the server has printed
  \* the clients
  cpc,       \* "idle", "connected", "waiting", "crashed", "killed"
  round,     \* the number of the client's last session
  taken      \* the key in its shared memory

kernel  == <<backlog, peer, up, down, closed, shut>>
mainVars == <<listening, m_stop, mpc, mfd, mthread>>
working == <<pc, sock, reqmsg, outData>>
clients == <<cpc, round, taken>>
vars == <<kernel, server, mainVars, m_listSocket, inMap, working, made, clients>>

Init ==
  /\ backlog = <<>>
  /\ peer = [f \in Fd |-> None]
  /\ up = [s \in Session |-> <<>>] /\ down = [s \in Session |-> <<>>]
  /\ closed = {} /\ shut = {}
  /\ server = "up" /\ listening = FALSE /\ m_stop = FALSE
  /\ mpc = "listen" /\ mfd = None /\ mthread = None
  /\ m_listSocket = [t \in Thread |-> None] /\ inMap = {}
  /\ pc = [t \in Thread |-> "none"]
  /\ sock = [t \in Thread |-> None]
  /\ reqmsg = [t \in Thread |-> None]
  /\ outData = [t \in Thread |-> None]
  /\ made = [s \in Session |-> {}]
  /\ cpc = [c \in Client |-> "idle"]
  /\ round = [c \in Client |-> 0]
  /\ taken = [c \in Client |-> [round |-> 0, r2 |-> {}]]

-----------------------------------------------------------------------------
(* The end of the server process closes every connection.                  *)

Lost(s) == server # "up" \/ s \in shut

Crash == /\ server = "up" /\ server' = "crashed"
         /\ UNCHANGED <<kernel, mainVars, m_listSocket, inMap, working, made, clients>>

-----------------------------------------------------------------------------
(* ServerOperation::startWork                                              *)

(* catchSignal                                                             *)
Signal ==
  /\ Stops /\ server = "up" /\ ~m_stop
  /\ m_stop' = TRUE
  /\ UNCHANGED <<kernel, server, listening, mpc, mfd, mthread, m_listSocket, inMap, working, made, clients>>

(* setListen: startWork does not look at what it returns.                  *)
SetListen ==
  /\ server = "up" /\ mpc = "listen"
  /\ listening' = TRUE \/ (BindFails /\ listening' = FALSE)
  /\ mpc' = "loop"
  /\ UNCHANGED <<kernel, server, m_stop, mfd, mthread, m_listSocket, inMap, working, made, clients>>

(* When startWork returns main returns, and the process with all threads.  *)
MainStop ==
  /\ server = "up" /\ mpc = "loop" /\ m_stop
  /\ mpc' = "done" /\ server' = "exited"
  /\ UNCHANGED <<kernel, listening, m_stop, mfd, mthread, m_listSocket, inMap, working, made, clients>>

MainLoop ==
  /\ server = "up" /\ mpc = "loop" /\ ~m_stop
  /\ mpc' = "accept"
  /\ UNCHANGED <<kernel, server, listening, m_stop, mfd, mthread, m_listSocket, inMap, working, made, clients>>

FreeFd == {f \in Fd : peer[f] = None}

MainAccept ==
  /\ server = "up" /\ mpc = "accept" /\ backlog # <<>> /\ FreeFd # {}
  /\ mfd' = Min(FreeFd)
  /\ peer' = [peer EXCEPT ![mfd'] = Head(backlog)]
  /\ backlog' = Tail(backlog)
  /\ mpc' = "create"
  /\ UNCHANGED <<up, down, closed, shut, server, listening, m_stop, mthread, m_listSocket, inMap,
                 working, made, clients>>

(* acceptTimeout returns errno, and a positive number is a descriptor for  *)
(* acceptConn.  select calls a socket ready that does not listen.          *)
MainAcceptFails ==
  /\ server = "up" /\ mpc = "accept"
  /\ \/ listening /\ backlog # <<>> /\ FreeFd = {} /\ mfd' = Emfile
     \/ ~listening /\ mfd' = Einval
  /\ mpc' = "create"
  /\ UNCHANGED <<kernel, server, listening, m_stop, mthread, m_listSocket, inMap, working, made, clients>>

\* Mutant of MainAcceptTimeout: accept waits for ever.
MainAcceptForever == FALSE /\ UNCHANGED vars

MainAcceptTimeout ==
  /\ server = "up" /\ mpc = "accept" /\ listening /\ backlog = <<>>
  /\ mpc' = "loop"
  /\ UNCHANGED <<kernel, server, listening, m_stop, mfd, mthread, m_listSocket, inMap, working, made, clients>>

MainCreate ==
  /\ server = "up" /\ mpc = "create"
  /\ \E t \in Thread :
       /\ pc[t] = "none"
       /\ mthread' = t
       /\ pc' = [pc EXCEPT ![t] = "start"]
  /\ mpc' = "insert"
  /\ UNCHANGED <<kernel, server, listening, m_stop, mfd, m_listSocket, inMap, sock, reqmsg, outData,
                 made, clients>>

(* std::map is not synchronised: an operation takes two steps, and two     *)
(* that overlap may do what they would do alone or end the process.        *)
Enter(p) == /\ Exclusive => inMap = {}
            /\ inMap' = inMap \cup {p}
Leave(p) == inMap' = inMap \ {p}

MapRace == Cardinality(inMap) > 1 /\ Crash

MainInsertBegin ==
  /\ server = "up" /\ mpc = "insert"
  /\ Enter("main")
  /\ mpc' = "inserting"
  /\ UNCHANGED <<kernel, server, listening, m_stop, mfd, mthread, m_listSocket, working, made, clients>>

\* Mutant of MainInsertEnd: make_pair(socket, thid).
MainInsertSwapped ==
  /\ server = "up" /\ mpc = "inserting"
  /\ Leave("main")
  /\ m_listSocket' = [m_listSocket EXCEPT ![mthread] = mthread]
  /\ mpc' = "loop" /\ mfd' = None /\ mthread' = None
  /\ UNCHANGED <<kernel, server, listening, m_stop, working, made, clients>>

MainInsertEnd ==
  /\ server = "up" /\ mpc = "inserting"
  /\ Leave("main")
  /\ m_listSocket' = [m_listSocket EXCEPT ![mthread] = IF @ = None THEN mfd ELSE @]
  /\ mpc' = "loop" /\ mfd' = None /\ mthread' = None
  /\ UNCHANGED <<kernel, server, listening, m_stop, working, made, clients>>

Main == \/ SetListen \/ MainStop \/ MainLoop \/ MainAccept \/ MainAcceptFails \/ MainAcceptTimeout
        \/ MainCreate \/ MainInsertBegin \/ MainInsertEnd

-----------------------------------------------------------------------------
(* working, the thread of one connection                                   *)

\* The four bytes in front of a request, and bytes that are no answer.
Length == <<"length">>
Junk == [to |-> None, r2 |-> None]

At(t, l) == server = "up" /\ pc[t] = l
Goto(t, l) == pc' = [pc EXCEPT ![t] = l]

MainHasInserted(t) == ~(mthread = t /\ mpc \in {"insert", "inserting"})

LookupBegin(t) ==
  /\ At(t, "start")
  /\ InsertFirst => MainHasInserted(t)
  /\ Enter(t)
  /\ Goto(t, "lookup")
  /\ UNCHANGED <<kernel, server, mainVars, m_listSocket, sock, reqmsg, outData, made, clients>>

(* operator[] makes an entry that holds NULL where it finds none, and      *)
(* recvMsg is called on it: that is NullSocket.                            *)
LookupEnd(t) ==
  /\ At(t, "lookup") /\ m_listSocket[t] # None
  /\ Leave(t)
  /\ sock' = [sock EXCEPT ![t] = m_listSocket[t]]
  /\ Goto(t, "header")
  /\ UNCHANGED <<kernel, server, mainVars, m_listSocket, reqmsg, outData, made, clients>>

NullSocket(t) == At(t, "lookup") /\ m_listSocket[t] = None /\ Crash

IsOpen(f) == f \in Fd /\ peer[f] # None
Receivable(t) == IsOpen(sock[t]) /\ up[peer[sock[t]]] # <<>>
Receive(t) == up' = [up EXCEPT ![peer[sock[t]]] = Tail(@)]
Received(t) == Head(up[peer[sock[t]]])

\* Mutant of RecvHeader: the length is looked at and not taken out.
RecvHeaderPeek(t) ==
  /\ At(t, "header") /\ Receivable(t)
  /\ Received(t) = Length
  /\ Goto(t, "body")
  /\ UNCHANGED <<kernel, server, mainVars, m_listSocket, inMap, sock, reqmsg, outData, made,
                 clients>>

RecvHeader(t) ==
  /\ At(t, "header") /\ Receivable(t)
  /\ Received(t) = Length
  /\ Receive(t)
  /\ Goto(t, "body")
  /\ UNCHANGED <<backlog, peer, down, closed, shut, server, mainVars, m_listSocket, inMap,
                 sock, reqmsg, outData, made, clients>>

\* Mutant of RecvBody: disConnect comes before sendMsg.
RecvBodyCloses(t) ==
  /\ At(t, "body") /\ Receivable(t)
  /\ Received(t) # Length
  /\ Receive(t)
  /\ peer' = [peer EXCEPT ![sock[t]] = None]
  /\ reqmsg' = [reqmsg EXCEPT ![t] = Received(t)]
  /\ Goto(t, "agree")
  /\ UNCHANGED <<backlog, down, closed, shut, server, mainVars, m_listSocket, inMap,
                 sock, outData, made, clients>>

RecvBody(t) ==
  /\ At(t, "body") /\ Receivable(t)
  /\ Received(t) # Length
  /\ Receive(t)
  /\ reqmsg' = [reqmsg EXCEPT ![t] = Received(t)]
  /\ Goto(t, "agree")
  /\ UNCHANGED <<backlog, peer, down, closed, shut, server, mainVars, m_listSocket, inMap,
                 sock, outData, made, clients>>

(* A descriptor that is not open, a peer that is gone, TIMEOUT, or bytes   *)
(* that are read in the wrong place because another thread has read the    *)
(* ones before: recvBuf is NULL, or not a request.                         *)
RecvFails(t) ==
  \/ ~IsOpen(sock[t])
  \/ IsOpen(sock[t]) /\ ~Receivable(t) /\ (peer[sock[t]] \in closed \/ Slow)
  \/ Receivable(t) /\ ((pc[t] = "header") # (Received(t) = Length))

DecodeNull(t) ==
  /\ At(t, "header") \/ At(t, "body")
  /\ RecvFails(t)
  /\ Crash

(* secKeyAgree: the code is checked with the server's own ID.              *)
Authentic(s) == s[1] \notin Stranger

\* Mutant of Agree: the thread answers what was asked last by anyone.
AgreeAny(t) ==
  /\ At(t, "agree") /\ Authentic(reqmsg[t])
  /\ \E r \in R2, s \in Session :
       /\ s[2] = round[s[1]]
       /\ made' = [made EXCEPT ![s] = @ \cup {r}]
       /\ outData' = [outData EXCEPT ![t] = [to |-> s[1], r2 |-> r]]
  /\ Goto(t, "send")
  /\ UNCHANGED <<kernel, server, mainVars, m_listSocket, inMap, sock, reqmsg, clients>>

Agree(t) ==
  /\ At(t, "agree") /\ Authentic(reqmsg[t])
  /\ \E r \in R2 :
       /\ made' = [made EXCEPT ![reqmsg[t]] = @ \cup {r}]
       /\ outData' = [outData EXCEPT ![t] = [to |-> reqmsg[t][1], r2 |-> r]]
  /\ Goto(t, "send")
  /\ UNCHANGED <<kernel, server, mainVars, m_listSocket, inMap, sock, reqmsg, clients>>

(* After an error outData and outLen are uninitialised: sendMsg refuses    *)
(* them, sends what they point to, or ends the process.                    *)
Refuse(t) ==
  /\ At(t, "agree") /\ ~Authentic(reqmsg[t])
  /\ \E data \in {None, Junk} : outData' = [outData EXCEPT ![t] = data]
  /\ Goto(t, "send")
  /\ UNCHANGED <<kernel, server, mainVars, m_listSocket, inMap, sock, reqmsg, made, clients>>

SendUninitialised(t) == At(t, "send") /\ outData[t] = Junk /\ Crash

\* Mutant of Send: it returns early, and the socket is not closed.
SendReturns(t) ==
  /\ At(t, "send")
  /\ Goto(t, "erase")
  /\ UNCHANGED <<kernel, server, mainVars, m_listSocket, inMap, sock, reqmsg, outData, made,
                 clients>>

Send(t) ==
  /\ At(t, "send")
  /\ down' = IF IsOpen(sock[t]) /\ outData[t] # None
               THEN [down EXCEPT ![peer[sock[t]]] = Append(@, outData[t])]
               ELSE down
  /\ Goto(t, "close")
  /\ UNCHANGED <<backlog, peer, up, closed, shut, server, mainVars, m_listSocket, inMap,
                 sock, reqmsg, outData, made, clients>>

(* disConnect *)
Disconnect(t) ==
  /\ At(t, "close")
  /\ IF IsOpen(sock[t]) THEN /\ peer' = [peer EXCEPT ![sock[t]] = None]
                             /\ shut' = shut \cup {peer[sock[t]]}
                        ELSE UNCHANGED <<peer, shut>>
  /\ Goto(t, "erase")
  /\ UNCHANGED <<backlog, up, down, closed, server, mainVars, m_listSocket, inMap,
                 sock, reqmsg, outData, made, clients>>

EraseBegin(t) ==
  /\ At(t, "erase")
  /\ Enter(t)
  /\ Goto(t, "erasing")
  /\ UNCHANGED <<kernel, server, mainVars, m_listSocket, sock, reqmsg, outData, made, clients>>

\* Mutant of Erased: the entry stays.
ErasedNot(t) == m_listSocket
Erased(t) == [m_listSocket EXCEPT ![t] = None]

(* The thread ends, and its id is free.                                    *)
EraseEnd(t) ==
  /\ At(t, "erasing")
  /\ Leave(t)
  /\ m_listSocket' = Erased(t)
  /\ Goto(t, "none")
  /\ sock' = [sock EXCEPT ![t] = None]
  /\ reqmsg' = [reqmsg EXCEPT ![t] = None]
  /\ outData' = [outData EXCEPT ![t] = None]
  /\ UNCHANGED <<kernel, server, mainVars, made, clients>>

Worker(t) ==
  \/ LookupBegin(t) \/ LookupEnd(t) \/ NullSocket(t)
  \/ RecvHeader(t) \/ RecvBody(t) \/ DecodeNull(t)
  \/ Agree(t) \/ Refuse(t) \/ SendUninitialised(t)
  \/ Send(t) \/ Disconnect(t) \/ EraseBegin(t) \/ EraseEnd(t)

-----------------------------------------------------------------------------
(* ClientOperation::secKeyAgree                                            *)

Now(c) == <<c, round[c]>>
ClientIs(c, l) == cpc[c] = l
ClientGoto(c, l) == cpc' = [cpc EXCEPT ![c] = l]
ServerUnchanged == UNCHANGED <<server, mainVars, m_listSocket, inMap, working, made>>

(* The user starts an agreement; the kernel completes the connection.      *)
ClientConnect(c) ==
  /\ ClientIs(c, "idle") /\ round[c] < Rounds[c]
  /\ round' = [round EXCEPT ![c] = @ + 1]
  /\ IF server = "up" /\ listening
       THEN /\ backlog' = Append(backlog, <<c, round'[c]>>)
            /\ ClientGoto(c, "connected")
       ELSE /\ ClientGoto(c, "crashed")
            /\ UNCHANGED backlog
  /\ UNCHANGED <<peer, up, down, closed, shut, taken>> /\ ServerUnchanged

ClientSend(c) ==
  /\ ClientIs(c, "connected")
  /\ up' = [up EXCEPT ![Now(c)] = <<Length, Now(c)>>]
  /\ ClientGoto(c, "waiting")
  /\ UNCHANGED <<backlog, peer, down, closed, shut, round, taken>> /\ ServerUnchanged

(* The answer holds r2; it is for the session it came over.                *)
ClientRecv(c) ==
  /\ ClientIs(c, "waiting") /\ down[Now(c)] # <<>>
  /\ Head(down[Now(c)]) # Junk
  /\ down' = [down EXCEPT ![Now(c)] = Tail(@)]
  /\ taken' = [taken EXCEPT ![c] = [round |-> round[c], r2 |-> {Head(down[Now(c)]).r2}]]
  /\ closed' = closed \cup {Now(c)}
  /\ ClientGoto(c, "idle")
  /\ UNCHANGED <<backlog, peer, up, shut, round>> /\ ServerUnchanged

(* recvMsg fails or returns junk, and recvBuf is decoded all the same.     *)
ClientDecodeNull(c) ==
  /\ ClientIs(c, "waiting")
  /\ IF down[Now(c)] = <<>> THEN Lost(Now(c)) \/ Slow ELSE Head(down[Now(c)]) = Junk
  /\ closed' = closed \cup {Now(c)}
  /\ ClientGoto(c, "crashed")
  /\ UNCHANGED <<backlog, peer, up, down, shut, round, taken>> /\ ServerUnchanged

ClientKilled(c) ==
  /\ c \in Mortal /\ cpc[c] \in {"connected", "waiting"}
  /\ closed' = closed \cup {Now(c)}
  /\ ClientGoto(c, "killed")
  /\ UNCHANGED <<backlog, peer, up, down, shut, round, taken>> /\ ServerUnchanged

ClientStep(c) == ClientSend(c) \/ ClientRecv(c) \/ ClientDecodeNull(c)

Next == \/ Signal \/ Main \/ MapRace
        \/ \E t \in Thread : Worker(t)
        \/ \E c \in Client : ClientConnect(c) \/ ClientStep(c) \/ ClientKilled(c)

Spec == Init /\ [][Next]_vars

(* The scheduler runs every thread and process, and a call that has begun  *)
(* is not the user's to stop.  Nobody has to start an agreement, to send a *)
(* signal or to kill a client, and a race does not have to do harm.        *)
Fairness == /\ WF_vars(Main)
            /\ \A t \in Thread : WF_vars(Worker(t))
            /\ \A c \in Client : WF_vars(ClientStep(c))

FairSpec == Spec /\ Fairness

-----------------------------------------------------------------------------
(* Properties                                                              *)

TypeOK ==
  /\ backlog \in Seq(Session)
  /\ peer \in [Fd -> Session \cup {None}]
  /\ closed \subseteq Session /\ shut \subseteq Session
  /\ server \in {"up", "exited", "crashed"} /\ listening \in BOOLEAN /\ m_stop \in BOOLEAN
  /\ mpc \in {"listen", "loop", "accept", "create", "insert", "inserting", "done"}
  /\ mfd \in Fd \cup {Emfile, Einval, None} /\ mthread \in Thread \cup {None}
  /\ m_listSocket \in [Thread -> Fd \cup {Emfile, Einval, None}]
  /\ inMap \subseteq Thread \cup {"main"}
  /\ pc \in [Thread -> {"none", "start", "lookup", "header", "body", "agree", "send",
                        "close", "erase", "erasing"}]
  /\ sock \in [Thread -> Fd \cup {Emfile, Einval, None}]
  /\ reqmsg \in [Thread -> Session \cup {None}]
  /\ made \in [Session -> SUBSET R2]
  /\ cpc \in [Client -> {"idle", "connected", "waiting", "crashed", "killed"}]
  /\ round \in [Client -> Nat] /\ taken \in [Client -> [round : Nat, r2 : SUBSET R2]]
  /\ \A c \in Client : taken[c].round <= round[c] /\ round[c] <= Rounds[c]

(* ClientOperation.cpp:91: a key is made of the client's r1 and of the r2  *)
(* that the server answered to it.  Both ends hold the same key, whatever  *)
(* the threads of the server share.                                        *)
Implements == INSTANCE Agreement
RefinesAgreement == Implements!Spec

(* ServerOperation.cpp:55: the map takes a thread to the socket accepted   *)
(* for it.  No two threads work on the same descriptor, and none on one    *)
(* that is closed or was opened again for another session.                 *)
OwnSocket ==
  \A t \in Thread : pc[t] \in {"header", "body", "agree", "send", "close"} =>
    /\ IsOpen(sock[t])
    /\ \A u \in Thread \ {t} :
         pc[u] \in {"header", "body", "agree", "send", "close"} => sock[u] # sock[t]
    /\ reqmsg[t] # None => reqmsg[t] = peer[sock[t]]

(* An entry of m_listSocket belongs to a thread that runs: the map does    *)
(* not grow with the clients that have come and gone.                      *)
NoStaleEntry == \A t \in Thread : m_listSocket[t] # None => pc[t] # "none"

(* The server outlives every agreement.                                    *)
ServerSurvives == server # "crashed"

(* A request that was sent is answered, and its key is in the client's     *)
(* store before the client returns to its menu, unless SIGUSR1 comes.      *)
Served == \A c \in Client : \A n \in 1 .. Rounds[c] :
            (round[c] = n /\ cpc[c] = "connected") ~> (taken[c].round >= n \/ m_stop)

(* After SIGUSR1 the server ends, although no client connects any more.    *)
StopEnds == m_stop ~> server # "up"

(* A client that waits does not wait for ever.                             *)
WaitEnds == \A c \in Client : (cpc[c] = "waiting") ~> (cpc[c] # "waiting")
=============================================================================
