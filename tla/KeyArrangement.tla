--------------------------- MODULE KeyArrangement ---------------------------
(***************************************************************************)
(* The key arrangement of generation 1: the client (clientop.cpp, cli.c and*)
(* its main.cpp) composed with the server of EpollServer, whose handler    *)
(* runs secMngArrange.                                                     *)
(*                                                                         *)
(* A process makes calls of keyMngArrange on one clientop object.  Each has*)
(* a connection and a heartbeat thread of its own, and neither is ended    *)
(* when the call returns: a "client" of EpollServer is here one call.      *)
(*                                                                         *)
(* A key has the name of the call it was agreed in.  What the server sends *)
(* is a stream of units of two bytes: recv returns what there is, so that  *)
(* the thread and the call take each other's bytes.                        *)
(***************************************************************************)
EXTENDS EpollServer, SequencesExt

CONSTANTS Process,
          Calls,      \* Process -> the calls it makes, in their order
          ServerId,   \* the key every clientop and every serverop starts with
          BodySize    \* units of an encoded answer

ASSUME ArrangementAssumption ==
  /\ Calls \in [Process -> Seq(Client) \ {<<>>}]
  /\ \A c \in Client : \E p \in Process : \E i \in DOMAIN Calls[p] : Calls[p][i] = c
  /\ \A p, q \in Process : \A i \in DOMAIN Calls[p], j \in DOMAIN Calls[q] :
       Calls[p][i] = Calls[q][j] => p = q /\ i = j
  /\ BodySize \in Nat \ {0}
  /\ ServerId \notin Client \cup {Junk}
  /\ Client \cap {"zero", "length"} = {}
  /\ Requests = 1 /\ ~Split /\ Leaves = {}

HeadSize   == 2    \* the four bytes of a length
BeatBuffer == 5    \* buf[10] of the heartbeat thread
FlagMax    == 3

VARIABLES
  key,     \* Process -> Key of its clientop
  cpc,     \* where a call is: "idle", "send", "head", "body", "done", "gone"
  used,    \* the key its authentication code was made with
  pos,     \* units of its connection that have been read
  left,    \* units of the body still to be read
  from,    \* whose answer the units read so far are
  hpc,     \* its heartbeat thread: "none", "sleep", "send", "recv", "ended"
  flag,    \* heartbeats without an answer
  mtx_t,   \* Process -> the thread that has locked it, or None
  pdata,   \* Process -> the connection in the argument of its threads, or None
  gone,    \* processes that have ended
  made     \* the requests the server has made a key for

callVars == <<key, cpc, used, pos, left, from>>
beatVars == <<hpc, flag, mtx_t, pdata>>
clientVars == <<callVars, beatVars, gone>>
allVars == <<vars, clientVars, made>>

Endless == BodySize + 1   \* a length that no answer fills

ArrangementInit ==
  /\ Init
  /\ key = [p \in Process |-> ServerId]
  /\ cpc = [c \in Client |-> "idle"]
  /\ used = [c \in Client |-> None]
  /\ pos = [c \in Client |-> 0]
  /\ left = [c \in Client |-> 0]
  /\ from = [c \in Client |-> None]
  /\ hpc = [c \in Client |-> "none"]
  /\ flag = [c \in Client |-> 0]
  /\ mtx_t = [p \in Process |-> None]
  /\ pdata = [p \in Process |-> None]
  /\ gone = {} /\ made = {}

Caller(c) == CHOOSE p \in Process : \E i \in DOMAIN Calls[p] : Calls[p][i] = c
Runs(c) == Caller(c) \notin gone

-----------------------------------------------------------------------------
(* What the server has sent, in units.  The upper half of a length is zero,*)
(* and so are both halves of an empty packet.                              *)

Zero   == "zero"
Length == "length"

Units(packet) == IF packet = Empty THEN <<Zero, Zero>>
                 ELSE <<Length, Zero>> \o [i \in 1 .. BodySize |-> packet]

Unread(c) ==
  LET all == FlattenSeq([i \in DOMAIN inbox[c] |-> Units(inbox[c][i])])
  IN SubSeq(all, pos[c] + 1, Len(all))

(* recv with a buffer of n units blocks while there is nothing to read.    *)
Recv(c, n) == LET u == Unread(c) IN SubSeq(u, 1, IF n < Len(u) THEN n ELSE Len(u))

(* The server has gone, or a worker has closed the connection under a call *)
(* that still uses it: what is sent is lost, and recv returns 0 or fails.  *)
Lost(c)   == crashed \/ \A f \in Fd : peer[f] # c
Closed(c) == Lost(c) /\ Unread(c) = <<>>

-----------------------------------------------------------------------------
(* The end of a process: the kernel closes its connections, and resets     *)
(* those that hold unread data.  Nothing of it is left but what it has sent*)

Of(p) == {c \in Client : Caller(c) = p}

EndsOf(p) == {f \in Fd : peer[f] \in Of(p) /\ far[f] = "open"}

EndProcess(p) ==
  /\ gone' = gone \cup {p}
  /\ far' = [f \in Fd |-> IF f \notin EndsOf(p) THEN far[f]
                         ELSE IF Unread(peer[f]) = <<>> THEN "fin" ELSE "rst"]
  /\ Edge(EndsOf(p))
  /\ mode' = [c \in Client |-> IF c \in Of(p) THEN "left" ELSE mode[c]]
  /\ key' = [key EXCEPT ![p] = ServerId]
  /\ cpc' = [c \in Client |-> IF c \in Of(p) THEN "gone" ELSE cpc[c]]
  /\ pos' = [c \in Client |-> IF c \in Of(p) THEN 0 ELSE pos[c]]
  /\ left' = [c \in Client |-> IF c \in Of(p) THEN 0 ELSE left[c]]
  /\ from' = [c \in Client |-> IF c \in Of(p) THEN None ELSE from[c]]
  /\ hpc' = [c \in Client |-> IF c \in Of(p) THEN "none" ELSE hpc[c]]
  /\ flag' = [c \in Client |-> IF c \in Of(p) THEN 0 ELSE flag[c]]
  /\ mtx_t' = [mtx_t EXCEPT ![p] = None]
  /\ pdata' = [pdata EXCEPT ![p] = None]
  /\ UNCHANGED <<peer, stream, reactor, queued, pc, wfd, wreq, crashed, toSend,
                 body, inbox, used, made>>

-----------------------------------------------------------------------------
(* keyMngArrange                                                           *)

NextCall(c) ==
  \E i \in DOMAIN Calls[Caller(c)] :
    /\ Calls[Caller(c)][i] = c /\ cpc[c] = "idle"
    /\ \A j \in 1 .. i - 1 : cpc[Calls[Caller(c)][j]] = "done"

Goes(c, l) == cpc' = [cpc EXCEPT ![c] = l]

(* The authentication code is made with the key of the object.             *)
MakeRequest(c) == used' = [used EXCEPT ![c] = key[Caller(c)]]

(* Then initcli connects, initialises the one lock once more and starts the*)
(* heartbeat thread, with a pointer to a local variable of its own.  A     *)
(* later call of initcli has its frame, and so that variable, at the same  *)
(* place.                                                                  *)
Connect(c) ==
  /\ Runs(c) /\ NextCall(c)
  /\ Accept(c)
  /\ MakeRequest(c)
  /\ Goes(c, "send")
  /\ mtx_t' = [mtx_t EXCEPT ![Caller(c)] = None]
  /\ pdata' = [pdata EXCEPT ![Caller(c)] = c]
  /\ hpc' = [hpc EXCEPT ![c] = "sleep"]
  /\ UNCHANGED <<key, pos, left, from, flag, gone, made>>

(* Nobody looks at what connect returns; senddata on a socket that is not  *)
(* connected raises SIGPIPE.                                               *)
ConnectRefused(c) ==
  /\ Runs(c) /\ NextCall(c) /\ crashed
  /\ EndProcess(Caller(c))

(* The frames of senddata and recvdata follow at that place: they leave   *)
(* the descriptor there or, as in the a.out of the repository, do not.     *)
FramesReused(c) ==
  pdata' \in {pdata, [pdata EXCEPT ![Caller(c)] = None]}

SendRequest(c) ==
  /\ Runs(c) /\ cpc[c] = "send"
  /\ ClientRequest(c)
  /\ FramesReused(c)
  /\ Goes(c, "head")
  /\ UNCHANGED <<key, used, pos, left, from, hpc, flag, mtx_t, gone, made>>

(* Sending on such a connection: the first packet is lost, the reset that  *)
(* answers a heartbeat makes it SIGPIPE.                                   *)
SendLost(c) ==
  /\ Runs(c) /\ cpc[c] = "send" /\ Lost(c)
  /\ Goes(c, "head") /\ FramesReused(c)
  /\ UNCHANGED <<vars, key, used, pos, left, from, hpc, flag, mtx_t, gone, made>>

SendKilled(c) ==
  /\ Runs(c) /\ cpc[c] = "send" /\ Lost(c) /\ flag[c] > 0
  /\ EndProcess(Caller(c))

HeadOfShort(c) == Recv(c, HeadSize - 1)   \* mutant of HeadOf
HeadOf(c) == Recv(c, HeadSize)

(* A length of 0 is returned as such, and keyMngArrange takes it for a     *)
(* connection that is closed.  What is no length makes recvdata wait for   *)
(* bytes that nobody sends, or malloc fail and memset write to NULL.       *)
IsLength(u) == u[1] = Length /\ \A i \in 2 .. Len(u) : u[i] = Zero
IsZero(u)   == \A i \in DOMAIN u : u[i] = Zero

RecvLength(c) ==
  LET u == HeadOf(c) IN
  /\ Runs(c) /\ cpc[c] = "head" /\ Unread(c) # <<>>
  /\ \/ IsZero(u) /\ Goes(c, "done") /\ left' = left
     \/ IsLength(u) /\ Goes(c, "body") /\ left' = [left EXCEPT ![c] = BodySize]
     \/ ~IsZero(u) /\ ~IsLength(u) /\ Goes(c, "body")
        /\ left' = [left EXCEPT ![c] = Endless]
  /\ pos' = [pos EXCEPT ![c] = @ + Len(u)]
  /\ UNCHANGED <<vars, key, used, from, beatVars, gone, made>>

RecvNoLength(c) ==
  /\ Runs(c) /\ cpc[c] = "head" /\ Unread(c) # <<>>
  /\ ~IsZero(HeadOf(c)) /\ ~IsLength(HeadOf(c))
  /\ EndProcess(Caller(c))

RecvUnit(c) ==
  LET u == Recv(c, 1) IN
  /\ Runs(c) /\ cpc[c] = "body" /\ left[c] > 0 /\ u # <<>>
  /\ from' = [from EXCEPT ![c] = IF u[1] \in Client /\ @ \in {None, u[1]}
                                   THEN u[1] ELSE Junk]
  /\ pos' = [pos EXCEPT ![c] = @ + 1]
  /\ left' = [left EXCEPT ![c] = IF @ = Endless THEN @ ELSE @ - 1]
  /\ UNCHANGED <<vars, key, cpc, used, beatVars, gone, made>>

RecvEnd(c) ==
  /\ Runs(c) /\ cpc[c] \in {"head", "body"} /\ Closed(c)
  /\ cpc[c] = "body" => left[c] > 0
  /\ Goes(c, "done")
  /\ UNCHANGED <<vars, key, used, pos, left, from, beatVars, gone, made>>

(* The number of the key, which the server never sets, is garbage; if it is*)
(* negative it is missing in the answer, and reading it follows NULL.  What*)
(* is no answer may end the process, too, or be decoded to whatever there  *)
(* was.  All clients have the same id: another one's answer is accepted.   *)
KeysRead(c) == IF from[c] = c THEN {c}
               ELSE IF from[c] = Junk THEN {Junk, key[Caller(c)]} ELSE {Junk}

MakeKey(c) ==
  /\ Runs(c) /\ cpc[c] = "body" /\ left[c] = 0
  /\ \E k \in KeysRead(c) : key' = [key EXCEPT ![Caller(c)] = k]
  /\ Goes(c, "done")
  /\ UNCHANGED <<vars, used, pos, left, from, beatVars, gone, made>>

DecodeEnds(c) ==
  /\ Runs(c) /\ cpc[c] = "body" /\ left[c] = 0
  /\ EndProcess(Caller(c))

CallStep(c) ==
  \/ Connect(c) \/ ConnectRefused(c) \/ SendRequest(c)
  \/ SendLost(c) \/ SendKilled(c) \/ RecvLength(c) \/ RecvNoLength(c)
  \/ RecvUnit(c) \/ RecvEnd(c) \/ MakeKey(c) \/ DecodeEnds(c)

-----------------------------------------------------------------------------
(* The heartbeat thread, which reads its descriptor anew for every use.    *)

Beating(c, l) == Runs(c) /\ hpc[c] = l
BeatGoes(c, l) == hpc' = [hpc EXCEPT ![c] = l]
Reached(c) == pdata[Caller(c)]

Lock(c) ==
  /\ Beating(c, "sleep") /\ toSend[c].beat > 0
  /\ mtx_t[Caller(c)] = None
  /\ mtx_t' = [mtx_t EXCEPT ![Caller(c)] = c]
  /\ BeatGoes(c, "send")
  /\ UNCHANGED <<vars, callVars, flag, pdata, gone, made>>

SendBeat(c) ==
  /\ Beating(c, "send")
  /\ IF Reached(c) = None \/ Lost(Reached(c))
       THEN UNCHANGED kernel ELSE Arrive(Reached(c), <<Empty>>)
  /\ toSend' = [toSend EXCEPT ![c].beat = @ - 1]
  /\ flag' = [flag EXCEPT ![c] = @ + 1]
  /\ BeatGoes(c, "recv")
  /\ UNCHANGED <<reactor, queued, pc, wfd, wreq, crashed, mode, body, inbox,
                 callVars, mtx_t, pdata, gone, made>>

SendBeatKilled(c) ==
  /\ Beating(c, "send") /\ Reached(c) # None /\ Lost(Reached(c))
  /\ EndProcess(Caller(c))

\* The lock is released whoever holds it.
Unlock(c) == mtx_t' = [mtx_t EXCEPT ![Caller(c)] = None]

(* Ten bytes or what there is of them, whatever they are part of.          *)
RecvBeat(c) ==
  LET d == Reached(c)
      u == Recv(d, BeatBuffer)
  IN /\ Beating(c, "recv") /\ d # None /\ u # <<>>
     /\ pos' = [pos EXCEPT ![d] = @ + Len(u)]
     /\ from' = IF cpc[d] = "body" THEN [from EXCEPT ![d] = Junk] ELSE from
     /\ flag' = [flag EXCEPT ![c] = 0]
     /\ Unlock(c) /\ BeatGoes(c, "sleep")
     /\ UNCHANGED <<vars, key, cpc, used, left, pdata, gone, made>>

\* What is no descriptor and a connection that is reset both give -1.
NoDescriptor(c) ==
  Beating(c, "recv") /\ (Reached(c) # None => Closed(Reached(c)))

\* Mutant of RecvBeatFails: the thread returns as it does when recv gives 0.
RecvBeatReturns(c) ==
  /\ NoDescriptor(c)
  /\ BeatGoes(c, "ended")
  /\ UNCHANGED <<vars, callVars, flag, mtx_t, pdata, gone, made>>

RecvBeatFails(c) ==
  /\ NoDescriptor(c)
  /\ BeatGoes(c, IF flag[c] >= FlagMax THEN "ended" ELSE "sleep")
  /\ Unlock(c)
  /\ UNCHANGED <<vars, callVars, flag, pdata, gone, made>>

(* The connection is closed: the thread returns without the unlock.        *)
RecvBeatEnd(c) ==
  /\ Beating(c, "recv") /\ Reached(c) # None /\ Closed(Reached(c))
  /\ BeatGoes(c, "ended")
  /\ UNCHANGED <<vars, callVars, flag, mtx_t, pdata, gone, made>>

BeatStep(c) == \/ Lock(c) \/ SendBeat(c) \/ SendBeatKilled(c)
               \/ RecvBeat(c) \/ RecvBeatFails(c) \/ RecvBeatEnd(c)

-----------------------------------------------------------------------------
(* The end of main, and secMngArrange                                      *)

(* main returns when its calls have.                                       *)
Exit(p) ==
  /\ p \notin gone
  /\ \A i \in DOMAIN Calls[p] : cpc[Calls[p][i]] = "done"
  /\ EndProcess(p)

(* The server makes the authentication code with its own initial key.  When*)
(* the codes differ it sets rv = -1, which the encoder refuses to write,   *)
(* and the next field goes behind a node that does not exist.              *)
Accepts(c) == c \in Client /\ used[c] = ServerId

SecMngArrange(w) ==
  /\ HandleRequest(w, ~Accepts(wreq[w]))
  /\ made' = IF Accepts(wreq[w]) THEN made \cup {wreq[w]} ELSE made
  /\ UNCHANGED clientVars

ServerStep ==
  /\ \/ Wait \/ Dispatch \/ AddTask
     \/ \E w \in Worker : \/ TakeTask(w) \/ ReadFd(w) \/ RecvHeader(w)
                          \/ AnswerBeat(w) \/ RecvBody(w) \/ RecvRest(w)
                          \/ Unwatch(w) \/ Shut(w) \/ SendAnswer(w)
  /\ UNCHANGED <<clientVars, made>>

ProgramStep ==
  \/ ServerStep
  \/ \E w \in Worker : SecMngArrange(w)
  \/ \E c \in Client : CallStep(c)

ArrangementNext ==
  \/ ProgramStep
  \/ \E c \in Client : BeatStep(c)
  \/ \E p \in Process : Exit(p)

ArrangementSpec == ArrangementInit /\ [][ArrangementNext]_allVars

(* While the server or a call can go on, one of them does: nothing runs in *)
(* circles here, so that it need not be said of every thread.  How long a  *)
(* heartbeat thread sleeps is open.                                        *)
ArrangementFair == ArrangementSpec /\ WF_allVars(ProgramStep)

-----------------------------------------------------------------------------
(* Properties                                                              *)

\* No heartbeat thread has woken up: a call takes less than five seconds.
Quiet == \A c \in Client : toSend[c].beat = Beats[c]

First(p) == Calls[p][1]

(* clientop.cpp:68: the first agreement of an object succeeds: when the    *)
(* call has returned the object has the key the server made for it.        *)
QuietCallGetsKey ==
  \A p \in Process :
    Quiet /\ ~crashed /\ cpc[First(p)] = "done" => key[p] = First(p)

(* Whatever heartbeats do: a key the client takes is one the server made,  *)
(* unless bytes of the answer were missing.                                *)
KeyIsServers ==
  \A p \in Process : /\ key[p] \in Client => key[p] \in made
                     /\ key[p] = Junk => ~Quiet

(* The server ends only because of a second agreement of one object, which *)
(* it has no key for, or when heartbeats are mixed up with requests: no    *)
(* client that leaves, and none that is killed, ends it else.              *)
EndsForAReason ==
  crashed => ~Quiet \/ \E c \in Client : used[c] \notin {None, ServerId}

(* cli.c:41: a heartbeat thread releases the lock when it has its answer or*)
(* failed.  Only one whose connection the server has closed under it, as it*)
(* ended or with a stale descriptor, ends with the lock.                   *)
LockIsReleased ==
  \A p \in Process :
    mtx_t[p] # None =>
      \/ hpc[mtx_t[p]] \in {"send", "recv"}
      \/ \E c \in Of(p) : mode[c] = "open" /\ Lost(c)

(* clientop.cpp:54: recvdata waits for the answer, which comes: a call     *)
(* returns unless a heartbeat takes part of it.                            *)
QuietCallReturns ==
  \A c \in Client : cpc[c] # "idle" ~> (cpc[c] = "done" \/ ~Quiet \/ ~Runs(c) \/ crashed)
=============================================================================
