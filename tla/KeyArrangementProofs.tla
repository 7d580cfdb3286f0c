------------------------ MODULE KeyArrangementProofs ------------------------
(***************************************************************************)
(* Theorems about KeyArrangement, for any number of calls, heartbeats,     *)
(* descriptors and threads of the server and answers of any size: the lock *)
(* of the heartbeat threads is left locked only by a server that closes,   *)
(* and a key a client takes is one the server made, for any number of      *)
(* processes.  For one process, whose calls do not meet another's: a call  *)
(* no heartbeat disturbs gets the server's key, and the server ends for a  *)
(* reason.                                                                 *)
(***************************************************************************)
EXTENDS KeyArrangement, SequenceTheorems, TLAPS

\* Induction on Nat and the recursion of FlattenSeq are lemmas of the codec.
Lists == INSTANCE DerCodecProofs

(* Whoever holds a process's lock is one of its own heartbeat threads, and *)
(* what its threads reach is a connection that one of its calls has made.  *)
ReachInv ==
  \A p \in Process : pdata[p] # None =>
    /\ pdata[p] \in Client /\ Caller(pdata[p]) = p
    /\ mode[pdata[p]] = "open" /\ cpc[pdata[p]] # "idle"

LInv ==
  /\ DOMAIN peer = Fd
  /\ DOMAIN mtx_t = Process /\ DOMAIN hpc = Client /\ DOMAIN mode = Client
  /\ DOMAIN pdata = Process /\ DOMAIN cpc = Client
  /\ \A p \in Process :
       mtx_t[p] # None => mtx_t[p] \in Client /\ Caller(mtx_t[p]) = p
  /\ ReachInv
  /\ LockIsReleased

LEMMA InitLInv == ArrangementInit => LInv
BY DEF ArrangementInit, Init, LInv, ReachInv, LockIsReleased

LEMMA Releases ==
  ASSUME \A p \in Process : mtx_t'[p] # None =>
           \/ hpc'[mtx_t'[p]] \in {"send", "recv"}
           \/ \E c \in Of(p) : mode'[c] = "open" /\ Lost(c)'
  PROVE  LockIsReleased'
BY DEF LockIsReleased

(* A connection that the server has closed is not made again.              *)
StaysLost ==
  /\ \A c \in Client : mode[c] = "open" => mode'[c] = "open" /\ (Lost(c) => Lost(c)')
  /\ \A c \in Client : cpc[c] # "idle" => cpc'[c] # "idle"

LEMMA StaysReached ==
  ASSUME LInv, StaysLost, DOMAIN mode' = Client, DOMAIN cpc' = Client, UNCHANGED <<mtx_t, hpc>>,
         DOMAIN peer' = Fd, DOMAIN pdata' = Process,
         \A p \in Process : pdata'[p] \in {pdata[p], None}
  PROVE  LInv'
<1>1. ReachInv'
  BY DEF LInv, StaysLost, ReachInv
<1>2. LockIsReleased'
  <2>1. \A p \in Process : mtx_t'[p] # None =>
          \/ hpc'[mtx_t'[p]] \in {"send", "recv"}
          \/ \E c \in Of(p) : mode'[c] = "open" /\ Lost(c)'
    BY DEF LInv, LockIsReleased, StaysLost, Of
  <2> QED
    BY <2>1, Releases
<1> QED
  BY <1>1, <1>2 DEF LInv

LEMMA LostStays ==
  ASSUME LInv, UNCHANGED mode, UNCHANGED cpc, crashed => crashed',
         \A f \in Fd, c \in Client : peer'[f] = c => peer[f] = c
  PROVE  StaysLost
BY DEF StaysLost, Lost

(* The lock ends with its process.                                         *)
LEMMA EndKeeps == ASSUME LInv, NEW p \in Process, EndProcess(p) PROVE LInv'
<1>1. /\ mtx_t' = [mtx_t EXCEPT ![p] = None] /\ pdata' = [pdata EXCEPT ![p] = None]
      /\ UNCHANGED <<peer, crashed>>
      /\ DOMAIN hpc' = Client /\ DOMAIN mode' = Client /\ DOMAIN cpc' = Client
  BY DEF EndProcess
<1>2. \A c \in Client : Caller(c) # p => mode'[c] = mode[c] /\ hpc'[c] = hpc[c] /\ cpc'[c] = cpc[c]
  BY DEF EndProcess, Of
<1>3. ReachInv'
  BY <1>1, <1>2 DEF LInv, ReachInv
<1>4. \A q \in Process : mtx_t'[q] # None => mtx_t'[q] \in Client /\ Caller(mtx_t'[q]) = q
  BY <1>1 DEF LInv
<1>5. LockIsReleased'
  <2> SUFFICES ASSUME NEW q \in Process, mtx_t'[q] # None
               PROVE  \/ hpc'[mtx_t'[q]] \in {"send", "recv"}
                      \/ \E c \in Of(q) : mode'[c] = "open" /\ Lost(c)'
    BY Releases
  <2>1. q # p /\ mtx_t'[q] = mtx_t[q] /\ mtx_t[q] \in Client /\ Caller(mtx_t[q]) = q
    BY <1>1 DEF LInv
  <2>2. \A c \in Of(q) : mode'[c] = mode[c] /\ (Lost(c) => Lost(c)')
    BY <1>1, <1>2, <2>1 DEF Of, Lost
  <2> QED
    BY <1>2, <2>1, <2>2 DEF LInv, LockIsReleased, Of
<1> QED
  BY <1>1, <1>3, <1>4, <1>5 DEF LInv

LEMMA CallerIsProcess == \A c \in Client : Caller(c) \in Process
BY ArrangementAssumption DEF Caller

LEMMA CallKeeps == ASSUME LInv, NEW c \in Client, CallStep(c) PROVE LInv'
<1>1. CASE EndProcess(Caller(c))
  BY <1>1, CallerIsProcess, EndKeeps
<1>2. CASE Connect(c)
  <2>1. /\ mtx_t' = [mtx_t EXCEPT ![Caller(c)] = None] /\ pdata' = [pdata EXCEPT ![Caller(c)] = c]
        /\ hpc' = [hpc EXCEPT ![c] = "sleep"] /\ cpc' = [cpc EXCEPT ![c] = "send"]
        /\ mode' = [mode EXCEPT ![c] = "open"] /\ mode[c] = "new" /\ crashed' = crashed
        /\ \E f \in Fd : peer' = [peer EXCEPT ![f] = c]
    BY <1>2 DEF Connect, Accept, Goes
  <2>2. \A d \in Client \ {c} : /\ hpc'[d] = hpc[d] /\ mode'[d] = mode[d] /\ cpc'[d] = cpc[d]
                                /\ Lost(d) => Lost(d)'
    BY <2>1 DEF LInv, Lost
  <2>3. ReachInv'
    BY <2>1, <2>2 DEF LInv, ReachInv
  <2>4. LockIsReleased'
    <3> SUFFICES ASSUME NEW q \in Process, mtx_t'[q] # None
                 PROVE  \/ hpc'[mtx_t'[q]] \in {"send", "recv"}
                        \/ \E d \in Of(q) : mode'[d] = "open" /\ Lost(d)'
      BY Releases
    <3>1. q # Caller(c) /\ mtx_t'[q] = mtx_t[q] /\ mtx_t[q] \in Client \ {c} /\ c \notin Of(q)
      BY <2>1 DEF LInv, Of
    <3> QED
      BY <2>2, <3>1 DEF LInv, LockIsReleased, Of
  <2>5. \A p \in Process : mtx_t'[p] # None => mtx_t'[p] \in Client /\ Caller(mtx_t'[p]) = p
    BY <2>1 DEF LInv
  <2> QED
    BY <2>1, <2>3, <2>4, <2>5 DEF LInv
<1>3. CASE SendRequest(c) \/ SendLost(c) \/ RecvLength(c) \/ RecvUnit(c) \/ RecvEnd(c) \/ MakeKey(c)
  <2>1. /\ UNCHANGED <<peer, mode, crashed, mtx_t, hpc>>
        /\ DOMAIN cpc' = Client /\ \A d \in Client : cpc[d] # "idle" => cpc'[d] # "idle"
    BY <1>3
       DEF SendRequest, ClientRequest, Arrive, SendLost, RecvLength, RecvUnit, RecvEnd, MakeKey,
           Goes, beatVars, vars, kernel, clients, LInv
  <2>2. DOMAIN pdata' = Process /\ \A p \in Process : pdata'[p] \in {pdata[p], None}
    BY <1>3
       DEF SendRequest, FramesReused, SendLost, RecvLength, RecvUnit, RecvEnd, MakeKey,
           beatVars, LInv
  <2>3. StaysLost
    BY <2>1 DEF StaysLost, Lost
  <2> QED
    BY <2>1, <2>2, <2>3, StaysReached DEF LInv
<1> QED
  BY <1>1, <1>2, <1>3
     DEF CallStep, ConnectRefused, SendKilled, RecvNoLength, DecodeEnds

LEMMA BeatKeeps == ASSUME LInv, NEW c \in Client, BeatStep(c) PROVE LInv'
<1>1. CASE EndProcess(Caller(c))
  BY <1>1, CallerIsProcess, EndKeeps
<1>0. ASSUME UNCHANGED <<peer, mode, crashed, cpc, pdata>>
      PROVE  (\A d \in Client : Lost(d) => Lost(d)') /\ ReachInv'
  BY <1>0 DEF Lost, LInv, ReachInv
<1>2. CASE Lock(c)
  <2>1. /\ UNCHANGED <<peer, mode, crashed, cpc, pdata>> /\ hpc' = [hpc EXCEPT ![c] = "send"]
        /\ mtx_t' = [mtx_t EXCEPT ![Caller(c)] = c] /\ mtx_t[Caller(c)] = None
    BY <1>2 DEF Lock, BeatGoes, vars, kernel, clients, callVars
  <2>2. LockIsReleased'
    <3>1. \A q \in Process : mtx_t'[q] # None =>
            \/ hpc'[mtx_t'[q]] \in {"send", "recv"}
            \/ \E d \in Of(q) : mode'[d] = "open" /\ Lost(d)'
      BY <1>0, <2>1, CallerIsProcess DEF LInv, LockIsReleased, Of
    <3> QED
      BY <3>1, Releases
  <2> QED
    BY <1>0, <2>1, <2>2, CallerIsProcess DEF LInv
<1>3. CASE SendBeat(c)
  <2>1. UNCHANGED <<peer, mode, crashed, cpc, pdata, mtx_t>> /\ hpc' = [hpc EXCEPT ![c] = "recv"]
    BY <1>3 DEF SendBeat, BeatGoes, Arrive, kernel, callVars
  <2>2. LockIsReleased'
    <3>1. \A q \in Process : mtx_t'[q] # None =>
            \/ hpc'[mtx_t'[q]] \in {"send", "recv"}
            \/ \E d \in Of(q) : mode'[d] = "open" /\ Lost(d)'
      BY <1>0, <2>1 DEF LInv, LockIsReleased, Of
    <3> QED
      BY <3>1, Releases
  <2> QED
    BY <1>0, <2>1, <2>2 DEF LInv
<1>4. CASE RecvBeat(c) \/ RecvBeatFails(c)
  <2>1. /\ mtx_t' = [mtx_t EXCEPT ![Caller(c)] = None]
        /\ DOMAIN hpc' = Client /\ \A d \in Client \ {c} : hpc'[d] = hpc[d]
    BY <1>4 DEF RecvBeat, RecvBeatFails, Unlock, BeatGoes, LInv
  <2>2. UNCHANGED <<peer, mode, crashed, cpc, pdata>>
    BY <1>4 DEF RecvBeat, RecvBeatFails, vars, kernel, clients, callVars
  <2>3. LockIsReleased'
    <3>1. \A q \in Process : mtx_t'[q] # None =>
            \/ hpc'[mtx_t'[q]] \in {"send", "recv"}
            \/ \E d \in Of(q) : mode'[d] = "open" /\ Lost(d)'
      BY <1>0, <2>1, <2>2, CallerIsProcess DEF LInv, LockIsReleased, Of
    <3> QED
      BY <3>1, Releases
  <2> QED
    BY <1>0, <2>1, <2>2, <2>3 DEF LInv
<1>5. CASE RecvBeatEnd(c)
  <2>1. /\ UNCHANGED <<peer, mode, crashed, cpc, pdata, mtx_t>> /\ hpc' = [hpc EXCEPT ![c] = "ended"]
        /\ pdata[Caller(c)] # None /\ Lost(pdata[Caller(c)])
    BY <1>5 DEF RecvBeatEnd, Reached, Closed, BeatGoes, vars, kernel, clients, callVars
  <2>2. pdata[Caller(c)] \in Of(Caller(c)) /\ mode[pdata[Caller(c)]] = "open"
    BY <2>1, CallerIsProcess DEF LInv, ReachInv, Of
  <2>3. ASSUME NEW q \in Process, mtx_t'[q] # None
        PROVE  \/ hpc'[mtx_t'[q]] \in {"send", "recv"}
               \/ \E d \in Of(q) : mode'[d] = "open" /\ Lost(d)'
    <3>1. CASE q = Caller(c)
      BY <1>0, <2>1, <2>2, <3>1 DEF Of
    <3>2. CASE q # Caller(c)
      BY <1>0, <2>1, <2>3, <3>2 DEF LInv, LockIsReleased, Of
    <3> QED
      BY <3>1, <3>2
  <2> QED
    BY <1>0, <2>1, <2>3, Releases DEF LInv
<1> QED
  BY <1>1, <1>2, <1>3, <1>4, <1>5 DEF BeatStep, SendBeatKilled

(* A worker may close a connection, but it makes none.                     *)
LEMMA ServerKeeps ==
  ASSUME LInv, ServerStep \/ \E w \in Worker : SecMngArrange(w) PROVE LInv'
<1>1. UNCHANGED clientVars /\ mode' = mode
  BY DEF ServerStep, SecMngArrange, HandleRequest, Wait, Dispatch, AddTask, TakeTask, ReadFd,
         RecvHeader, AnswerBeat, RecvBody, RecvRest, Unwatch, Shut, SendAnswer, clients
<1>2. crashed => crashed'
  BY DEF ServerStep, SecMngArrange, HandleRequest, Wait, Dispatch, AddTask, TakeTask,
         ReadFd, RecvHeader, AnswerBeat, RecvBody, RecvRest, Unwatch, Shut, SendAnswer
<1>3. peer' = peer \/ \E f : peer' = [peer EXCEPT ![f] = None]
  BY DEF ServerStep, SecMngArrange, HandleRequest, Wait, Dispatch, AddTask, TakeTask,
         ReadFd, RecvHeader, AnswerBeat, RecvBody, RecvRest, Unwatch, Shut, SendAnswer,
         Send, Sends, SendFails, SendDelivers, SendIsReset, SendKills, Close, Consume, kernel
<1>4. DOMAIN peer' = Fd /\ \A f \in Fd, c \in Client : peer'[f] = c => peer[f] = c
  BY <1>3, EpollAssumption DEF LInv
<1>5. StaysLost
  BY <1>1, <1>2, <1>4, LostStays DEF clientVars, callVars
<1> QED
  BY <1>1, <1>4, <1>5, StaysReached DEF clientVars, callVars, beatVars, LInv

LEMMA StepKeepsL == ASSUME LInv, [ArrangementNext]_allVars PROVE LInv'
<1>1. CASE UNCHANGED allVars
  <2>1. UNCHANGED <<peer, crashed, mode, cpc, pdata, mtx_t, hpc>>
    BY <1>1 DEF allVars, vars, kernel, clients, clientVars, callVars, beatVars
  <2>2. StaysLost
    BY <2>1 DEF StaysLost, Lost
  <2> QED
    BY <2>1, <2>2, StaysReached DEF LInv
<1>2. ASSUME NEW p \in Process, Exit(p) PROVE LInv'
  BY <1>2, EndKeeps DEF Exit
<1> QED
  BY <1>1, <1>2, CallKeeps, BeatKeeps, ServerKeeps DEF ArrangementNext, ProgramStep

(* LockIsReleased: a heartbeat thread that has its answer, or failed, gives*)
(* the lock back; the one exit that keeps it follows a close by the server,*)
(* which ends or, where a worker's descriptor is another client's by now,  *)
(* does not.                                                               *)
THEOREM BeatReleasesLock == ArrangementSpec => []LockIsReleased
<1>1. LInv => LockIsReleased
  BY DEF LInv
<1> QED
  BY <1>1, InitLInv, StepKeepsL, PTL DEF ArrangementSpec

-----------------------------------------------------------------------------
(* FlattenSeq: its recursion is defined.                                   *)
LEMMA FlattenGrows ==
  ASSUME NEW ps, NEW n \in Nat, n = Len(ps)
  PROVE  \E F : /\ F = [i \in 1 .. n |-> IF i = 1 THEN ps[i] ELSE F[i - 1] \o ps[i]]
                /\ FlattenSeq(ps) = IF n = 0 THEN ps ELSE F[n]
<1> DEFINE F == CHOOSE f : f = [i \in 1 .. n |-> IF i = 1 THEN ps[i] ELSE f[i - 1] \o ps[i]]
<1>1. FlattenSeq(ps) = IF n = 0 THEN ps ELSE F[n]
  BY DEF FlattenSeq
<1>2. F = [i \in 1 .. n |-> IF i = 1 THEN ps[i] ELSE F[i - 1] \o ps[i]]
  BY Lists!FlattenExists
<1> HIDE DEF F
<1> QED
  BY <1>1, <1>2

(* Sequences over T are flattened to one over T.                            *)
LEMMA FlattenType ==
  ASSUME NEW T, NEW n \in Nat, NEW s \in [1 .. n -> Seq(T)]
  PROVE  FlattenSeq(s) \in Seq(T)
<1>1. Len(s) = n /\ DOMAIN s = 1 .. n
  BY LenProperties
<1>2. PICK F : /\ F = [i \in 1 .. n |-> IF i = 1 THEN s[i] ELSE F[i - 1] \o s[i]]
               /\ FlattenSeq(s) = IF n = 0 THEN s ELSE F[n]
  BY <1>1, FlattenGrows
<1> DEFINE S == {m \in Nat : m \in 1 .. n => F[m] \in Seq(T)}
<1>3. \A i \in 1 .. n : F[i] = IF i = 1 THEN s[i] ELSE F[i - 1] \o s[i]
  BY <1>2
<1>4. 0 \in S
  OBVIOUS
<1>5. ASSUME NEW m \in Nat, m \in S PROVE m + 1 \in S
  <2>1. CASE m + 1 \in 1 .. n
    <3>1. F[m + 1] = IF m + 1 = 1 THEN s[m + 1] ELSE F[m] \o s[m + 1]
      BY <1>3, <2>1
    <3>2. m + 1 # 1 => F[m] \in Seq(T)
      BY <1>5, <2>1
    <3>3. s[m + 1] \in Seq(T)
      BY <2>1
    <3>4. F[m + 1] \in Seq(T)
      <4>1. CASE m + 1 = 1
        BY <3>1, <3>3, <4>1
      <4>2. CASE m + 1 # 1
        BY <3>1, <3>2, <3>3, <4>2, ConcatProperties
      <4> QED
        BY <4>1, <4>2
    <3> QED
      BY <3>4
  <2> QED
    BY <2>1
<1>6. n \in S
  <2> HIDE DEF S
  <2> QED
    BY <1>4, <1>5, Lists!Induction
<1>7. CASE n = 0
  BY <1>2, <1>7, <1>1, EmptySeq
<1> QED
  BY <1>2, <1>6, <1>7

LEMMA FlattenOne ==
  ASSUME NEW T, NEW u \in Seq(T)
  PROVE  FlattenSeq(<<u>>) = u
<1> DEFINE s == <<u>>
           n == Len(s)
<1>1. n \in Nat /\ n = 1 /\ s[1] = u
  OBVIOUS
<1>2. n = Len(s)
  OBVIOUS
<1> HIDE DEF s, n
<1>3. PICK F : /\ F = [i \in 1 .. n |-> IF i = 1 THEN s[i] ELSE F[i - 1] \o s[i]]
               /\ FlattenSeq(s) = IF n = 0 THEN s ELSE F[n]
  BY <1>1, <1>2, FlattenGrows
<1>4. FlattenSeq(s) = u
  BY <1>1, <1>3
<1> QED
  BY <1>4 DEF s

-----------------------------------------------------------------------------
(* What can be read on a connection.                                       *)
Unit(T) == T \cup {Zero, Length}

LEMMA UnitsType ==
  ASSUME NEW T, NEW packet \in T \cup {Empty}
  PROVE  Units(packet) \in Seq(Unit(T))
<1>1. <<Zero, Zero>> \in Seq(Unit(T)) /\ <<Length, Zero>> \in Seq(Unit(T))
  BY DEF Unit
<1>2. CASE packet # Empty
  <2>1. [i \in 1 .. BodySize |-> packet] \in Seq(Unit(T))
    BY <1>2, ArrangementAssumption DEF Unit
  <2> QED
    BY <1>1, <1>2, <2>1, ConcatProperties DEF Units
<1> QED
  BY <1>1, <1>2 DEF Units

LEMMA SubSeqType ==
  ASSUME NEW T, NEW s \in Seq(T), NEW k \in Nat
  PROVE  /\ SubSeq(s, k + 1, Len(s)) \in Seq(T)
         /\ Len(SubSeq(s, k + 1, Len(s))) = IF k <= Len(s) THEN Len(s) - k ELSE 0
         /\ \A i \in 1 .. Len(s) - k : SubSeq(s, k + 1, Len(s))[i] = s[k + i]
OBVIOUS

LEMMA UnreadType ==
  ASSUME NEW T, NEW c, inbox[c] \in Seq(T \cup {Empty}), pos[c] \in Nat
  PROVE  Unread(c) \in Seq(Unit(T))
<1> DEFINE s == [i \in DOMAIN inbox[c] |-> Units(inbox[c][i])]
           n == Len(inbox[c])
<1>1. n \in Nat /\ DOMAIN inbox[c] = 1 .. n /\ \A i \in 1 .. n : inbox[c][i] \in T \cup {Empty}
  BY LenProperties, ElementOfSeq
<1>2. s \in [1 .. n -> Seq(Unit(T))]
  BY <1>1, UnitsType
<1> HIDE DEF s, n
<1>3. FlattenSeq(s) \in Seq(Unit(T))
  BY <1>1, <1>2, FlattenType
<1>4. Unread(c) = SubSeq(FlattenSeq(s), pos[c] + 1, Len(FlattenSeq(s)))
  BY DEF Unread, s
<1> QED
  BY <1>3, <1>4, SubSeqType

LEMMA RecvType ==
  ASSUME NEW T, NEW c, Unread(c) \in Seq(T), NEW n \in Nat \ {0}
  PROVE  /\ Recv(c, n) \in Seq(T) /\ Len(Recv(c, n)) \in Nat
         /\ Recv(c, n) # <<>> => Unread(c) # <<>> /\ Recv(c, n)[1] = Unread(c)[1] /\ Unread(c)[1] \in T
BY DEF Recv

(* Before the answer there is nothing to read.                             *)
LEMMA NothingUnread ==
  ASSUME NEW c, inbox[c] = <<>>, pos[c] = 0
  PROVE  Unread(c) = <<>>
<1> DEFINE s == [i \in DOMAIN inbox[c] |-> Units(inbox[c][i])]
<1>1. s = <<>>
  OBVIOUS
<1>2. FlattenSeq(<<>>) = <<>>
  BY DEF FlattenSeq
<1>3. Unread(c) = SubSeq(FlattenSeq(s), pos[c] + 1, Len(FlattenSeq(s)))
  BY DEF Unread
<1> QED
  BY <1>1, <1>2, <1>3

(* When the answer of c is all that was sent: its length, then its body.   *)
LEMMA AnswerUnread ==
  ASSUME NEW c \in Client, inbox[c] = <<c>>, NEW k \in 0 .. HeadSize + BodySize, pos[c] = k
  PROVE  /\ Unread(c) \in Seq(Unit({c}))
         /\ Len(Unread(c)) = HeadSize + BodySize - k
         /\ \A i \in 1 .. HeadSize + BodySize - k :
              Unread(c)[i] = IF k + i = 1 THEN Length ELSE IF k + i = 2 THEN Zero ELSE c
<1> DEFINE s == [i \in DOMAIN inbox[c] |-> Units(inbox[c][i])]
           b == [i \in 1 .. BodySize |-> c]
<1>0. c # Empty /\ BodySize \in Nat /\ HeadSize = 2
  BY EpollAssumption, ArrangementAssumption DEF Empty, HeadSize
<1>1. Units(c) \in Seq(Unit({c}))
  BY UnitsType
<1>2. Units(c) = <<Length, Zero>> \o b
  BY <1>0 DEF Units
<1>3. b \in Seq({c}) /\ Len(b) = BodySize /\ \A i \in 1 .. BodySize : b[i] = c
  BY <1>0
<1>4. Len(Units(c)) = 2 + BodySize
      /\ \A i \in 1 .. 2 + BodySize :
           Units(c)[i] = IF i = 1 THEN Length ELSE IF i = 2 THEN Zero ELSE c
  <2> HIDE DEF b
  <2> QED
    BY <1>0, <1>2, <1>3
<1>5. s = <<Units(c)>>
  OBVIOUS
<1>6. Unread(c) = SubSeq(FlattenSeq(s), pos[c] + 1, Len(FlattenSeq(s)))
  BY DEF Unread
<1>7. FlattenSeq(s) = Units(c)
  BY <1>1, <1>5, FlattenOne
<1>8. k \in Nat /\ pos[c] = k
  BY <1>0
<1> HIDE DEF s
<1>9. Unread(c) = SubSeq(Units(c), k + 1, Len(Units(c)))
  BY <1>6, <1>7, <1>8
<1>10. /\ Unread(c) \in Seq(Unit({c}))
       /\ Len(Unread(c)) = IF k <= Len(Units(c)) THEN Len(Units(c)) - k ELSE 0
       /\ \A i \in 1 .. Len(Units(c)) - k : Unread(c)[i] = Units(c)[k + i]
  BY <1>1, <1>8, <1>9, SubSeqType
<1>11. Len(Units(c)) = HeadSize + BodySize
  BY <1>0, <1>4
<1>12. \A i \in 1 .. HeadSize + BodySize - k : k + i \in 1 .. 2 + BodySize
  BY <1>0, <1>8
<1> QED
  BY <1>0, <1>4, <1>8, <1>10, <1>11, <1>12

-----------------------------------------------------------------------------
(* Whose answers the units are, wherever they have got to: what is in an   *)
(* inbox, what a call has read of it, and what it took for its key.        *)
DInv ==
  /\ peer \in [Fd -> Client \cup {None}]
  /\ DOMAIN stream = Fd /\ DOMAIN far = Fd /\ watched \subseteq Fd
  /\ DOMAIN pc = Worker /\ DOMAIN wfd = Worker /\ DOMAIN wreq = Worker
  /\ DOMAIN inbox = Client /\ DOMAIN key = Process
  /\ DOMAIN cpc = Client /\ DOMAIN used = Client /\ DOMAIN pos = Client
  /\ DOMAIN left = Client /\ DOMAIN from = Client /\ DOMAIN hpc = Client
  /\ \A w \in Worker : pc[w] \in {"idle", "enter", "header"} => wreq[w] = None

MInv ==
  /\ made \subseteq Client
  /\ \A c \in Client : /\ inbox[c] \in Seq(made \cup {Empty})
                       /\ pos[c] \in Nat
                       /\ from[c] \in made \cup {None, Junk}
  /\ \A w \in Worker : pc[w] \in {"answer", "send"} => crashed \/ wreq[w] \in made
  /\ \A p \in Process : key[p] \in made \cup {Junk, ServerId}

KInv == DInv /\ MInv

LEMMA InitKInv == ArrangementInit => KInv
<1> SUFFICES ASSUME ArrangementInit PROVE KInv
  OBVIOUS
<1>1. \A c \in Client : inbox[c] = <<>>
  BY DEF ArrangementInit, Init
<1>2. DInv
  BY DEF ArrangementInit, Init, DInv
<1>3. MInv
  BY <1>1 DEF ArrangementInit, Init, MInv
<1> QED
  BY <1>2, <1>3 DEF KInv

LEMMA EndKeepsK == ASSUME KInv, NEW p \in Process, EndProcess(p) PROVE KInv'
<1>1. DInv'
  BY DEF EndProcess, Edge, KInv, DInv
<1>2. MInv'
  BY DEF EndProcess, KInv, DInv, MInv
<1> QED
  BY <1>1, <1>2 DEF KInv

(* A read takes units of answers that the server made.                     *)
LEMMA ReadK ==
  ASSUME MInv, NEW c \in Client, NEW n \in Nat \ {0}
  PROVE  /\ Len(Recv(c, n)) \in Nat
         /\ Recv(c, n) # <<>> /\ Recv(c, n)[1] \in Client => Recv(c, n)[1] \in made
<1>1. Unread(c) \in Seq(Unit(made))
  BY UnreadType DEF MInv
<1>2. Zero \notin Client /\ Length \notin Client
  BY ArrangementAssumption DEF Zero, Length
<1> QED
  BY <1>1, <1>2, RecvType DEF Unit

LEMMA CallKeepsK == ASSUME KInv, NEW c \in Client, CallStep(c) PROVE KInv'
<1>0. DInv /\ MInv /\ Caller(c) \in Process
  BY CallerIsProcess DEF KInv
<1>1. CASE EndProcess(Caller(c))
  BY <1>1, CallerIsProcess, EndKeepsK
<1>2. CASE Connect(c)
  <2>1. DInv'
    BY <1>0, <1>2 DEF Connect, Accept, MakeRequest, Goes, DInv
  <2>2. MInv'
    BY <1>0, <1>2 DEF Connect, Accept, MakeRequest, Goes, MInv, DInv
  <2> QED
    BY <2>1, <2>2 DEF KInv
<1>3. CASE SendRequest(c)
  <2>1. DInv'
    BY <1>0, <1>3 DEF SendRequest, ClientRequest, Arrive, Edge, Goes, DInv
  <2>2. MInv'
    BY <1>0, <1>3 DEF SendRequest, ClientRequest, Goes, MInv
  <2> QED
    BY <2>1, <2>2 DEF KInv
<1>4. CASE SendLost(c) \/ RecvEnd(c)
  BY <1>0, <1>4 DEF SendLost, RecvEnd, Goes, DInv, MInv, KInv, vars, kernel, callVars,
                  beatVars
<1>5. CASE RecvLength(c)
  <2>1. DInv'
    BY <1>0, <1>5 DEF RecvLength, Goes, DInv, vars, kernel, beatVars
  <2>2. Len(HeadOf(c)) \in Nat
    BY <1>0, ReadK DEF HeadOf, HeadSize
  <2>3. MInv'
    BY <1>0, <1>5, <2>2 DEF RecvLength, Goes, MInv, DInv, vars
  <2> QED
    BY <2>1, <2>3 DEF KInv
<1>6. CASE RecvUnit(c)
  <2>1. DInv'
    BY <1>0, <1>6 DEF RecvUnit, DInv, vars, kernel, beatVars
  <2>2. Recv(c, 1)[1] \in Client => Recv(c, 1)[1] \in made
    BY <1>0, <1>6, ReadK DEF RecvUnit
  <2>3. from'[c] \in made \cup {Junk} /\ \A d \in Client \ {c} : from'[d] = from[d]
    BY <1>0, <1>6, <2>2 DEF RecvUnit, DInv
  <2>4. \A d \in Client : pos'[d] \in Nat
    BY <1>0, <1>6 DEF RecvUnit, DInv, MInv
  <2>5. MInv'
    BY <1>0, <1>6, <2>3, <2>4 DEF RecvUnit, MInv, vars
  <2> QED
    BY <2>1, <2>5 DEF KInv
<1>7. CASE MakeKey(c)
  <2>1. DInv'
    BY <1>0, <1>7 DEF MakeKey, Goes, DInv, vars, kernel, beatVars
  <2>2. c # None /\ c # Junk
    BY EpollAssumption DEF Junk
  <2>3. KeysRead(c) \subseteq made \cup {Junk, ServerId}
    BY <1>0, <2>2 DEF KeysRead, MInv
  <2>4. MInv'
    BY <1>0, <1>7, <2>3 DEF MakeKey, MInv, DInv, vars
  <2> QED
    BY <2>1, <2>4 DEF KInv
<1> QED
  BY <1>1, <1>2, <1>3, <1>4, <1>5, <1>6, <1>7
     DEF CallStep, ConnectRefused, SendKilled, RecvNoLength, DecodeEnds

LEMMA BeatKeepsK == ASSUME KInv, NEW c \in Client, BeatStep(c) PROVE KInv'
<1>0. DInv /\ MInv /\ Caller(c) \in Process
  BY CallerIsProcess DEF KInv
<1>1. CASE EndProcess(Caller(c))
  BY <1>1, CallerIsProcess, EndKeepsK
<1>2. CASE Lock(c) \/ RecvBeatFails(c) \/ RecvBeatEnd(c)
  BY <1>0, <1>2 DEF Lock, RecvBeatFails, RecvBeatEnd, BeatGoes, DInv, MInv, KInv, vars,
                    kernel, callVars
<1>3. CASE SendBeat(c)
  <2>1. DInv'
    BY <1>0, <1>3 DEF SendBeat, Arrive, Edge, kernel, BeatGoes, DInv, callVars
  <2>2. MInv'
    BY <1>0, <1>3 DEF SendBeat, MInv, callVars
  <2> QED
    BY <2>1, <2>2 DEF KInv
<1>4. CASE RecvBeat(c)
  <2>1. DInv'
    BY <1>0, <1>4 DEF RecvBeat, BeatGoes, DInv, vars, kernel, beatVars
  <2>2. \A d \in Client : Len(Recv(d, BeatBuffer)) \in Nat
    BY <1>0, ReadK DEF BeatBuffer
  <2>3. \A d \in Client : pos'[d] \in Nat /\ from'[d] \in {from[d], Junk}
    BY <1>0, <1>4, <2>2 DEF RecvBeat, DInv, MInv
  <2>4. MInv'
    BY <1>0, <1>4, <2>3 DEF RecvBeat, MInv, vars
  <2> QED
    BY <2>1, <2>4 DEF KInv
<1> QED
  BY <1>1, <1>2, <1>3, <1>4 DEF BeatStep, SendBeatKilled

LEMMA MoreIn ==
  ASSUME NEW S, NEW T, S \subseteq T, NEW s \in Seq(S) PROVE s \in Seq(T)
OBVIOUS

LEMMA SendK ==
  ASSUME DInv, NEW w \in Worker, NEW m, Send(w, m)
  PROVE  /\ UNCHANGED <<peer, stream, watched>> /\ DOMAIN far' = Fd /\ DOMAIN inbox' = Client
         /\ \A c \in Client : inbox'[c] \in {inbox[c], Append(inbox[c], m)}
         /\ Return(w) \/ (Goto(w, "del") /\ UNCHANGED <<wfd, wreq>>)
<1>1. /\ UNCHANGED <<peer, stream, watched>> /\ DOMAIN far' = Fd /\ DOMAIN inbox' = Client
      /\ \A c \in Client : inbox'[c] \in {inbox[c], Append(inbox[c], m)}
  BY DEF Send, Sends, SendFails, SendDelivers, SendIsReset, SendKills, Edge, kernel, DInv
<1>2. Return(w) \/ (Goto(w, "del") /\ UNCHANGED <<wfd, wreq>>)
  BY DEF Send
<1> QED
  BY <1>1, <1>2

LEMMA ServerKeepsK ==
  ASSUME KInv, ServerStep \/ \E w \in Worker : SecMngArrange(w) PROVE KInv'
<1>0. DInv /\ MInv
  BY DEF KInv
<1>1. UNCHANGED clientVars
  BY DEF ServerStep, SecMngArrange
<1>3. ASSUME NEW w \in Worker, SecMngArrange(w) PROVE KInv'
  <2>1. /\ made \subseteq made' /\ made' \subseteq Client
        /\ crashed' \/ wreq[w] \in made'
    BY <1>0, <1>3 DEF SecMngArrange, HandleRequest, Accepts, MInv
  <2>2. UNCHANGED <<kernel, wreq, inbox>> /\ ~crashed
    BY <1>3 DEF SecMngArrange, HandleRequest
  <2>3. pc' = [pc EXCEPT ![w] = "answer"] /\ DOMAIN wfd' = DOMAIN wfd
    BY <1>3 DEF SecMngArrange, HandleRequest, Goto
  <2>4. DInv'
    BY <1>0, <1>1, <2>2, <2>3 DEF DInv, kernel, clientVars, callVars, beatVars
  <2>5. \A c \in Client : inbox[c] \in Seq(made' \cup {Empty})
    <3> SUFFICES ASSUME NEW c \in Client PROVE inbox[c] \in Seq(made' \cup {Empty})
      OBVIOUS
    <3>1. inbox[c] \in Seq(made \cup {Empty}) /\ made \cup {Empty} \subseteq made' \cup {Empty}
      BY <1>0, <2>1 DEF MInv
    <3> QED
      BY <3>1, MoreIn
  <2>6. MInv'
    BY <1>0, <1>1, <2>1, <2>2, <2>3, <2>5 DEF MInv, DInv, clientVars, callVars
  <2> QED
    BY <2>4, <2>6 DEF KInv
<1>4. ASSUME NEW w \in Worker, TakeTask(w) \/ ReadFd(w) \/ RecvHeader(w) \/ AnswerBeat(w)
                                \/ RecvBody(w) \/ RecvRest(w) \/ Unwatch(w) \/ Shut(w)
                                \/ SendAnswer(w),
             UNCHANGED <<clientVars, made>>
      PROVE  KInv'
  <2>1. DInv' /\ (inbox' = inbox \/ AnswerBeat(w) \/ SendAnswer(w))
    <3>1. CASE AnswerBeat(w) \/ SendAnswer(w)
      BY <1>0, <1>4, <3>1, SendK
         DEF AnswerBeat, SendAnswer, Return, Goto, reactor, DInv, clientVars, callVars, beatVars
    <3>2. CASE TakeTask(w) \/ ReadFd(w) \/ RecvHeader(w) \/ RecvBody(w) \/ RecvRest(w)
      BY <1>0, <1>4, <3>2
         DEF TakeTask, ReadFd, RecvHeader, RecvBody, RecvRest, Goto, Consume, kernel,
             DInv, clientVars, callVars, beatVars
    <3>3. CASE Unwatch(w) \/ Shut(w)
      BY <1>0, <1>4, <3>3
         DEF Unwatch, Shut, Return, Goto, Close, Delete, DInv, clientVars, callVars, beatVars
    <3> QED
      BY <1>4, <3>1, <3>2, <3>3
  <2>2. \A c \in Client : inbox'[c] \in Seq(made \cup {Empty})
    <3>0. \A c \in Client : inbox[c] \in Seq(made \cup {Empty})
      BY <1>0 DEF MInv
    <3>1. CASE AnswerBeat(w)
      <4>1. \A c \in Client : inbox'[c] \in {inbox[c], Append(inbox[c], Empty)}
        BY <1>0, <3>1, SendK DEF AnswerBeat
      <4> QED
        BY <3>0, <4>1
    <3>2. CASE SendAnswer(w)
      <4>1. wreq[w] \in made
        BY <1>0, <3>2 DEF SendAnswer, MInv
      <4>2. \A c \in Client : inbox'[c] \in {inbox[c], Append(inbox[c], wreq[w])}
        BY <1>0, <3>2, SendK DEF SendAnswer
      <4> SUFFICES ASSUME NEW c \in Client PROVE inbox'[c] \in Seq(made \cup {Empty})
        OBVIOUS
      <4>3. inbox[c] \in Seq(made \cup {Empty}) /\ wreq[w] \in made \cup {Empty}
        BY <3>0, <4>1
      <4>4. Append(inbox[c], wreq[w]) \in Seq(made \cup {Empty})
        BY <4>3, AppendProperties
      <4> QED
        BY <4>2, <4>3, <4>4
    <3>3. CASE inbox' = inbox
      BY <3>0, <3>3
    <3> QED
      BY <2>1, <3>1, <3>2, <3>3
  <2>3. \A v \in Worker : pc'[v] \in {"answer", "send"} => crashed' \/ wreq'[v] \in made
    BY <1>0, <1>4
       DEF TakeTask, ReadFd, RecvHeader, AnswerBeat, RecvBody, RecvRest, Unwatch, Shut,
           SendAnswer, Send, Return, Goto, DInv, MInv
  <2> QED
    BY <1>0, <1>4, <2>1, <2>2, <2>3 DEF KInv, MInv, clientVars, callVars
<1>5. CASE ServerStep
  <2>1. CASE Wait \/ Dispatch \/ AddTask
    BY <1>0, <1>5, <2>1
       DEF ServerStep, Wait, Dispatch, AddTask, DInv, MInv, KInv, kernel, clientVars,
                      callVars, beatVars
  <2> QED
    BY <1>4, <1>5, <2>1 DEF ServerStep
<1> QED
  BY <1>3, <1>5

LEMMA StepKeepsK == ASSUME KInv, [ArrangementNext]_allVars PROVE KInv'
<1>1. CASE UNCHANGED allVars
  BY <1>1 DEF allVars, vars, kernel, clientVars, callVars, beatVars, KInv, DInv, MInv
<1>2. ASSUME NEW p \in Process, Exit(p) PROVE KInv'
  BY <1>2, EndKeepsK DEF Exit
<1> QED
  BY <1>1, <1>2, CallKeepsK, BeatKeepsK, ServerKeepsK DEF ArrangementNext, ProgramStep

(* The first half of KeyIsServers, for any number of processes: whoever's  *)
(* answer is read, whatever heartbeats took of it, a key that is one at all*)
(* is one the server made.                                                 *)
ServersKeys == \A p \in Process : key[p] \in Client => key[p] \in made

(* ServersKeys: a unit of an answer is sent only after its key was made.   *)
THEOREM KeysAreServers == ArrangementSpec => []ServersKeys
<1>1. KInv => ServersKeys
  BY EpollAssumption, ArrangementAssumption DEF KInv, MInv, ServersKeys, Junk
<1> QED
  BY <1>1, InitKInv, StepKeepsK, PTL DEF ArrangementSpec

-----------------------------------------------------------------------------
(* One process, no heartbeat.  Its request is at one place of the server.  *)

OnWorker == {"enter", "header", "body", "decode", "answer", "send", "del", "shut"}
Path == {"ready", "batch", "adding", "queued", "enter", "header", "body", "decode",
         "answer", "send"}
Closing == {"ready", "batch", "adding", "queued", "enter", "header", "del", "shut", "quiet"}
Stages == Path \cup Closing

(* The event, the task or the worker w at l is f's, and there is no other; *)
(* "quiet": there is none at all.                                          *)
At(f, l, w) ==
  /\ ready = (IF l = "ready" THEN {f} ELSE {})
  /\ batch = (IF l = "batch" THEN {f} ELSE {})
  /\ adding = (l = "adding")
  /\ queued = (IF l = "queued" THEN 1 ELSE 0)
  /\ l \in OnWorker => w \in Worker
  /\ \A v \in Worker : pc[v] = IF v = w /\ l \in OnWorker THEN l ELSE "idle"
  /\ l \notin {"quiet", "ready", "batch"} => ep_fd = f
  /\ l \in {"header", "body", "send", "del", "shut"} => wfd[w] = f

RequestAt(c, f, l, w) ==
  /\ At(f, l, w)
  /\ stream[f] = IF l \in {"quiet", "decode", "answer", "send"} THEN <<>>
                 ELSE IF l = "body" THEN <<c>> ELSE <<"header", c>>
  /\ l \in {"decode", "answer", "send"} => wreq[w] = c

(* Where a call is: not yet made; made and not answered; reading the answer*)
(* it got; returned with its key.                                          *)
Fresh(c) == cpc[c] = "idle" /\ pos[c] = 0 /\ inbox[c] = <<>> /\ from[c] = None

Asked(c, l) ==
  /\ inbox[c] = <<>> /\ pos[c] = 0 /\ from[c] = None
  /\ cpc[c] = IF l = "quiet" THEN "send" ELSE "head"

Reading(c) ==
  /\ inbox[c] = <<c>>
  /\ \/ cpc[c] = "head" /\ pos[c] = 0 /\ from[c] = None
     \/ /\ cpc[c] = "body" /\ left[c] \in 0 .. BodySize
        /\ pos[c] = HeadSize + BodySize - left[c]
        /\ from[c] = IF left[c] = BodySize THEN None ELSE c

Got(c) ==
  /\ cpc[c] = "done" /\ inbox[c] = <<c>> /\ pos[c] = HeadSize + BodySize

Healthy == ~crashed /\ gone = {} /\ \A f \in Fd : far[f] = "open"

OnlyPeers(fs) ==
  watched = fs /\ \A g \in Fd \ fs : peer[g] = None /\ stream[g] = <<>>

(* What one process goes through as long as no heartbeat is sent: before   *)
(* its first call, the call, after it; a second call, which has a key that *)
(* the server does not know; the server has ended; the process has ended.  *)
Before(p) ==
  /\ Healthy /\ key[p] = ServerId
  /\ At(None, "quiet", None)
  /\ OnlyPeers({})
  /\ \A c \in Client : Fresh(c)

FirstCall(p) == \E f \in Fd, l \in Path \cup {"quiet"}, w \in Worker \cup {None} :
  /\ Healthy /\ key[p] = ServerId
  /\ peer[f] = First(p) /\ OnlyPeers({f})
  /\ used[First(p)] = ServerId
  /\ RequestAt(First(p), f, l, w)
  /\ \/ Asked(First(p), l)
     \/ l = "quiet" /\ Reading(First(p))
  /\ \A c \in Client \ {First(p)} : Fresh(c)

FirstDone(p) == \E f \in Fd, w \in Worker \cup {None} :
  /\ Healthy /\ key[p] = First(p)
  /\ peer[f] = First(p) /\ OnlyPeers({f})
  /\ RequestAt(First(p), f, "quiet", w)
  /\ Got(First(p))
  /\ \A c \in Client \ {First(p)} : Fresh(c)

Unanswered == (Path \cup {"quiet"}) \ {"answer", "send"}
Second(p) == Calls[p][2]

SecondCall(p) == \E f \in Fd : \E g \in Fd \ {f}, l \in Unanswered, w \in Worker \cup {None} :
  /\ Healthy /\ key[p] = First(p) /\ Len(Calls[p]) >= 2
  /\ peer[f] = First(p) /\ stream[f] = <<>> /\ peer[g] = Second(p) /\ OnlyPeers({f, g})
  /\ used[Second(p)] = First(p)
  /\ RequestAt(Second(p), g, l, w)
  /\ Got(First(p)) /\ Asked(Second(p), l)
  /\ \A c \in Client \ {First(p), Second(p)} : Fresh(c)

AllGone(p) == gone = {p} /\ key[p] = ServerId /\ \A c \in Client : cpc[c] = "gone"

Over(p) ==
  /\ crashed /\ \E c \in Client : used[c] \notin {None, ServerId}
  /\ \/ AllGone(p)
     \/ /\ gone = {} /\ key[p] = First(p)
        /\ \A c \in Client : Unread(c) = <<>> /\ cpc[c] # "body"

EndAt(f, l, w) ==
  /\ At(f, l, w)
  /\ l # "quiet" => peer[f] # None /\ far[f] = "fin" /\ stream[f] = <<>>
  /\ l \in {"del", "shut"} => wreq[w] = None

Left(p) == \E f \in Fd, l \in Closing, w \in Worker \cup {None} :
  ~crashed /\ AllGone(p) /\ EndAt(f, l, w)

Phase(p) ==
  Before(p) \/ FirstCall(p) \/ FirstDone(p) \/ SecondCall(p) \/ Over(p) \/ Left(p)

Hush == \A c \in Client : hpc[c] \in {"none", "sleep", "send"}

QInv(p) == Quiet => Hush /\ Phase(p)

-----------------------------------------------------------------------------
(* The server takes the request from place to place.                       *)

Step == ServerStep \/ \E v \in Worker : SecMngArrange(v)

Following(l) ==
  CASE l = "ready" -> "batch"  [] l = "batch" -> "adding" [] l = "adding" -> "queued"
    [] l = "queued" -> "enter" [] l = "enter" -> "header" [] l = "answer" -> "send"
Taken == {"ready", "batch", "adding", "queued", "enter", "answer"}

LEMMA OnlyTheWorker ==
  ASSUME NEW f, NEW l \in Stages, NEW w, At(f, l, w), NEW v \in Worker,
         TakeTask(v) \/ ReadFd(v) \/ RecvHeader(v) \/ AnswerBeat(v) \/ RecvBody(v) \/ RecvRest(v)
           \/ Unwatch(v) \/ Shut(v) \/ SendAnswer(v) \/ SecMngArrange(v)
  PROVE  \/ l = "queued" /\ TakeTask(v)
         \/ l \in {"enter", "answer"} /\ v = w /\ ReadFd(v)
         \/ l = "header" /\ v = w /\ RecvHeader(v)
         \/ l = "body" /\ v = w /\ RecvBody(v)
         \/ l = "decode" /\ v = w /\ SecMngArrange(v)
         \/ l = "send" /\ v = w /\ SendAnswer(v)
         \/ l = "del" /\ v = w /\ Unwatch(v)
         \/ l = "shut" /\ v = w /\ Shut(v)
BY DEF At, OnWorker, Path, Closing, Stages, TakeTask, ReadFd, RecvHeader, AnswerBeat, RecvBody,
       RecvRest, Unwatch, Shut, SendAnswer, SecMngArrange, HandleRequest

(* The only step the server has is that of the request.                    *)
LEMMA Moves ==
  ASSUME DInv, NEW f, NEW l \in Stages, NEW w \in Worker \cup {None}, At(f, l, w), Step
  PROVE  \/ /\ l \in Taken
            /\ \E v \in Worker \cup {None} : At(f, Following(l), v)' /\ (l = "answer" => v = w)
            /\ UNCHANGED <<peer, stream, far, watched, wreq, inbox, crashed, made>>
         \/ l = "header" /\ RecvHeader(w) /\ made' = made
         \/ l = "body" /\ RecvBody(w) /\ made' = made
         \/ l = "decode" /\ SecMngArrange(w)
         \/ l = "send" /\ SendAnswer(w) /\ made' = made
         \/ l = "del" /\ Unwatch(w) /\ made' = made
         \/ l = "shut" /\ Shut(w) /\ made' = made
<1>1. CASE Wait /\ made' = made
  <2>1. l = "ready"
    BY <1>1 DEF Wait, At
  <2>2. At(f, "batch", w)'
    BY <1>1, <2>1 DEF Wait, At, StillReady, OnWorker
  <2> QED
    BY <1>1, <2>1, <2>2 DEF Wait, Following, Taken
<1>2. CASE Dispatch /\ made' = made
  <2>1. l = "batch"
    BY <1>2 DEF Dispatch, At
  <2>2. At(f, "adding", w)'
    BY <1>2, <2>1 DEF Dispatch, At, OnWorker, kernel
  <2> QED
    BY <1>2, <2>1, <2>2 DEF Dispatch, Following, Taken, kernel
<1>3. CASE AddTask /\ made' = made
  <2>1. l = "adding"
    BY <1>3 DEF AddTask, At
  <2>2. queued = 0 /\ queued' = 1
    BY <1>3, <2>1 DEF AddTask, At, QueuedAfterAdd
  <2>3. At(f, "queued", w)'
    <3>1. UNCHANGED <<ready, batch, pc, wfd, ep_fd>> /\ adding' = FALSE
      BY <1>3 DEF AddTask, kernel
    <3> QED
      BY <2>1, <2>2, <3>1 DEF At, OnWorker
  <2> QED
    BY <1>3, <2>1, <2>3 DEF AddTask, Following, Taken, kernel
<1>4. ASSUME NEW v \in Worker, made' = made \/ SecMngArrange(v),
             TakeTask(v) \/ ReadFd(v) \/ RecvHeader(v) \/ AnswerBeat(v) \/ RecvBody(v) \/ RecvRest(v)
               \/ Unwatch(v) \/ Shut(v) \/ SendAnswer(v) \/ SecMngArrange(v)
      PROVE  \/ /\ l \in Taken
                /\ \E u \in Worker \cup {None} : At(f, Following(l), u)' /\ (l = "answer" => u = w)
                /\ UNCHANGED <<peer, stream, far, watched, wreq, inbox, crashed, made>>
             \/ l = "header" /\ RecvHeader(w) /\ made' = made
             \/ l = "body" /\ RecvBody(w) /\ made' = made
             \/ l = "decode" /\ SecMngArrange(w)
             \/ l = "send" /\ SendAnswer(w) /\ made' = made
             \/ l = "del" /\ Unwatch(w) /\ made' = made
             \/ l = "shut" /\ Shut(w) /\ made' = made
  <2>0. pc[v] # "decode" => made' = made
    BY <1>4 DEF SecMngArrange, HandleRequest
  <2>1. CASE l = "queued" /\ TakeTask(v)
    <3>1. made' = made
      BY <2>0, <2>1 DEF TakeTask
    <3>2. At(f, "enter", v)'
      BY <2>1 DEF TakeTask, At, OnWorker, Goto, kernel, reactor, DInv
    <3> QED
      BY <2>1, <3>1, <3>2 DEF TakeTask, Following, Taken, kernel
  <2>2. CASE l \in {"enter", "answer"} /\ v = w /\ ReadFd(v)
    <3>1. made' = made
      BY <2>0, <2>2 DEF ReadFd
    <3>2. l = "enter" => At(f, "header", w)'
      BY <2>2 DEF ReadFd, At, OnWorker, Goto, kernel, reactor, DInv
    <3>3. l = "answer" => At(f, "send", w)'
      BY <2>2 DEF ReadFd, At, OnWorker, Goto, kernel, reactor, DInv
    <3> QED
      BY <2>2, <3>1, <3>2, <3>3 DEF ReadFd, Following, Taken, kernel
  <2>3. CASE /\ l \in {"header", "body", "send", "del", "shut"} /\ v = w
             /\ RecvHeader(v) \/ RecvBody(v) \/ SendAnswer(v) \/ Unwatch(v) \/ Shut(v)
    BY <1>4, <2>0, <2>3, OnlyTheWorker DEF RecvHeader, RecvBody, SendAnswer, Unwatch, Shut
  <2> QED
    BY <1>4, <2>1, <2>2, <2>3, OnlyTheWorker
<1> QED
  BY <1>1, <1>2, <1>3, <1>4 DEF Step, ServerStep

(* The descriptor stays the call's own: its request is read whole, and the *)
(* answer goes to the call.                                                *)
LEMMA Served ==
  ASSUME DInv, NEW c \in Client, NEW f \in Fd, NEW l \in Path \cup {"quiet"},
         NEW w \in Worker \cup {None}, RequestAt(c, f, l, w), peer[f] = c, far[f] = "open",
         ~crashed, Step
  PROVE  /\ UNCHANGED <<peer, far, watched>> /\ \A g \in Fd \ {f} : stream'[g] = stream[g]
         /\ \/ /\ l \notin {"quiet", "decode", "send"} /\ UNCHANGED <<inbox, crashed>>
               /\ \E k \in Path, v \in Worker \cup {None} :
                    RequestAt(c, f, k, v)' /\ (k \in {"answer", "send"} => l = "answer")
            \/ /\ l = "decode" /\ inbox' = inbox /\ crashed' = ~Accepts(c)
               /\ RequestAt(c, f, "answer", w)'
            \/ /\ l = "send" /\ crashed' = crashed
               /\ inbox' = [inbox EXCEPT ![c] = Append(@, c)]
               /\ RequestAt(c, f, "quiet", w)'
<1>0. /\ c # None /\ c # Empty /\ c # "header" /\ "header" # Empty /\ c # Junk
      /\ At(f, l, w) /\ l \in Stages /\ l \notin {"del", "shut"}
  BY EpollAssumption DEF Empty, Junk, RequestAt, Path, Closing, Stages
<1>1. CASE /\ l \in Taken
           /\ \E v \in Worker \cup {None} : At(f, Following(l), v)' /\ (l = "answer" => v = w)
           /\ UNCHANGED <<peer, stream, far, watched, wreq, inbox, crashed, made>>
  <2>1. PICK v \in Worker \cup {None} : At(f, Following(l), v)' /\ (l = "answer" => v = w)
    BY <1>1
  <2>2. /\ Following(l) \in Path
        /\ Following(l) \in {"answer", "send"} => l = "answer"
        /\ l = "answer" => Following(l) = "send"
        /\ l # "answer" => l \in {"ready", "batch", "adding", "queued", "enter"}
                           /\ Following(l) \in {"batch", "adding", "queued", "enter", "header"}
    BY <1>1 DEF Following, Path, OnWorker, Taken
  <2>3. RequestAt(c, f, Following(l), v)'
    <3>1. CASE l = "answer"
      BY <1>1, <2>1, <2>2, <3>1 DEF RequestAt
    <3>2. CASE l # "answer"
      BY <1>1, <2>1, <2>2, <3>2 DEF RequestAt
    <3> QED
      BY <3>1, <3>2
  <2>4. \E k \in Path, u \in Worker \cup {None} :
          RequestAt(c, f, k, u)' /\ (k \in {"answer", "send"} => l = "answer")
    BY <2>2, <2>3
  <2>5. l \notin {"quiet", "decode", "send"}
    BY <1>1 DEF Taken
  <2> QED
    BY <1>1, <2>4, <2>5
<1>2. CASE l = "header" /\ RecvHeader(w)
  <2>1. w \in Worker /\ wfd[w] = f /\ stream[f] = <<"header", c>>
    BY <1>2 DEF RequestAt, At, OnWorker
  <2>2. HasData(f) /\ Head(stream[f]) = "header" /\ Tail(stream[f]) = <<c>>
    BY <2>1 DEF HasData
  <2>3. Consume(f) /\ Goto(w, "body") /\ UNCHANGED <<wfd, wreq, reactor, queued, crashed, inbox>>
    BY <1>0, <1>2, <2>1, <2>2 DEF RecvHeader, RecvFails, AtEnd
  <2>4. RequestAt(c, f, "body", w)'
    BY <1>0, <1>2, <2>1, <2>2, <2>3 DEF RequestAt, At, Consume, Goto, reactor, OnWorker, DInv
  <2> QED
    BY <1>2, <2>3, <2>4 DEF Consume, Path, DInv
<1>3. CASE l = "body" /\ RecvBody(w)
  <2>1. w \in Worker /\ wfd[w] = f /\ stream[f] = <<c>>
    BY <1>3 DEF RequestAt, At, OnWorker
  <2>2. HasData(f) /\ BodyRead(f) = c /\ Tail(stream[f]) = <<>>
    BY <2>1 DEF HasData, BodyRead
  <2>3. Consume(f) /\ Goto(w, "decode") /\ UNCHANGED <<wfd, reactor, queued, crashed, inbox>>
        /\ wreq' = [wreq EXCEPT ![w] = c]
    BY <1>3, <2>1, <2>2 DEF RecvBody, RecvFails, AtEnd
  <2>4. RequestAt(c, f, "decode", w)'
    BY <1>0, <1>3, <2>1, <2>2, <2>3 DEF RequestAt, At, Consume, Goto, reactor, OnWorker, DInv
  <2> QED
    BY <1>3, <2>3, <2>4 DEF Consume, Path, DInv
<1>4. CASE l = "decode" /\ SecMngArrange(w)
  <2>1. w \in Worker /\ wreq[w] = c
    BY <1>4 DEF RequestAt, At, OnWorker
  <2>2. /\ crashed' = ~Accepts(c) /\ UNCHANGED <<kernel, reactor, queued, wreq, inbox>>
        /\ Goto(w, "answer") /\ wfd' = [wfd EXCEPT ![w] = None]
    BY <1>4, <2>1 DEF SecMngArrange, HandleRequest
  <2>3. RequestAt(c, f, "answer", w)'
    BY <1>0, <1>4, <2>1, <2>2 DEF RequestAt, At, Goto, kernel, reactor, OnWorker, DInv
  <2> QED
    BY <1>4, <2>2, <2>3 DEF kernel
<1>5. CASE l = "send" /\ SendAnswer(w)
  <2>1. w \in Worker /\ wreq[w] = c /\ wfd[w] = f
    BY <1>5 DEF RequestAt, At, OnWorker
  <2>2. SendDelivers(f, c)
    BY <1>0, <1>5, <2>1 DEF SendAnswer, Send, Sends, SendFails, SendIsReset, SendKills
  <2>3. UNCHANGED <<kernel, crashed, reactor, queued>> /\ Return(w)
        /\ inbox' = [inbox EXCEPT ![c] = Append(@, c)]
    BY <1>0, <1>5, <2>1, <2>2 DEF SendAnswer, Send, SendFails, SendDelivers
  <2>4. RequestAt(c, f, "quiet", w)'
    BY <1>0, <1>5, <2>1, <2>3 DEF RequestAt, At, Return, Goto, kernel, reactor, OnWorker, DInv
  <2> QED
    BY <1>5, <2>3, <2>4 DEF kernel
<1> QED
  BY <1>0, <1>1, <1>2, <1>3, <1>4, <1>5, Moves

(* The descriptor of a process that has ended is closed.                   *)
LEMMA Closes ==
  ASSUME DInv, NEW f \in Fd, NEW l \in Closing, NEW w \in Worker \cup {None},
         EndAt(f, l, w), ~crashed, Step
  PROVE  /\ ~crashed'
         /\ \E k \in Closing, v \in Worker \cup {None} : EndAt(f, k, v)'
<1>0. At(f, l, w) /\ l \in Stages /\ l \notin {"body", "decode", "send"}
  BY DEF EndAt, Closing, Stages
<1>1. CASE /\ l \in Taken
           /\ \E v \in Worker \cup {None} : At(f, Following(l), v)' /\ (l = "answer" => v = w)
           /\ UNCHANGED <<peer, stream, far, watched, wreq, inbox, crashed, made>>
  <2>1. PICK v \in Worker \cup {None} : At(f, Following(l), v)'
    BY <1>1
  <2>2. l \in {"ready", "batch", "adding", "queued", "enter"}
        /\ Following(l) \in {"batch", "adding", "queued", "enter", "header"}
    BY <1>1 DEF Following, Taken, Closing
  <2>3. EndAt(f, Following(l), v)'
    BY <1>1, <2>1, <2>2 DEF EndAt
  <2> QED
    BY <1>1, <2>2, <2>3 DEF Closing
<1>2. CASE l = "header" /\ RecvHeader(w)
  <2>1. /\ w \in Worker /\ wfd[w] = f /\ stream[f] = <<>> /\ peer[f] # None /\ far[f] = "fin"
        /\ pc[w] = "header" /\ wreq[w] = None
    BY <1>2 DEF EndAt, At, OnWorker, DInv
  <2>2. Goto(w, "del") /\ UNCHANGED <<kernel, reactor, queued, wfd, wreq, crashed>>
    BY <1>2, <2>1 DEF RecvHeader, RecvFails, AtEnd, HasData
  <2>3. At(f, "del", w)'
    BY <1>0, <1>2, <2>1, <2>2 DEF At, Goto, kernel, reactor, OnWorker, DInv
  <2>4. EndAt(f, "del", w)'
    BY <2>1, <2>2, <2>3 DEF EndAt, kernel
  <2> QED
    BY <2>2, <2>4 DEF Closing
<1>3. CASE l = "del" /\ Unwatch(w)
  <2>1. w \in Worker /\ wfd[w] = f
    BY <1>3 DEF EndAt, At, OnWorker
  <2>2. /\ Goto(w, "shut") /\ ready' = ready \ {f}
        /\ UNCHANGED <<peer, stream, far, reactor, queued, wfd, wreq, crashed>>
    BY <1>3, <2>1 DEF Unwatch, Delete
  <2>3. At(f, "shut", w)'
    BY <1>0, <1>3, <2>1, <2>2 DEF At, Goto, reactor, OnWorker, DInv
  <2>4. EndAt(f, "shut", w)'
    BY <1>3, <2>2, <2>3 DEF EndAt
  <2> QED
    BY <2>2, <2>4 DEF Closing
<1>4. CASE l = "shut" /\ Shut(w)
  <2>1. w \in Worker /\ wfd[w] = f /\ wreq[w] # Junk
    BY <1>4, EpollAssumption DEF EndAt, At, OnWorker, Junk
  <2>2. Return(w) /\ ready' = ready \ {f} /\ UNCHANGED <<reactor, queued, crashed>>
    BY <1>4, <2>1 DEF Shut, Close, Delete
  <2>3. At(f, "quiet", w)'
    BY <1>0, <1>4, <2>1, <2>2 DEF At, Return, Goto, reactor, OnWorker, DInv
  <2>4. EndAt(f, "quiet", w)'
    BY <2>3 DEF EndAt
  <2> QED
    BY <2>2, <2>4 DEF Closing
<1> QED
  BY <1>0, <1>1, <1>2, <1>3, <1>4, Moves

-----------------------------------------------------------------------------
(* main.cpp: one process makes all the calls.                              *)
OneProcess(p) == p \in Process /\ Process = {p}

LEMMA TheProcess ==
  ASSUME NEW p, OneProcess(p)
  PROVE  /\ \A c \in Client : Caller(c) = p /\ (Runs(c) <=> p \notin gone)
         /\ Of(p) = Client /\ First(p) \in Client
         /\ Len(Calls[p]) \in Nat
         /\ Len(Calls[p]) >= 2 => Second(p) \in Client \ {First(p)}
<1>1. \A c \in Client : Caller(c) = p
  BY CallerIsProcess DEF OneProcess
<1>2. Calls[p] \in Seq(Client) /\ Calls[p] # <<>>
  BY ArrangementAssumption DEF OneProcess
<1>3. Len(Calls[p]) \in Nat /\ DOMAIN Calls[p] = 1 .. Len(Calls[p]) /\ Len(Calls[p]) >= 1
  BY <1>2
<1>4. First(p) \in Client
  BY <1>2, <1>3 DEF First
<1>5. Len(Calls[p]) >= 2 => Second(p) \in Client \ {First(p)}
  <2>1. Len(Calls[p]) >= 2 => /\ 1 \in DOMAIN Calls[p] /\ 2 \in DOMAIN Calls[p]
                              /\ Calls[p][2] \in Client
    BY <1>2, <1>3
  <2> QED
    BY <2>1, ArrangementAssumption DEF First, Second, OneProcess
<1> QED
  BY <1>1, <1>3, <1>4, <1>5 DEF Runs, Of

LEMMA CallsInOrder ==
  ASSUME NEW p, OneProcess(p), NEW c \in Client, NextCall(c)
  PROVE  /\ cpc[c] = "idle"
         /\ \/ c = First(p)
            \/ /\ cpc[First(p)] = "done" /\ Len(Calls[p]) >= 2
               /\ c = Second(p) \/ cpc[Second(p)] = "done"
<1>1. Caller(c) = p
  BY TheProcess
<1>2. PICK i \in DOMAIN Calls[p] : /\ Calls[p][i] = c /\ cpc[c] = "idle"
                                  /\ \A j \in 1 .. i - 1 : cpc[Calls[p][j]] = "done"
  BY <1>1 DEF NextCall
<1>3. DOMAIN Calls[p] = 1 .. Len(Calls[p]) /\ Len(Calls[p]) \in Nat
  BY ArrangementAssumption, TheProcess DEF OneProcess
<1>4. CASE i = 1
  BY <1>2, <1>4 DEF First
<1>5. CASE i = 2
  BY <1>2, <1>3, <1>5 DEF First, Second
<1>6. CASE i > 2
  <2>1. 1 \in 1 .. i - 1 /\ 2 \in 1 .. i - 1 /\ Len(Calls[p]) >= 2
    BY <1>3, <1>6
  <2> QED
    BY <1>2, <2>1 DEF First, Second
<1> QED
  BY <1>2, <1>3, <1>4, <1>5, <1>6

LEMMA ExitIsDone ==
  ASSUME NEW p, OneProcess(p), Exit(p)
  PROVE  \A c \in Client : cpc[c] = "done"
BY ArrangementAssumption DEF OneProcess, Exit

LEMMA IdleConnects ==
  ASSUME NEW c, cpc[c] = "idle", CallStep(c), ~crashed
  PROVE  Connect(c) /\ NextCall(c)
BY DEF CallStep, Connect, ConnectRefused, SendRequest, SendLost, SendKilled, RecvLength,
       RecvNoLength, RecvUnit, RecvEnd, MakeKey, DecodeEnds

LEMMA DoneRests ==
  ASSUME NEW c, cpc[c] \in {"done", "gone"}, CallStep(c), ~crashed
  PROVE  FALSE
BY DEF CallStep, Connect, NextCall, ConnectRefused, SendRequest, SendLost, SendKilled,
       RecvLength, RecvNoLength, RecvUnit, RecvEnd, MakeKey, DecodeEnds

(* What a connection changes.                                              *)
LEMMA Connects ==
  ASSUME NEW p, OneProcess(p), DInv, NEW c \in Client, Connect(c)
  PROVE  /\ \E f \in Fd : /\ peer[f] = None /\ peer' = [peer EXCEPT ![f] = c]
                         /\ watched' = watched \cup {f}
         /\ used' = [used EXCEPT ![c] = key[p]]
         /\ cpc' = [cpc EXCEPT ![c] = "send"]
         /\ UNCHANGED <<key, pos, left, from, gone, made>>
         /\ UNCHANGED <<stream, far, ready, reactor, queued, pc, wfd, wreq, crashed, inbox>>
BY TheProcess DEF Connect, Accept, MakeRequest, Goes

LEMMA BeforeCall ==
  ASSUME NEW p, OneProcess(p), DInv, Before(p), NEW c \in Client, CallStep(c)
  PROVE  FirstCall(p)'
<1>0. First(p) \in Client /\ (Len(Calls[p]) >= 2 => Second(p) \in Client \ {First(p)})
  BY TheProcess
<1>1. cpc[c] = "idle" /\ ~crashed /\ cpc[First(p)] = "idle"
  BY <1>0 DEF Before, Fresh, Healthy
<1>2. Connect(c) /\ NextCall(c)
  BY <1>1, IdleConnects
<1>3. c = First(p)
  BY <1>1, <1>2, CallsInOrder
<1>4. PICK f \in Fd : /\ peer[f] = None /\ peer' = [peer EXCEPT ![f] = c]
                       /\ watched' = watched \cup {f}
  BY <1>2, Connects
<1>5. /\ used' = [used EXCEPT ![c] = key[p]]
      /\ cpc' = [cpc EXCEPT ![c] = "send"]
      /\ UNCHANGED <<key, pos, left, from, gone, made>>
      /\ UNCHANGED <<stream, far, ready, reactor, queued, pc, wfd, wreq, crashed, inbox>>
  BY <1>2, Connects
<1>6. Healthy' /\ key'[p] = ServerId /\ used'[c] = ServerId /\ peer'[f] = c
  BY <1>4, <1>5 DEF Before, Healthy, DInv
<1>7. RequestAt(c, f, "quiet", None)'
  <2>1. At(f, "quiet", None)'
    BY <1>5 DEF Before, At, reactor, OnWorker
  <2> QED
    BY <1>5, <2>1 DEF RequestAt, Before, OnlyPeers
<1>8. OnlyPeers({f})'
  BY <1>4, <1>5 DEF Before, OnlyPeers, DInv
<1>9. Asked(c, "quiet")' /\ \A d \in Client \ {c} : Fresh(d)'
  BY <1>5 DEF Before, Fresh, Asked, DInv
<1>10. "quiet" \in Path \cup {"quiet"} /\ None \in Worker \cup {None}
  OBVIOUS
<1> QED
  BY <1>3, <1>6, <1>7, <1>8, <1>9, <1>10 DEF FirstCall, First

(* What is read of an answer that nobody else reads of.                    *)
LEMMA HeadRead ==
  ASSUME NEW c \in Client, inbox[c] = <<c>>, pos[c] = 0
  PROVE  /\ Len(HeadOf(c)) = HeadSize /\ IsLength(HeadOf(c)) /\ ~IsZero(HeadOf(c))
         /\ Unread(c) # <<>>
<1>0. BodySize \in Nat \ {0} /\ HeadSize = 2 /\ Length # Zero
  BY ArrangementAssumption DEF HeadSize, Length, Zero
<1>1. /\ Unread(c) \in Seq(Unit({c})) /\ Len(Unread(c)) = 2 + BodySize
      /\ Unread(c)[1] = Length /\ Unread(c)[2] = Zero
  <2>1. 0 \in 0 .. HeadSize + BodySize
    BY <1>0
  <2>2. /\ Unread(c) \in Seq(Unit({c})) /\ Len(Unread(c)) = HeadSize + BodySize - 0
        /\ \A i \in 1 .. HeadSize + BodySize - 0 :
             Unread(c)[i] = IF 0 + i = 1 THEN Length ELSE IF 0 + i = 2 THEN Zero ELSE c
    BY <2>1, AnswerUnread
  <2> QED
    BY <1>0, <2>2
<1>2. HeadOf(c) = SubSeq(Unread(c), 1, 2)
  BY <1>0, <1>1 DEF HeadOf, Recv
<1>3. Len(HeadOf(c)) = 2 /\ HeadOf(c)[1] = Length /\ HeadOf(c)[2] = Zero
      /\ DOMAIN HeadOf(c) = 1 .. 2
  BY <1>0, <1>1, <1>2
<1>4. Unread(c) # <<>>
  BY <1>0, <1>1
<1> QED
  BY <1>0, <1>3, <1>4 DEF IsLength, IsZero

LEMMA UnitRead ==
  ASSUME NEW c \in Client, inbox[c] = <<c>>, NEW j \in 1 .. BodySize,
         pos[c] = HeadSize + BodySize - j
  PROVE  Recv(c, 1) # <<>> /\ Recv(c, 1)[1] = c
<1>0. BodySize \in Nat \ {0} /\ HeadSize = 2
  BY ArrangementAssumption DEF HeadSize
<1>1. pos[c] \in 0 .. HeadSize + BodySize /\ HeadSize + BodySize - pos[c] = j
      /\ pos[c] + 1 # 1 /\ pos[c] + 1 # 2 /\ 1 \in 1 .. j
  BY <1>0
<1>2. Unread(c) \in Seq(Unit({c})) /\ Len(Unread(c)) = j /\ Unread(c)[1] = c
  BY <1>1, AnswerUnread
<1>3. Recv(c, 1) = SubSeq(Unread(c), 1, 1)
  BY <1>2 DEF Recv
<1> QED
  BY <1>2, <1>3

LEMMA AllRead ==
  ASSUME NEW c \in Client, inbox[c] = <<c>>, pos[c] = HeadSize + BodySize
  PROVE  Unread(c) = <<>>
<1>0. BodySize \in Nat \ {0} /\ HeadSize = 2
  BY ArrangementAssumption DEF HeadSize
<1>1. Unread(c) \in Seq(Unit({c})) /\ Len(Unread(c)) = 0
  <2>1. HeadSize + BodySize \in 0 .. HeadSize + BodySize
        /\ HeadSize + BodySize - (HeadSize + BodySize) = 0
    BY <1>0
  <2> QED
    BY <2>1, AnswerUnread
<1> QED
  BY <1>1

LEMMA RequestSent ==
  ASSUME DInv, NEW c \in Client, NEW f \in Fd, NEW w \in Worker \cup {None},
         peer[f] = c, f \in watched, \A g \in Fd \ {f} : peer[g] # c,
         RequestAt(c, f, "quiet", w), SendRequest(c)
  PROVE  /\ UNCHANGED <<peer, far, watched, crashed, inbox, key, used, pos, left, from, gone>>
         /\ \A g \in Fd \ {f} : stream'[g] = stream[g]
         /\ cpc' = [cpc EXCEPT ![c] = "head"]
         /\ RequestAt(c, f, "ready", w)'
<1>1. FdOf(c) = f
  BY DEF FdOf
<1>2. ClientRequest(c) /\ Arrive(c, <<"header", c>>)
  BY ArrangementAssumption DEF SendRequest, ClientRequest
<1>3. /\ stream' = [stream EXCEPT ![f] = @ \o <<"header", c>>] /\ ready' = ready \cup {f}
      /\ UNCHANGED <<peer, far, watched, reactor, queued, pc, wfd, wreq, crashed, mode, inbox>>
  BY <1>1, <1>2 DEF Arrive, Edge, ClientRequest
<1>4. stream'[f] = <<"header", c>>
  BY <1>3 DEF RequestAt, DInv
<1>5. RequestAt(c, f, "ready", w)'
  BY <1>3, <1>4 DEF RequestAt, At, reactor, OnWorker
<1> QED
  BY <1>3, <1>5 DEF SendRequest, Goes, DInv

LEMMA HasPeer ==
  ASSUME ~crashed, NEW c, NEW f \in Fd, peer[f] = c PROVE ~Lost(c)
BY DEF Lost

LEMMA SendCall ==
  ASSUME NEW c, cpc[c] = "send", ~Lost(c), CallStep(c)
  PROVE  SendRequest(c)
BY DEF CallStep, Connect, NextCall, ConnectRefused, SendRequest, SendLost, SendKilled,
       RecvLength, RecvNoLength, RecvUnit, RecvEnd, MakeKey, DecodeEnds, Lost

LEMMA HeadCall ==
  ASSUME NEW c, cpc[c] = "head", ~Lost(c), CallStep(c)
  PROVE  Unread(c) # <<>> /\ (RecvLength(c) \/ RecvNoLength(c))
BY DEF CallStep, Connect, NextCall, ConnectRefused, SendRequest, SendLost, SendKilled,
       RecvLength, RecvNoLength, RecvUnit, RecvEnd, MakeKey, DecodeEnds, Closed, Lost

LEMMA BodyCall ==
  ASSUME NEW c, cpc[c] = "body", ~Lost(c), CallStep(c)
  PROVE  RecvUnit(c) \/ MakeKey(c) \/ DecodeEnds(c)
BY DEF CallStep, Connect, NextCall, ConnectRefused, SendRequest, SendLost, SendKilled,
       RecvLength, RecvNoLength, RecvUnit, RecvEnd, MakeKey, DecodeEnds, Closed, Lost

(* The process ends when everything is read: its connection is closed.     *)
LEMMA EndsRead ==
  ASSUME NEW p, OneProcess(p), DInv, EndProcess(p), Healthy, NEW f \in Fd, peer[f] = First(p),
         OnlyPeers({f}), stream[f] = <<>>, NEW w \in Worker \cup {None},
         At(f, "quiet", w), Unread(First(p)) = <<>>
  PROVE  Left(p)'
<1>0. First(p) \in Client /\ Of(p) = Client /\ None \notin Client
  BY TheProcess, EpollAssumption
<1>1. EndsOf(p) = {f}
  BY <1>0 DEF EndsOf, Healthy, OnlyPeers
<1>2. /\ gone' = gone \cup {p} /\ key' = [key EXCEPT ![p] = ServerId]
      /\ cpc' = [c \in Client |-> IF c \in Of(p) THEN "gone" ELSE cpc[c]]
      /\ far' = [g \in Fd |-> IF g \notin {f} THEN far[g] ELSE IF Unread(peer[g]) = <<>> THEN "fin" ELSE "rst"]
      /\ ready' = ready \cup {f}
      /\ UNCHANGED <<peer, stream, reactor, queued, pc, wfd, wreq, crashed>>
  BY <1>1 DEF EndProcess, Edge, OnlyPeers
<1>3. ~crashed' /\ AllGone(p)'
  BY <1>0, <1>2 DEF Healthy, AllGone, DInv, OneProcess
<1>4. At(f, "ready", w)'
  BY <1>2 DEF At, reactor, OnWorker
<1>5. peer'[f] # None /\ far'[f] = "fin" /\ stream'[f] = <<>>
  BY <1>0, <1>2
<1>6. EndAt(f, "ready", w)'
  BY <1>4, <1>5 DEF EndAt
<1>7. "ready" \in Closing
  BY DEF Closing
<1> QED
  BY <1>3, <1>6, <1>7 DEF Left

-----------------------------------------------------------------------------
(* Every step of a call goes on in its phase or to the next.               *)
LEMMA FirstCallCall ==
  ASSUME NEW p, OneProcess(p), DInv, FirstCall(p), NEW d \in Client, CallStep(d)
  PROVE  FirstCall(p)' \/ FirstDone(p)' \/ Left(p)'
<1> DEFINE c == First(p)
<1>0. c \in Client /\ (Len(Calls[p]) >= 2 => Second(p) \in Client \ {c})
      /\ Caller(c) = p /\ c # None /\ c # Junk /\ p \in Process
  BY TheProcess, EpollAssumption DEF Junk, OneProcess
<1>1. PICK f \in Fd, l \in Path \cup {"quiet"}, w \in Worker \cup {None} :
        /\ Healthy /\ key[p] = ServerId
        /\ peer[f] = c /\ OnlyPeers({f})
        /\ used[c] = ServerId
        /\ RequestAt(c, f, l, w)
        /\ \/ Asked(c, l)
           \/ l = "quiet" /\ Reading(c)
        /\ \A e \in Client \ {c} : Fresh(e)
  BY DEF FirstCall
<1> HIDE DEF c
<1>2. ~crashed /\ ~Lost(c) /\ cpc[c] \in {"send", "head", "body"}
  BY <1>1, HasPeer DEF Healthy, Asked, Reading
<1>3. d = c
  <2> SUFFICES ASSUME d # c PROVE FALSE
    OBVIOUS
  <2>1. cpc[d] = "idle"
    BY <1>1 DEF Fresh
  <2>2. NextCall(d)
    BY <1>2, <2>1, IdleConnects
  <2> QED
    BY <1>2, <2>2, CallsInOrder DEF c
<1>4. CASE Asked(c, l)
  <2>1. Unread(c) = <<>>
    BY <1>4, NothingUnread DEF Asked
  <2>2. l = "quiet" /\ SendRequest(c)
    BY <1>2, <1>3, <1>4, <2>1, SendCall, HeadCall DEF Asked
  <2>3. /\ UNCHANGED <<peer, far, watched, crashed, inbox, key, used, pos, left, from, gone>>
        /\ \A g \in Fd \ {f} : stream'[g] = stream[g]
        /\ cpc' = [cpc EXCEPT ![c] = "head"]
        /\ RequestAt(c, f, "ready", w)'
    <3>1. f \in watched /\ \A g \in Fd \ {f} : peer[g] # c
      BY <1>0, <1>1 DEF OnlyPeers
    <3> QED
      BY <1>0, <1>1, <2>2, <3>1, RequestSent
  <2>4. Healthy' /\ OnlyPeers({f})' /\ peer'[f] = c
    BY <1>1, <2>3 DEF Healthy, OnlyPeers
  <2>5. Asked(c, "ready")' /\ \A e \in Client \ {c} : Fresh(e)'
    BY <1>0, <1>1, <1>4, <2>3 DEF Asked, Fresh, DInv
  <2>6. "ready" \in Path \cup {"quiet"}
    BY DEF Path
  <2>7. FirstCall(p)'
    BY <1>1, <2>3, <2>4, <2>5, <2>6 DEF FirstCall, c, First
  <2> QED
    BY <2>7
<1>5. CASE l = "quiet" /\ Reading(c)
  <2>0. BodySize \in Nat \ {0} /\ HeadSize = 2 /\ inbox[c] = <<c>>
    BY <1>5, ArrangementAssumption DEF HeadSize, Reading
  <2>1. CASE cpc[c] = "head" /\ pos[c] = 0 /\ from[c] = None
    <3>1. Len(HeadOf(c)) = 2 /\ IsLength(HeadOf(c)) /\ ~IsZero(HeadOf(c))
      BY <1>0, <2>0, <2>1, HeadRead
    <3>2. RecvLength(c)
      BY <1>2, <1>3, <2>1, <3>1, HeadCall DEF RecvNoLength
    <3>3. /\ cpc' = [cpc EXCEPT ![c] = "body"] /\ left' = [left EXCEPT ![c] = BodySize]
          /\ pos' = [pos EXCEPT ![c] = @ + 2]
          /\ UNCHANGED <<vars, key, used, from, gone>>
      BY <3>1, <3>2 DEF RecvLength, Goes
    <3>4. UNCHANGED <<peer, stream, far, ready, watched, ep_fd, batch, adding, queued, pc, wfd, wreq,
                      crashed, inbox>>
      BY <3>3 DEF vars, kernel, reactor
    <3>5. Reading(c)' /\ \A e \in Client \ {c} : Fresh(e)'
      BY <1>0, <1>1, <2>0, <2>1, <3>3, <3>4 DEF Reading, Fresh, DInv
    <3>6. /\ Healthy' /\ OnlyPeers({f})' /\ peer'[f] = c /\ RequestAt(c, f, l, w)'
          /\ key'[p] = ServerId /\ used'[c] = ServerId
      BY <1>1, <3>3, <3>4 DEF Healthy, OnlyPeers, RequestAt, At
    <3>7. FirstCall(p)'
      BY <1>5, <3>5, <3>6 DEF FirstCall, c, First
    <3> QED
      BY <3>7
  <2>2. CASE /\ cpc[c] = "body" /\ left[c] \in 0 .. BodySize
             /\ pos[c] = HeadSize + BodySize - left[c]
             /\ from[c] = IF left[c] = BodySize THEN None ELSE c
    <3>1. CASE RecvUnit(c)
      <4>1. left[c] \in 1 .. BodySize /\ left[c] # Endless
        BY <2>0, <2>2, <3>1 DEF RecvUnit, Endless
      <4>2. Recv(c, 1)[1] = c
        BY <1>0, <2>0, <2>2, <4>1, UnitRead
      <4>3. /\ from' = [from EXCEPT ![c] = c] /\ pos' = [pos EXCEPT ![c] = @ + 1]
            /\ left' = [left EXCEPT ![c] = @ - 1]
            /\ UNCHANGED <<vars, key, cpc, used, gone>>
        BY <1>0, <2>2, <3>1, <4>1, <4>2 DEF RecvUnit, DInv
      <4>4. UNCHANGED <<peer, stream, far, ready, watched, ep_fd, batch, adding, queued, pc, wfd, wreq,
                        crashed, inbox>>
        BY <4>3 DEF vars, kernel, reactor
      <4>5. Reading(c)' /\ \A e \in Client \ {c} : Fresh(e)'
        BY <1>0, <1>1, <2>0, <2>2, <4>1, <4>3, <4>4 DEF Reading, Fresh, DInv
      <4>6. /\ Healthy' /\ OnlyPeers({f})' /\ peer'[f] = c /\ RequestAt(c, f, l, w)'
            /\ key'[p] = ServerId /\ used'[c] = ServerId
        BY <1>1, <4>3, <4>4 DEF Healthy, OnlyPeers, RequestAt, At
      <4>7. FirstCall(p)'
        BY <1>5, <4>5, <4>6 DEF FirstCall, c, First
      <4> QED
        BY <4>7
    <3>2. CASE MakeKey(c)
      <4>1. left[c] = 0 /\ from[c] = c /\ KeysRead(c) = {c} /\ pos[c] = HeadSize + BodySize
        BY <2>0, <2>2, <3>2 DEF MakeKey, KeysRead
      <4>2. /\ key' = [key EXCEPT ![p] = c] /\ cpc' = [cpc EXCEPT ![c] = "done"]
            /\ UNCHANGED <<vars, used, pos, left, from, gone>>
        BY <1>0, <3>2, <4>1 DEF MakeKey, Goes
      <4>3. UNCHANGED <<peer, stream, far, ready, watched, ep_fd, batch, adding, queued, pc, wfd, wreq,
                        crashed, inbox>>
        BY <4>2 DEF vars, kernel, reactor
      <4>4. Got(c)' /\ \A e \in Client \ {c} : Fresh(e)'
        BY <1>0, <1>1, <2>0, <4>1, <4>2, <4>3 DEF Got, Fresh, DInv
      <4>5. Healthy' /\ OnlyPeers({f})' /\ peer'[f] = c /\ RequestAt(c, f, l, w)' /\ key'[p] = c
        BY <1>0, <1>1, <4>2, <4>3 DEF Healthy, OnlyPeers, RequestAt, At, DInv
      <4>6. FirstDone(p)'
        BY <1>5, <4>4, <4>5 DEF FirstDone, c, First
      <4> QED
        BY <4>6
    <3>3. CASE DecodeEnds(c)
      <4>1. left[c] = 0 /\ pos[c] = HeadSize + BodySize
        BY <2>0, <2>2, <3>3 DEF DecodeEnds
      <4>2. Unread(c) = <<>>
        BY <1>0, <2>0, <4>1, AllRead
      <4>3. EndProcess(p)
        BY <1>0, <3>3 DEF DecodeEnds
      <4>4. stream[f] = <<>> /\ At(f, "quiet", w)
        BY <1>1, <1>5 DEF RequestAt
      <4>5. Left(p)'
        BY <1>1, <4>2, <4>3, <4>4, EndsRead DEF c
      <4> QED
        BY <4>5
    <3> QED
      BY <1>2, <1>3, <2>2, <3>1, <3>2, <3>3, BodyCall
  <2> QED
    BY <1>5, <2>1, <2>2 DEF Reading
<1> QED
  BY <1>1, <1>4, <1>5

LEMMA FirstDoneCall ==
  ASSUME NEW p, OneProcess(p), DInv, FirstDone(p), NEW d \in Client, CallStep(d)
  PROVE  SecondCall(p)'
<1> DEFINE c == First(p)
           s == Second(p)
<1>0. c \in Client /\ (Len(Calls[p]) >= 2 => s \in Client \ {c}) /\ c # None
  BY TheProcess, EpollAssumption
<1>1. PICK f \in Fd, w \in Worker \cup {None} :
        /\ Healthy /\ key[p] = c
        /\ peer[f] = c /\ OnlyPeers({f})
        /\ RequestAt(c, f, "quiet", w)
        /\ Got(c)
        /\ \A e \in Client \ {c} : Fresh(e)
  BY DEF FirstDone
<1> HIDE DEF c, s
<1>2. d # c /\ cpc[d] = "idle" /\ ~crashed
  BY <1>1, DoneRests DEF Got, Healthy, Fresh
<1>3. Connect(d) /\ NextCall(d)
  BY <1>2, IdleConnects
<1>4. d = s /\ Len(Calls[p]) >= 2 /\ s \in Client \ {c}
  BY <1>0, <1>1, <1>2, <1>3, CallsInOrder DEF c, s, Fresh
<1>5. PICK g \in Fd : /\ peer[g] = None /\ peer' = [peer EXCEPT ![g] = d]
                       /\ watched' = watched \cup {g}
  BY <1>3, Connects
<1>6. /\ used' = [used EXCEPT ![d] = key[p]]
      /\ cpc' = [cpc EXCEPT ![d] = "send"]
      /\ UNCHANGED <<key, pos, left, from, gone, made>>
      /\ UNCHANGED <<stream, far, ready, reactor, queued, pc, wfd, wreq, crashed, inbox>>
  BY <1>3, Connects
<1>7. g \in Fd \ {f} /\ stream[g] = <<>> /\ stream[f] = <<>>
  BY <1>0, <1>1, <1>5 DEF OnlyPeers, RequestAt
<1>8. Healthy' /\ key'[p] = c /\ used'[d] = c /\ peer'[f] = c /\ peer'[g] = d /\ stream'[f] = <<>>
  BY <1>1, <1>5, <1>6, <1>7 DEF Healthy, DInv
<1>9. RequestAt(d, g, "quiet", w)'
  BY <1>1, <1>6, <1>7 DEF RequestAt, At, reactor, OnWorker
<1>10. OnlyPeers({f, g})'
  BY <1>1, <1>5, <1>6 DEF OnlyPeers, DInv
<1>11. Got(c)' /\ Asked(d, "quiet")' /\ \A e \in Client \ {c, d} : Fresh(e)'
  BY <1>0, <1>1, <1>2, <1>6 DEF Got, Asked, Fresh, DInv
<1>12. "quiet" \in Unanswered
  BY DEF Unanswered
<1> QED
  BY <1>4, <1>7, <1>8, <1>9, <1>10, <1>11, <1>12 DEF SecondCall, c, s, First, Second

LEMMA SecondCallCall ==
  ASSUME NEW p, OneProcess(p), DInv, SecondCall(p), NEW d \in Client, CallStep(d)
  PROVE  SecondCall(p)'
<1> DEFINE c == First(p)
           s == Second(p)
<1>0. c \in Client /\ (Len(Calls[p]) >= 2 => s \in Client \ {c}) /\ c # None
  BY TheProcess, EpollAssumption
<1>1. PICK f \in Fd : \E g \in Fd \ {f}, l \in Unanswered, w \in Worker \cup {None} :
        /\ Healthy /\ key[p] = c /\ Len(Calls[p]) >= 2
        /\ peer[f] = c /\ stream[f] = <<>> /\ peer[g] = s /\ OnlyPeers({f, g})
        /\ used[s] = c
        /\ RequestAt(s, g, l, w)
        /\ Got(c) /\ Asked(s, l)
        /\ \A e \in Client \ {c, s} : Fresh(e)
  BY DEF SecondCall
<1>2. PICK g \in Fd \ {f}, l \in Unanswered, w \in Worker \cup {None} :
        /\ Healthy /\ key[p] = c /\ Len(Calls[p]) >= 2
        /\ peer[f] = c /\ stream[f] = <<>> /\ peer[g] = s /\ OnlyPeers({f, g})
        /\ used[s] = c
        /\ RequestAt(s, g, l, w)
        /\ Got(c) /\ Asked(s, l)
        /\ \A e \in Client \ {c, s} : Fresh(e)
  BY <1>1
<1> HIDE DEF c, s
<1>3. s \in Client \ {c} /\ cpc[s] \in {"send", "head"} /\ cpc[c] = "done" /\ ~crashed
      /\ s # None /\ ~Lost(s)
  BY <1>0, <1>2, HasPeer, EpollAssumption DEF Asked, Got, Healthy
<1>4. d = s
  <2> SUFFICES ASSUME d # s PROVE FALSE
    OBVIOUS
  <2>1. d # c
    BY <1>3, DoneRests
  <2>2. cpc[d] = "idle"
    BY <1>2, <2>1 DEF Fresh
  <2>3. NextCall(d)
    BY <1>3, <2>2, IdleConnects
  <2> QED
    BY <1>3, <2>1, <2>3, CallsInOrder DEF c, s
<1>5. Unread(s) = <<>>
  BY <1>2, NothingUnread DEF Asked
<1>6. l = "quiet" /\ SendRequest(s)
  BY <1>2, <1>3, <1>4, <1>5, SendCall, HeadCall DEF Asked
<1>7. /\ UNCHANGED <<peer, far, watched, crashed, inbox, key, used, pos, left, from, gone>>
      /\ \A h \in Fd \ {g} : stream'[h] = stream[h]
      /\ cpc' = [cpc EXCEPT ![s] = "head"]
      /\ RequestAt(s, g, "ready", w)'
  <2>1. g \in watched /\ \A h \in Fd \ {g} : peer[h] # s
    BY <1>0, <1>2, <1>3 DEF OnlyPeers
  <2> QED
    BY <1>2, <1>3, <1>6, <2>1, RequestSent
<1>8. Healthy' /\ OnlyPeers({f, g})' /\ peer'[f] = c /\ peer'[g] = s /\ stream'[f] = <<>>
  BY <1>2, <1>7 DEF Healthy, OnlyPeers
<1>9. Got(c)' /\ Asked(s, "ready")' /\ \A e \in Client \ {c, s} : Fresh(e)'
  BY <1>0, <1>2, <1>3, <1>7 DEF Got, Asked, Fresh, DInv
<1>10. "ready" \in Unanswered
  BY DEF Path, Unanswered
<1> QED
  BY <1>2, <1>7, <1>8, <1>9, <1>10 DEF SecondCall, c, s, First, Second

-----------------------------------------------------------------------------
(* So does every step of the server.                                       *)
LEMMA StepsLeaveClients ==
  ASSUME Step
  PROVE  UNCHANGED <<key, cpc, used, pos, left, from, gone, hpc>>
BY DEF Step, ServerStep, SecMngArrange, clientVars, callVars, beatVars

LEMMA QuietRests ==
  ASSUME DInv, NEW f, NEW w \in Worker \cup {None}, At(f, "quiet", w), Step PROVE FALSE
<1>1. "quiet" \in Stages /\ "quiet" \notin Taken
  BY DEF Closing, Stages, Taken
<1> QED
  BY <1>1, Moves

LEMMA FirstCallServed ==
  ASSUME NEW p, OneProcess(p), DInv, FirstCall(p), Step
  PROVE  FirstCall(p)'
<1> DEFINE c == First(p)
<1>0. c \in Client
  BY TheProcess
<1>1. PICK f \in Fd, l \in Path \cup {"quiet"}, w \in Worker \cup {None} :
        /\ Healthy /\ key[p] = ServerId
        /\ peer[f] = c /\ OnlyPeers({f})
        /\ used[c] = ServerId
        /\ RequestAt(c, f, l, w)
        /\ \/ Asked(c, l)
           \/ l = "quiet" /\ Reading(c)
        /\ \A e \in Client \ {c} : Fresh(e)
  BY DEF FirstCall
<1> HIDE DEF c
<1>2. /\ UNCHANGED <<peer, far, watched>> /\ \A g \in Fd \ {f} : stream'[g] = stream[g]
      /\ \/ /\ l \notin {"quiet", "decode", "send"} /\ UNCHANGED <<inbox, crashed>>
            /\ \E k \in Path, v \in Worker \cup {None} :
                 RequestAt(c, f, k, v)' /\ (k \in {"answer", "send"} => l = "answer")
         \/ /\ l = "decode" /\ inbox' = inbox /\ crashed' = ~Accepts(c)
            /\ RequestAt(c, f, "answer", w)'
         \/ /\ l = "send" /\ crashed' = crashed
            /\ inbox' = [inbox EXCEPT ![c] = Append(@, c)]
            /\ RequestAt(c, f, "quiet", w)'
  <2>1. ~crashed /\ far[f] = "open"
    BY <1>1 DEF Healthy
  <2> QED
    BY <1>0, <1>1, <2>1, Served
<1>3. UNCHANGED <<key, cpc, used, pos, left, from, gone>>
  BY StepsLeaveClients
<1>4. Accepts(c)
  BY <1>0, <1>1 DEF Accepts
<1>5. Healthy' /\ OnlyPeers({f})' /\ peer'[f] = c
  <2>1. ~crashed'
    BY <1>1, <1>2, <1>4 DEF Healthy
  <2>2. UNCHANGED <<peer, far, watched, gone>> /\ \A g \in Fd \ {f} : stream'[g] = stream[g]
    BY <1>2, <1>3
  <2> QED
    BY <1>1, <2>1, <2>2 DEF Healthy, OnlyPeers
<1>6. l # "quiet" /\ Asked(c, l) /\ "quiet" \notin Path
  BY <1>1, <1>2 DEF Path
<1>7. CASE inbox' = inbox
  <2>1. PICK k \in Path, v \in Worker \cup {None} : RequestAt(c, f, k, v)'
    <3>1. "answer" \in Path
      BY DEF Path
    <3>2. ~(l = "send" /\ inbox' = [inbox EXCEPT ![c] = Append(@, c)])
      BY <1>0, <1>6, <1>7 DEF Asked, DInv
    <3> QED
      BY <1>2, <3>1, <3>2
  <2>2. Asked(c, k)' /\ \A e \in Client \ {c} : Fresh(e)'
    BY <1>1, <1>3, <1>6, <1>7 DEF Asked, Fresh
  <2> QED
    BY <1>1, <1>3, <1>5, <2>1, <2>2 DEF FirstCall, c, First
<1>8. CASE /\ l = "send" /\ inbox' = [inbox EXCEPT ![c] = Append(@, c)]
           /\ RequestAt(c, f, "quiet", w)'
  <2>1. inbox'[c] = <<c>> /\ \A e \in Client \ {c} : inbox'[e] = inbox[e]
    BY <1>0, <1>6, <1>8 DEF Asked, DInv
  <2>2. Reading(c)' /\ \A e \in Client \ {c} : Fresh(e)'
    BY <1>1, <1>3, <1>6, <2>1 DEF Asked, Reading, Fresh
  <2>3. "quiet" \in Path \cup {"quiet"}
    OBVIOUS
  <2> QED
    BY <1>1, <1>3, <1>5, <1>8, <2>2, <2>3 DEF FirstCall, c, First
<1> QED
  BY <1>2, <1>7, <1>8

LEMMA SecondCallServed ==
  ASSUME NEW p, OneProcess(p), DInv, SecondCall(p), Step
  PROVE  SecondCall(p)' \/ Over(p)'
<1> DEFINE c == First(p)
           s == Second(p)
<1>0. c \in Client /\ (Len(Calls[p]) >= 2 => s \in Client \ {c}) /\ c # ServerId /\ c # None
  <2>1. c \in Client /\ (Len(Calls[p]) >= 2 => s \in Client \ {c})
    BY TheProcess
  <2>2. ServerId \notin Client
    BY ArrangementAssumption
  <2>3. None \notin Client
    BY EpollAssumption
  <2> QED
    BY <2>1, <2>2, <2>3
<1>1. PICK f \in Fd : \E g \in Fd \ {f}, l \in Unanswered, w \in Worker \cup {None} :
        /\ Healthy /\ key[p] = c /\ Len(Calls[p]) >= 2
        /\ peer[f] = c /\ stream[f] = <<>> /\ peer[g] = s /\ OnlyPeers({f, g})
        /\ used[s] = c
        /\ RequestAt(s, g, l, w)
        /\ Got(c) /\ Asked(s, l)
        /\ \A e \in Client \ {c, s} : Fresh(e)
  BY DEF SecondCall
<1>2. PICK g \in Fd \ {f}, l \in Unanswered, w \in Worker \cup {None} :
        /\ Healthy /\ key[p] = c /\ Len(Calls[p]) >= 2
        /\ peer[f] = c /\ stream[f] = <<>> /\ peer[g] = s /\ OnlyPeers({f, g})
        /\ used[s] = c
        /\ RequestAt(s, g, l, w)
        /\ Got(c) /\ Asked(s, l)
        /\ \A e \in Client \ {c, s} : Fresh(e)
  BY <1>1
<1> HIDE DEF c, s
<1>3. s \in Client \ {c}
  BY <1>0, <1>2
<1>4. /\ UNCHANGED <<peer, far, watched>> /\ \A h \in Fd \ {g} : stream'[h] = stream[h]
      /\ inbox' = inbox
      /\ \/ /\ l \notin {"quiet", "decode"} /\ UNCHANGED crashed
            /\ \E k \in Path, v \in Worker \cup {None} :
                 RequestAt(s, g, k, v)' /\ k \notin {"answer", "send"}
         \/ l = "decode" /\ crashed' = ~Accepts(s)
  <2>1. ~crashed /\ far[g] = "open"
    BY <1>2 DEF Healthy
  <2>2. s \in Client /\ g \in Fd /\ l \in Path \cup {"quiet"} /\ l \notin {"answer", "send"}
    BY <1>2, <1>3 DEF Unanswered
  <2>3. RequestAt(s, g, l, w) /\ peer[g] = s
    BY <1>2
  <2>4. /\ UNCHANGED <<peer, far, watched>> /\ \A h \in Fd \ {g} : stream'[h] = stream[h]
        /\ \/ /\ l \notin {"quiet", "decode", "send"} /\ UNCHANGED <<inbox, crashed>>
              /\ \E k \in Path, v \in Worker \cup {None} :
                   RequestAt(s, g, k, v)' /\ (k \in {"answer", "send"} => l = "answer")
           \/ /\ l = "decode" /\ inbox' = inbox /\ crashed' = ~Accepts(s)
           \/ l = "send"
    BY <2>1, <2>2, <2>3, Served
  <2> QED
    BY <2>2, <2>4
<1>5. UNCHANGED <<key, cpc, used, pos, left, from, gone>>
  BY StepsLeaveClients
<1>6. l # "quiet" /\ "quiet" \notin Path
  BY <1>4 DEF Path
<1>7. ASSUME NEW k \in Path, NEW v \in Worker \cup {None},
             UNCHANGED crashed, RequestAt(s, g, k, v)', k \notin {"answer", "send"}
      PROVE  SecondCall(p)'
  <2>1. Healthy' /\ OnlyPeers({f, g})' /\ peer'[f] = c /\ peer'[g] = s /\ stream'[f] = <<>>
    BY <1>2, <1>4, <1>5, <1>7 DEF Healthy, OnlyPeers
  <2>2. Got(c)' /\ Asked(s, k)' /\ \A e \in Client \ {c, s} : Fresh(e)'
    BY <1>2, <1>4, <1>5, <1>6 DEF Got, Asked, Fresh
  <2>3. k \in Unanswered
    BY <1>7 DEF Unanswered
  <2> QED
    BY <1>2, <1>5, <1>7, <2>1, <2>2, <2>3 DEF SecondCall, c, s, First, Second
<1>8. CASE l = "decode" /\ crashed' = ~Accepts(s)
  <2>1. crashed'
    BY <1>0, <1>2, <1>8 DEF Accepts
  <2>2. \E e \in Client : used'[e] \notin {None, ServerId}
    BY <1>0, <1>2, <1>3, <1>5
  <2>3. gone' = {} /\ key'[p] = c
    BY <1>2, <1>5 DEF Healthy
  <2>4. \A e \in Client : cpc'[e] # "body"
    BY <1>2, <1>5 DEF Got, Asked, Fresh
  <2>5. \A e \in Client : Unread(e)' = Unread(e)
    BY <1>4, <1>5 DEF Unread
  <2>6. \A e \in Client : Unread(e) = <<>>
    <3> SUFFICES ASSUME NEW e \in Client PROVE Unread(e) = <<>>
      OBVIOUS
    <3>1. CASE e = c
      BY <1>0, <1>2, <3>1, AllRead DEF Got
    <3>2. CASE e # c
      BY <1>2, <3>2, NothingUnread DEF Asked, Fresh
    <3> QED
      BY <3>1, <3>2
  <2> QED
    BY <2>1, <2>2, <2>3, <2>4, <2>5, <2>6 DEF Over, c, First
<1> QED
  BY <1>4, <1>7, <1>8

LEMMA LeftServed ==
  ASSUME NEW p, DInv, Left(p), Step
  PROVE  Left(p)'
<1>1. PICK f \in Fd, l \in Closing, w \in Worker \cup {None} :
        ~crashed /\ AllGone(p) /\ EndAt(f, l, w)
  BY DEF Left
<1>2. ~crashed' /\ \E k \in Closing, v \in Worker \cup {None} : EndAt(f, k, v)'
  BY <1>1, Closes
<1>3. AllGone(p)'
  BY <1>1, StepsLeaveClients DEF AllGone
<1> QED
  BY <1>2, <1>3 DEF Left

LEMMA OverServed ==
  ASSUME crashed, Step PROVE FALSE
BY DEF Step, ServerStep, SecMngArrange, HandleRequest, Wait, Dispatch, AddTask, TakeTask,
       ReadFd, RecvHeader, AnswerBeat, RecvBody, RecvRest, Unwatch, Shut, SendAnswer

-----------------------------------------------------------------------------
(* Nothing but a heartbeat changes what Quiet compares.                    *)
BInv == /\ toSend \in [Client -> [req : Int, beat : Int]]
        /\ \A c \in Client : toSend[c].beat <= Beats[c]

LEMMA InitBInv == ArrangementInit => BInv
<1> SUFFICES ASSUME ArrangementInit PROVE BInv
  OBVIOUS
<1>1. \A c \in Client : Beats[c] \in Nat
  BY EpollAssumption
<1>2. Requests \in Nat
  BY EpollAssumption
<1>3. toSend = [c \in Client |-> [req |-> Requests, beat |-> Beats[c]]]
  BY DEF ArrangementInit, Init
<1> QED
  BY <1>1, <1>2, <1>3 DEF BInv

LEMMA Untouched ==
  ASSUME BInv, toSend' = toSend PROVE BInv' /\ (Quiet' <=> Quiet)
BY DEF BInv, Quiet

LEMMA RequestIsQuiet ==
  ASSUME BInv, NEW c \in Client, SendRequest(c) PROVE BInv' /\ (Quiet' => Quiet)
<1>1. toSend' = [toSend EXCEPT ![c].req = @ - 1]
  BY DEF SendRequest, ClientRequest
<1>2. /\ toSend' \in [Client -> [req : Int, beat : Int]]
      /\ \A d \in Client : toSend'[d].beat = toSend[d].beat
  BY <1>1 DEF BInv
<1> QED
  BY <1>2 DEF BInv, Quiet

LEMMA BeatIsHeard ==
  ASSUME BInv, NEW c \in Client, SendBeat(c) PROVE BInv' /\ ~Quiet'
<1>0. Beats[c] \in Nat /\ toSend[c].beat \in Int /\ toSend[c].beat <= Beats[c]
  BY EpollAssumption DEF BInv
<1>1. toSend' = [toSend EXCEPT ![c].beat = @ - 1]
  BY DEF SendBeat
<1>2. /\ toSend' \in [Client -> [req : Int, beat : Int]]
      /\ \A d \in Client \ {c} : toSend'[d].beat = toSend[d].beat
      /\ toSend'[c].beat = toSend[c].beat - 1
  BY <1>1 DEF BInv
<1>3. toSend'[c].beat <= Beats[c] /\ toSend'[c].beat # Beats[c]
  BY <1>0, <1>2
<1> QED
  BY <1>2, <1>3 DEF BInv, Quiet

LEMMA EndsUntouched == ASSUME NEW p, EndProcess(p) PROVE toSend' = toSend
BY DEF EndProcess

LEMMA CallKeepsB == ASSUME BInv, NEW c \in Client, CallStep(c) PROVE BInv' /\ (Quiet' => Quiet)
<1>1. SendRequest(c) \/ toSend' = toSend
  BY
     DEF CallStep, Connect, Accept, ConnectRefused, EndProcess, SendLost, SendKilled,
         RecvLength,
         RecvNoLength, RecvUnit, RecvEnd, MakeKey, DecodeEnds, vars, clients
<1> QED
  BY <1>1, RequestIsQuiet, Untouched

LEMMA BeatKeepsB ==
  ASSUME BInv, NEW c \in Client, BeatStep(c)
  PROVE  BInv' /\ (Quiet' => Quiet /\ ~SendBeat(c))
<1>1. SendBeat(c) \/ toSend' = toSend
  BY DEF BeatStep, EndProcess, Lock, SendBeatKilled, RecvBeat, RecvBeatFails, RecvBeatEnd,
         vars, clients
<1> QED
  BY <1>1, BeatIsHeard, Untouched

LEMMA StepKeepsB == ASSUME BInv, Step PROVE BInv' /\ (Quiet' => Quiet)
<1>1. toSend' = toSend
  BY DEF Step, ServerStep, SecMngArrange, HandleRequest, Wait, Dispatch, AddTask, TakeTask,
         ReadFd, RecvHeader, AnswerBeat, RecvBody, RecvRest, Unwatch, Shut, SendAnswer, clients
<1> QED
  BY <1>1, Untouched

-----------------------------------------------------------------------------
(* A server that has ended stays away.                                     *)
LEMMA OverEnds ==
  ASSUME NEW p, OneProcess(p), DInv, crashed, gone \subseteq {p},
         \E c \in Client : used[c] \notin {None, ServerId}, EndProcess(p)
  PROVE  Over(p)'
<1>1. /\ gone' = {p} /\ key'[p] = ServerId /\ crashed' = crashed /\ used' = used
      /\ \A c \in Client : cpc'[c] = "gone"
  BY TheProcess DEF EndProcess, DInv, OneProcess
<1> QED
  BY <1>1 DEF Over, AllGone

LEMMA OverCall ==
  ASSUME NEW p, OneProcess(p), DInv, Over(p), NEW d \in Client, CallStep(d)
  PROVE  Over(p)'
<1>0. Caller(d) = p /\ p \in Process
  BY TheProcess DEF OneProcess
<1>1. p \notin gone
  BY TheProcess DEF CallStep, Connect, ConnectRefused, SendRequest, SendLost, SendKilled,
         RecvLength, RecvNoLength, RecvUnit, RecvEnd, MakeKey, DecodeEnds
<1>2. /\ crashed /\ \E c \in Client : used[c] \notin {None, ServerId}
      /\ gone = {} /\ key[p] = First(p)
      /\ \A c \in Client : Unread(c) = <<>> /\ cpc[c] # "body"
  BY <1>1 DEF Over, AllGone
<1>3. CASE EndProcess(p)
  BY <1>2, <1>3, OverEnds
<1>4. ~RecvLength(d) /\ ~RecvNoLength(d) /\ ~RecvUnit(d) /\ ~MakeKey(d) /\ ~DecodeEnds(d) /\ ~Connect(d)
  BY <1>2 DEF RecvLength, RecvNoLength, RecvUnit, MakeKey, DecodeEnds, Connect, Accept
<1>5. CASE SendRequest(d) \/ SendLost(d) \/ RecvEnd(d)
  <2>1. /\ UNCHANGED <<crashed, used, gone, key, inbox, pos>>
        /\ \E t \in {"head", "done"} : cpc' = [cpc EXCEPT ![d] = t]
    BY <1>5 DEF SendRequest, ClientRequest, SendLost, RecvEnd, Goes, vars
  <2>2. \A c \in Client : Unread(c)' = Unread(c)
    BY <2>1 DEF Unread
  <2>3. \A c \in Client : cpc'[c] # "body"
    BY <1>2, <2>1 DEF DInv
  <2> QED
    BY <1>2, <2>1, <2>2, <2>3 DEF Over, First
<1> QED
  BY <1>0, <1>3, <1>4, <1>5 DEF CallStep, ConnectRefused, SendKilled

LEMMA GoneRests ==
  ASSUME NEW p, OneProcess(p), p \in gone, NEW d \in Client
  PROVE  ~CallStep(d) /\ ~BeatStep(d)
BY TheProcess DEF CallStep, Connect, ConnectRefused, SendRequest, SendLost, SendKilled,
         RecvLength, RecvNoLength, RecvUnit, RecvEnd, MakeKey, DecodeEnds, BeatStep, Beating,
         Lock, SendBeat, SendBeatKilled, RecvBeat, RecvBeatFails, NoDescriptor, RecvBeatEnd

-----------------------------------------------------------------------------
(* The phases, step by step.                                               *)
phaseVars == <<peer, stream, far, ready, watched, ep_fd, batch, adding, queued, pc, wfd,
               wreq, crashed, inbox, key, cpc, used, pos, left, from, gone>>

LEMMA PhaseStays == ASSUME NEW p, Phase(p), UNCHANGED phaseVars PROVE Phase(p)'
<1>1. ASSUME Before(p) PROVE Before(p)'
  BY <1>1 DEF phaseVars, Before, Healthy, At, OnlyPeers, Fresh
<1>0. /\ Healthy <=> Healthy'
      /\ \A f : OnlyPeers({f}) <=> OnlyPeers({f})'
      /\ \A f, g : OnlyPeers({f, g}) <=> OnlyPeers({f, g})'
      /\ \A c, l : Asked(c, l) <=> Asked(c, l)'
      /\ \A c : (Got(c) <=> Got(c)') /\ (Reading(c) <=> Reading(c)') /\ (Fresh(c) <=> Fresh(c)')
      /\ key' = key /\ used' = used /\ peer' = peer /\ stream' = stream /\ far' = far
      /\ First(p)' = First(p) /\ Second(p)' = Second(p)
  BY DEF phaseVars, Healthy, OnlyPeers, Asked, Reading, Fresh, Got, First, Second
<1>a. /\ \A f, l, w : At(f, l, w) <=> At(f, l, w)'
      /\ \A c, f, l, w : RequestAt(c, f, l, w) <=> RequestAt(c, f, l, w)'
      /\ \A f, l, w : EndAt(f, l, w) <=> EndAt(f, l, w)'
  <2>1. \A f, l, w : At(f, l, w) <=> At(f, l, w)'
    BY DEF phaseVars, At
  <2>2. stream' = stream /\ wreq' = wreq /\ peer' = peer /\ far' = far
    BY DEF phaseVars
  <2> QED
    BY <2>1, <2>2 DEF RequestAt, EndAt
<1>2. ASSUME FirstCall(p) PROVE FirstCall(p)'
  BY <1>0, <1>a, <1>2 DEF FirstCall
<1>3. ASSUME FirstDone(p) PROVE FirstDone(p)'
  BY <1>0, <1>a, <1>3 DEF FirstDone
<1>4. ASSUME SecondCall(p) PROVE SecondCall(p)'
  BY <1>0, <1>a, <1>4 DEF SecondCall
<1>5. ASSUME Over(p) PROVE Over(p)'
  BY <1>5 DEF phaseVars, Over, AllGone, Unread, First
<1>6. ASSUME Left(p) PROVE Left(p)'
  <2>1. (crashed' <=> crashed) /\ (AllGone(p)' <=> AllGone(p))
    BY DEF phaseVars, AllGone
  <2> QED
    BY <1>0, <1>a, <1>6, <2>1 DEF Left
<1> QED
  BY <1>1, <1>2, <1>3, <1>4, <1>5, <1>6 DEF Phase

LEMMA PhaseCall ==
  ASSUME NEW p, OneProcess(p), DInv, Phase(p), NEW d \in Client, CallStep(d)
  PROVE  Phase(p)'
<1>1. CASE Left(p)
  <2>1. p \in gone
    BY <1>1 DEF Left, AllGone
  <2> QED
    BY <2>1, GoneRests
<1> QED
  BY <1>1, BeforeCall, FirstCallCall, FirstDoneCall, SecondCallCall, OverCall DEF Phase

LEMMA PhaseServed ==
  ASSUME NEW p, OneProcess(p), DInv, Phase(p), Step
  PROVE  Phase(p)'
<1>1. ~Before(p)
  BY QuietRests DEF Before
<1>2. ~FirstDone(p)
  BY QuietRests DEF FirstDone, RequestAt
<1>3. ~Over(p)
  BY OverServed DEF Over
<1> QED
  BY <1>1, <1>2, <1>3, FirstCallServed, SecondCallServed, LeftServed DEF Phase

LEMMA PhaseExit ==
  ASSUME NEW p, OneProcess(p), DInv, Phase(p), Exit(p)
  PROVE  Phase(p)'
<1>0. /\ \A c \in Client : cpc[c] = "done"
      /\ First(p) \in Client /\ (Len(Calls[p]) >= 2 => Second(p) \in Client)
      /\ EndProcess(p) /\ p \notin gone
  BY ExitIsDone, TheProcess DEF Exit
<1>1. ~Before(p)
  BY <1>0 DEF Before, Fresh
<1>2. ~FirstCall(p)
  BY <1>0 DEF FirstCall, Asked, Reading
<1>3. ~SecondCall(p)
  BY <1>0 DEF SecondCall, Asked
<1>4. ~Left(p)
  BY <1>0 DEF Left, AllGone
<1>5. CASE Over(p)
  <2>1. crashed /\ gone \subseteq {p} /\ \E c \in Client : used[c] \notin {None, ServerId}
    BY <1>5 DEF Over, AllGone
  <2>2. Over(p)'
    BY <1>0, <2>1, OverEnds
  <2> QED
    BY <2>2 DEF Phase
<1>6. CASE FirstDone(p)
  <2>1. PICK f \in Fd, w \in Worker \cup {None} :
          /\ Healthy /\ peer[f] = First(p) /\ OnlyPeers({f})
          /\ RequestAt(First(p), f, "quiet", w) /\ Got(First(p))
    BY <1>6 DEF FirstDone
  <2>2. Unread(First(p)) = <<>>
    BY <1>0, <2>1, AllRead DEF Got
  <2>3. stream[f] = <<>> /\ At(f, "quiet", w)
    BY <2>1 DEF RequestAt
  <2>4. Left(p)'
    BY <1>0, <2>1, <2>2, <2>3, EndsRead
  <2> QED
    BY <2>4 DEF Phase
<1> QED
  BY <1>1, <1>2, <1>3, <1>4, <1>5, <1>6 DEF Phase

(* Every call that has begun still has its connection.                     *)
LEMMA NotLost ==
  ASSUME NEW p, OneProcess(p), Phase(p), ~crashed, p \notin gone,
         NEW c \in Client, cpc[c] # "idle"
  PROVE  ~Lost(c)
<1>1. \E f \in Fd : peer[f] = c
  BY DEF Phase, Before, FirstCall, FirstDone, SecondCall, Over, Left, AllGone, Fresh
<1> QED
  BY <1>1, HasPeer

LEMMA PhaseBeat ==
  ASSUME NEW p, OneProcess(p), LInv, DInv, Hush, Phase(p), NEW d \in Client, BeatStep(d), ~SendBeat(d)
  PROVE  Hush' /\ Phase(p)'
<1>1. CASE Lock(d)
  <2>1. Hush'
    BY <1>1 DEF Lock, BeatGoes, Hush, DInv
  <2>2. UNCHANGED phaseVars
    BY <1>1 DEF Lock, phaseVars, vars, kernel, reactor, callVars
  <2> QED
    BY <2>1, <2>2, PhaseStays
<1>2. CASE SendBeatKilled(d)
  <2>0. /\ EndProcess(p) /\ p \notin gone /\ pdata[p] # None /\ Lost(pdata[p])
        /\ pdata[p] \in Client /\ cpc[pdata[p]] # "idle"
    BY <1>2, TheProcess DEF SendBeatKilled, Beating, Reached, LInv, ReachInv, OneProcess
  <2>1. crashed /\ EndProcess(p)
    BY <2>0, NotLost
  <2>2. gone \subseteq {p} /\ \E c \in Client : used[c] \notin {None, ServerId}
    BY <2>1 DEF Phase, Before, FirstCall, FirstDone, SecondCall, Left, Healthy, Over, AllGone
  <2>3. Over(p)'
    BY <2>1, <2>2, OverEnds
  <2>4. Hush'
    BY <2>1, TheProcess DEF EndProcess, Hush
  <2> QED
    BY <2>3, <2>4 DEF Phase
<1> QED
  BY <1>1, <1>2 DEF BeatStep, Hush, RecvBeat, RecvBeatFails, NoDescriptor, RecvBeatEnd, Beating

LEMMA CallHush ==
  ASSUME DInv, Hush, NEW d \in Client, CallStep(d) PROVE Hush'
<1>1. CASE \E q : EndProcess(q)
  BY <1>1 DEF EndProcess, Hush, Of
<1>2. CASE Connect(d)
  BY <1>2 DEF Connect, Hush, DInv
<1>3. CASE hpc' = hpc
  BY <1>3 DEF Hush
<1> QED
  BY <1>1, <1>2, <1>3
     DEF CallStep, ConnectRefused, SendRequest, SendLost, SendKilled, RecvLength,
     RecvNoLength, RecvUnit, RecvEnd, MakeKey, DecodeEnds, beatVars

-----------------------------------------------------------------------------
(* The invariant: whose answers the units are, and in which phase the      *)
(* process is as long as no heartbeat has been sent.                       *)
IInv(p) == LInv /\ KInv /\ BInv /\ QInv(p)

LEMMA InitIInv == ASSUME NEW p, OneProcess(p) PROVE ArrangementInit => IInv(p)
<1> SUFFICES ASSUME ArrangementInit PROVE IInv(p)
  OBVIOUS
<1>1. Hush /\ Before(p)
  BY
     DEF ArrangementInit, Init, Hush, Before, Healthy, At, OnlyPeers, Fresh, OnWorker,
         OneProcess
<1> QED
  BY <1>1, InitLInv, InitKInv, InitBInv DEF IInv, QInv, Phase

LEMMA StepIInv ==
  ASSUME NEW p, OneProcess(p) PROVE IInv(p) /\ [ArrangementNext]_allVars => IInv(p)'
<1> SUFFICES ASSUME IInv(p), [ArrangementNext]_allVars PROVE IInv(p)'
  OBVIOUS
<1>0. LInv' /\ KInv' /\ LInv /\ DInv /\ KInv /\ BInv
  BY StepKeepsL, StepKeepsK DEF IInv, KInv
<1>1. CASE UNCHANGED allVars
  <2>1. UNCHANGED phaseVars /\ UNCHANGED <<toSend, hpc>>
    BY <1>1
       DEF allVars, vars, kernel, reactor, clients, clientVars, callVars, beatVars,
           phaseVars
  <2>2. BInv' /\ (Quiet' <=> Quiet)
    BY <1>0, <2>1, Untouched
  <2>3. Hush => Hush'
    BY <2>1 DEF Hush
  <2> QED
    BY <1>0, <2>1, <2>2, <2>3, PhaseStays DEF IInv, QInv
<1>2. ASSUME NEW c \in Client, CallStep(c) PROVE IInv(p)'
  BY <1>0, <1>2, CallKeepsB, CallHush, PhaseCall DEF IInv, QInv
<1>3. ASSUME NEW c \in Client, BeatStep(c) PROVE IInv(p)'
  BY <1>0, <1>3, BeatKeepsB, PhaseBeat DEF IInv, QInv
<1>4. CASE Step
  <2>1. hpc' = hpc
    BY <1>4, StepsLeaveClients
  <2>2. Hush => Hush'
    BY <2>1 DEF Hush
  <2> QED
    BY <1>0, <1>4, <2>2, StepKeepsB, PhaseServed DEF IInv, QInv
<1>5. ASSUME NEW q \in Process, Exit(q) PROVE IInv(p)'
  <2>1. q = p /\ EndProcess(p) /\ Exit(p)
    BY <1>5 DEF OneProcess, Exit
  <2>2. toSend' = toSend /\ Hush'
    BY <2>1, TheProcess DEF EndProcess, Hush
  <2> QED
    BY <1>0, <2>1, <2>2, Untouched, PhaseExit DEF IInv, QInv
<1> QED
  BY <1>1, <1>2, <1>3, <1>4, <1>5 DEF ArrangementNext, ProgramStep, Step

LEMMA IInvShows ==
  ASSUME NEW p, OneProcess(p), IInv(p)
  PROVE  QuietCallGetsKey /\ KeyIsServers /\ EndsForAReason
<1>0. /\ First(p) \in Client /\ (Len(Calls[p]) >= 2 => Second(p) \in Client \ {First(p)})
      /\ \A q \in Process : q = p
      /\ p \in Process /\ Junk \notin Client /\ ServerId # Junk
  BY TheProcess, EpollAssumption, ArrangementAssumption DEF OneProcess, Junk
<1>1. QuietCallGetsKey
  <2> SUFFICES ASSUME Quiet, ~crashed, cpc[First(p)] = "done" PROVE key[p] = First(p)
    BY <1>0 DEF QuietCallGetsKey
  <2>1. Phase(p)
    BY DEF IInv, QInv
  <2>2. ~Before(p)
    BY <1>0 DEF Before, Fresh
  <2>3. ~FirstCall(p)
    BY DEF FirstCall, Asked, Reading
  <2>4. ~Over(p)
    BY DEF Over
  <2>5. ~Left(p)
    BY <1>0 DEF Left, AllGone
  <2> QED
    BY <2>1, <2>2, <2>3, <2>4, <2>5 DEF Phase, FirstDone, SecondCall
<1>2. KeyIsServers
  <2>1. key[p] \in Client => key[p] \in made
    <3>1. key[p] \in made \cup {Junk, ServerId}
      BY <1>0 DEF IInv, KInv, MInv
    <3>2. Junk \notin Client /\ ServerId \notin Client
      BY <1>0, ArrangementAssumption
    <3> QED
      BY <3>1, <3>2
  <2>2. Quiet => key[p] # Junk
    BY <1>0 DEF IInv, QInv, Phase, Before, FirstCall, FirstDone, SecondCall, Over, Left, AllGone
  <2> QED
    BY <1>0, <2>1, <2>2 DEF KeyIsServers
<1>3. EndsForAReason
  BY
     DEF IInv, QInv, Phase, Before, FirstCall, FirstDone, SecondCall, Over, Left, Healthy,
         EndsForAReason
<1> QED
  BY <1>1, <1>2, <1>3

LEMMA Arranged ==
  ASSUME NEW CONSTANT p, OneProcess(p)
  PROVE  ArrangementSpec => [](QuietCallGetsKey /\ KeyIsServers /\ EndsForAReason)
<1>1. ArrangementInit => IInv(p)
  BY InitIInv
<1>2. IInv(p) /\ [ArrangementNext]_allVars => IInv(p)'
  BY StepIInv
<1>3. IInv(p) => QuietCallGetsKey /\ KeyIsServers /\ EndsForAReason
  BY IInvShows
<1> QED
  BY <1>1, <1>2, <1>3, PTL DEF ArrangementSpec

(* QuietCallGetsKey: without heartbeats the first call returns with the key*)
(* the server made for it, or the process or the server has ended.         *)
THEOREM QuietCallIsAnswered ==
  ASSUME NEW CONSTANT p, OneProcess(p) PROVE ArrangementSpec => []QuietCallGetsKey
BY Arranged, PTL

(* KeyIsServers: without heartbeats nothing but an answer is decoded.      *)
THEOREM OnlyHeartbeatsSpoilKeys ==
  ASSUME NEW CONSTANT p, OneProcess(p) PROVE ArrangementSpec => []KeyIsServers
BY Arranged, PTL

(* EndsForAReason: neither the end of a process, read to the end as its    *)
(* connection is, nor its first call ends the server.                      *)
THEOREM ServerEndsForAReason ==
  ASSUME NEW CONSTANT p, OneProcess(p) PROVE ArrangementSpec => []EndsForAReason
BY Arranged, PTL
=============================================================================
