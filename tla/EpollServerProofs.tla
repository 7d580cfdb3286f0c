------------------------- MODULE EpollServerProofs -------------------------
(***************************************************************************)
(* The type invariant of EpollServer, for any number of clients, threads,  *)
(* descriptors and queued tasks: whatever tasks read the one field fd, a   *)
(* worker's descriptor is one that an event was reported for, no client has*)
(* two of them, and what is sent is the answer to a request.               *)
(***************************************************************************)
EXTENDS EpollServer, FiniteSetTheorems, TLAPS

(* A task exists only after an event, so that the object has a descriptor; *)
(* an answer exists only for what could be decoded.                        *)
Holding == {"header", "beat", "body", "rest", "send", "del", "shut"}
EInv ==
  /\ TypeOK
  /\ DOMAIN inbox = Client
  /\ adding \/ queued > 0 => ep_fd \in Fd
  /\ \A w \in Worker :
       /\ pc[w] # "idle" => ep_fd \in Fd
       /\ pc[w] \in Holding => wfd[w] \in Fd
       /\ pc[w] \in {"answer", "send"} => crashed \/ wreq[w] \in Client
  /\ \A c \in Client : mode[c] = "new" => \A f \in Fd : peer[f] # c

Token == {"header", Empty} \cup Client

LEMMA InitEInv == Init => EInv
<1> SUFFICES ASSUME Init PROVE EInv
  OBVIOUS
<1>1. /\ peer \in [Fd -> Client \cup {None}]
      /\ \A f, g \in Fd : peer[f] = peer[g] /\ peer[f] # None => f = g
      /\ \A c \in Client, f \in Fd : peer[f] # c
  BY EpollAssumption DEF Init
<1>2. stream \in [Fd -> Seq({"header", Empty} \cup Client)]
  BY DEF Init
<1>3. queued \in 0 .. QueueMax /\ ~(queued > 0)
  BY EpollAssumption DEF Init
<1>4. /\ pc \in [Worker -> {"idle", "enter", "header", "beat", "body", "rest", "decode",
                          "answer", "send", "del", "shut"}]
      /\ \A w \in Worker : pc[w] = "idle"
  BY DEF Init
<1>5. DOMAIN inbox = Client /\ \A c \in Client : inbox[c] \in Seq(Client \cup {Empty})
  BY DEF Init
<1> QED
  BY <1>1, <1>2, <1>3, <1>4, <1>5 DEF Init, EInv, TypeOK, Holding

(* An arrival is on a client's own descriptor.                             *)
LEMMA ArriveKeeps ==
  ASSUME EInv, NEW c \in Client, Connected(c), NEW s \in Seq(Token), Arrive(c, s),
         UNCHANGED <<reactor, queued, pc, wfd, wreq, crashed, mode, inbox>>
  PROVE  EInv'
<1>1. FdOf(c) \in Fd
  BY DEF Connected, FdOf
<1>2. /\ stream' \in [Fd -> Seq(Token)]
      /\ ready' \subseteq watched' /\ watched' \subseteq {f \in Fd : peer'[f] # None}
  BY <1>1 DEF Arrive, Edge, EInv, TypeOK, Token
<1> QED
  BY <1>2 DEF Arrive, EInv, TypeOK, reactor, Token

LEMMA ClientKeeps == ASSUME EInv, NEW c \in Client, ClientStep(c) PROVE EInv'
<1>1. <<"header", c>> \in Seq(Token) /\ <<"header">> \in Seq(Token)
      /\ <<c>> \in Seq(Token) /\ <<Empty>> \in Seq(Token)
  BY DEF Token
<1>2. CASE ClientRequest(c) \/ ClientBody(c) \/ ClientBeat(c)
  BY <1>1, <1>2, ArriveKeeps DEF ClientRequest, ClientBody, ClientBeat
<1>3. CASE ClientLeave(c)
  <2>1. PICK how \in {"fin", "rst"} : Disconnect(c, how)
    BY <1>3 DEF ClientLeave
  <2>2. FdOf(c) \in Fd
    BY <2>1 DEF Disconnect, Connected, FdOf
  <2> QED
    BY <2>1, <2>2 DEF Disconnect, Edge, EInv, TypeOK, reactor
<1> QED
  BY <1>2, <1>3 DEF ClientStep

LEMMA ReactorKeeps == ASSUME EInv, ReactorStep PROVE EInv'
<1>1. CASE Wait
  BY <1>1 DEF Wait, StillReady, EInv, TypeOK, clients
<1>2. CASE Dispatch
  BY <1>2 DEF Dispatch, EInv, TypeOK, kernel, clients
<1>3. CASE AddTask
  <2>1. queued' \in 0 .. QueueMax
    BY <1>3, EpollAssumption DEF AddTask, RoomInQueue, QueuedAfterAdd, EInv, TypeOK
  <2> QED
    BY <1>3, <2>1 DEF AddTask, EInv, TypeOK, kernel, clients
<1>4. ASSUME NEW c \in Client, Accept(c) PROVE EInv'
  <2>1. PICK f \in Fd : /\ peer[f] = None /\ peer' = [peer EXCEPT ![f] = c]
                        /\ watched' = watched \cup {f}
    BY <1>4 DEF Accept
  <2>2. c # None
    BY EpollAssumption
  <2>3. peer' \in [Fd -> Client \cup {None}]
    BY <2>1 DEF EInv, TypeOK
  <2>4. \A g \in Fd : peer[g] # c
    BY <1>4 DEF Accept, EInv
  <2>5. \A g, h \in Fd : peer'[g] = peer'[h] /\ peer'[g] # None => g = h
    BY <2>1, <2>4 DEF EInv, TypeOK
  <2>6. \A d \in Client : mode'[d] = "new" => \A g \in Fd : peer'[g] # d
    BY <1>4, <2>1 DEF Accept, EInv, TypeOK
  <2>8. ready' \subseteq watched' /\ watched' \subseteq {g \in Fd : peer'[g] # None}
    BY <1>4, <2>1, <2>2 DEF Accept, EInv, TypeOK
  <2>7. mode' \in [Client -> {"new", "open", "left"}]
    BY <1>4 DEF Accept, EInv, TypeOK
  <2> QED
    BY <1>4, <2>3, <2>5, <2>6, <2>7, <2>8 DEF Accept, EInv, TypeOK, reactor
<1> QED
  BY <1>1, <1>2, <1>3, <1>4 DEF ReactorStep

-----------------------------------------------------------------------------
(* What recvdata and senddata do to the kernel.                            *)
KernelOK ==
  /\ peer \in [Fd -> Client \cup {None}]
  /\ \A f, g \in Fd : peer[f] = peer[g] /\ peer[f] # None => f = g
  /\ stream \in [Fd -> Seq(Token)]
  /\ far \in [Fd -> {"open", "fin", "rst"}]
  /\ ready \subseteq watched /\ watched \subseteq {f \in Fd : peer[f] # None}
  /\ \A c \in Client : mode[c] = "new" => \A f \in Fd : peer[f] # c

LEMMA CloseKeeps ==
  ASSUME KernelOK, NEW f \in Fd, Close(f), mode' = mode PROVE KernelOK'
BY EpollAssumption DEF KernelOK, Close, Delete

LEMMA DeleteKeeps ==
  ASSUME KernelOK, NEW f \in Fd, Delete(f), UNCHANGED <<peer, stream, far, mode>>
  PROVE  KernelOK'
BY DEF KernelOK, Delete

LEMMA ConsumeKeeps ==
  ASSUME KernelOK, NEW f \in Fd, HasData(f), Consume(f), mode' = mode
  PROVE  KernelOK' /\ Head(stream[f]) \in Token
BY DEF KernelOK, Consume, HasData

LEMMA SendKeeps ==
  ASSUME KernelOK, DOMAIN inbox = Client, crashed \in BOOLEAN,
         \A c \in Client : inbox[c] \in Seq(Client \cup {Empty}),
         NEW f \in Fd, NEW m \in Client \cup {Empty}, Sends(f, m) \/ SendFails(f), mode' = mode
  PROVE  /\ KernelOK' /\ crashed' \in BOOLEAN /\ (crashed => crashed')
         /\ DOMAIN inbox' = Client
         /\ \A c \in Client : inbox'[c] \in Seq(Client \cup {Empty})
<1>1. CASE SendFails(f)
  BY <1>1 DEF SendFails, KernelOK, kernel
<1>2. CASE SendDelivers(f, m)
  BY <1>2 DEF SendDelivers, KernelOK, kernel
<1>3. CASE SendIsReset(f)
  BY <1>3 DEF SendIsReset, Edge, KernelOK
<1>4. CASE SendKills(f)
  BY <1>4 DEF SendKills, KernelOK, kernel
<1> QED
  BY <1>1, <1>2, <1>3, <1>4 DEF Sends

(* What a worker with a descriptor goes on to: it keeps the descriptor or  *)
(* returns.                                                                *)
LEMMA GoesOn ==
  ASSUME EInv, NEW w \in Worker, pc[w] \in Holding, KernelOK', UNCHANGED <<reactor, queued, clients>>,
         crashed' \in BOOLEAN, ~crashed, DOMAIN inbox' = Client,
         \A c \in Client : inbox'[c] \in Seq(Client \cup {Empty}),
         \/ Return(w)
         \/ \E l \in (Holding \cup {"decode"}) \ {"send"} :
              /\ Goto(w, l) /\ wfd' = wfd
              /\ \E m \in Client \cup {None, Junk, Empty, "header"} : wreq' = [wreq EXCEPT ![w] = m]
  PROVE  EInv'
<1>1. /\ pc' \in [Worker -> {"idle", "enter", "header", "beat", "body", "rest", "decode",
                            "answer", "send", "del", "shut"}]
      /\ wfd' \in [Worker -> Fd \cup {None}]
      /\ wreq' \in [Worker -> Client \cup {None, Junk, Empty, "header"}]
  <2>1. CASE Return(w)
    BY <2>1 DEF Return, Goto, EInv, TypeOK
  <2>2. ASSUME NEW l \in (Holding \cup {"decode"}) \ {"send"}, Goto(w, l), wfd' = wfd,
               NEW m \in Client \cup {None, Junk, Empty, "header"}, wreq' = [wreq EXCEPT ![w] = m]
        PROVE  /\ pc' \in [Worker -> {"idle", "enter", "header", "beat", "body", "rest", "decode",
                                     "answer", "send", "del", "shut"}]
               /\ wfd' \in [Worker -> Fd \cup {None}]
               /\ wreq' \in [Worker -> Client \cup {None, Junk, Empty, "header"}]
    BY <2>2 DEF Holding, Goto, EInv, TypeOK
  <2> QED
    BY <2>1, <2>2
<1>2. /\ \A v \in Worker \ {w} : pc'[v] = pc[v] /\ wfd'[v] = wfd[v] /\ wreq'[v] = wreq[v]
      /\ \/ pc'[w] = "idle"
         \/ pc'[w] \in (Holding \cup {"decode"}) \ {"send"} /\ wfd'[w] = wfd[w]
  BY DEF Return, Goto, EInv, TypeOK
<1>3. ep_fd \in Fd /\ wfd[w] \in Fd
  BY DEF EInv, Holding
<1>4. \A v \in Worker :
        /\ pc'[v] # "idle" => ep_fd \in Fd
        /\ pc'[v] \in Holding => wfd'[v] \in Fd
        /\ pc'[v] \in {"answer", "send"} => crashed' \/ wreq'[v] \in Client
  <2> SUFFICES ASSUME NEW v \in Worker
               PROVE  /\ pc'[v] # "idle" => ep_fd \in Fd
                      /\ pc'[v] \in Holding => wfd'[v] \in Fd
                      /\ pc'[v] \in {"answer", "send"} => crashed' \/ wreq'[v] \in Client
    OBVIOUS
  <2>1. CASE v = w
    BY <1>2, <1>3, <2>1 DEF Holding
  <2>2. CASE v # w
    BY <1>2, <2>2 DEF EInv
  <2> QED
    BY <2>1, <2>2
<1> QED
  BY <1>1, <1>4 DEF EInv, TypeOK, KernelOK, Token, reactor, clients

LEMMA WorkerKeeps == ASSUME EInv, NEW w \in Worker, WorkerStep(w) PROVE EInv'
<1>0. KernelOK
  BY DEF EInv, TypeOK, KernelOK, Token
<1>1. CASE TakeTask(w)
  BY <1>1, EpollAssumption
     DEF TakeTask, Goto, EInv, TypeOK, Holding, kernel, reactor, clients
<1>2. CASE ReadFd(w)
  BY <1>2 DEF ReadFd, Goto, EInv, TypeOK, Holding, kernel, reactor, clients
<1>3. CASE Decode(w)
  BY <1>3 DEF Decode, HandleRequest, Goto, EInv, TypeOK, Holding, kernel, reactor, clients
<1>4. ASSUME pc[w] \in Holding, ~crashed, UNCHANGED <<reactor, queued, crashed, clients, inbox>>
      PROVE  /\ wfd[w] \in Fd /\ mode' = mode /\ crashed' \in BOOLEAN /\ DOMAIN inbox' = Client
             /\ \A c \in Client : inbox'[c] \in Seq(Client \cup {Empty})
             /\ UNCHANGED <<wfd, wreq>> =>
                  wfd' = wfd /\ \E m \in Client \cup {None, Junk, Empty, "header"} :
                                  wreq' = [wreq EXCEPT ![w] = m]
  <2>1. wreq[w] \in Client \cup {None, Junk, Empty, "header"} /\ wreq = [wreq EXCEPT ![w] = wreq[w]]
    BY DEF EInv, TypeOK
  <2> QED
    BY <1>4, <2>1 DEF EInv, TypeOK, clients
<1>5. CASE RecvHeader(w) \/ RecvRest(w)
  <2>1. /\ pc[w] \in Holding /\ ~crashed /\ UNCHANGED <<reactor, queued, crashed, clients, inbox>>
        /\ UNCHANGED <<wfd, wreq>>
    BY <1>5 DEF RecvHeader, RecvRest, Holding
  <2>2. UNCHANGED kernel \/ (HasData(wfd[w]) /\ Consume(wfd[w]))
    BY <1>5 DEF RecvHeader, RecvRest
  <2>3. KernelOK'
    BY <1>0, <1>4, <2>1, <2>2, ConsumeKeeps DEF KernelOK, kernel
  <2>4. \E l \in (Holding \cup {"decode"}) \ {"send"} : Goto(w, l)
    <3>1. "rest" \in (Holding \cup {"decode"}) \ {"send"}
      BY DEF Holding
    <3>2. pc = [pc EXCEPT ![w] = pc[w]]
      BY DEF EInv, TypeOK
    <3>3. {"beat", "body", "del", "decode"} \subseteq (Holding \cup {"decode"}) \ {"send"}
      BY DEF Holding
    <3>4. CASE RecvHeader(w)
      <4>1. Goto(w, "beat") \/ Goto(w, "del") \/ Goto(w, "body")
        BY <3>4 DEF RecvHeader
      <4> QED
        BY <3>3, <4>1
    <3>5. CASE RecvRest(w)
      <4>1. Goto(w, "rest") \/ Goto(w, "del") \/ Goto(w, "decode")
        BY <3>2, <3>5 DEF RecvRest, Goto
      <4> QED
        BY <3>1, <3>3, <4>1
    <3> QED
      BY <1>5, <3>4, <3>5
  <2> QED
    BY <1>4, <2>1, <2>3, <2>4, GoesOn
<1>6. CASE RecvBody(w)
  <2>1. /\ pc[w] \in Holding /\ ~crashed /\ UNCHANGED <<reactor, queued, crashed, clients, inbox>>
        /\ wfd' = wfd /\ wreq' = [wreq EXCEPT ![w] = BodyRead(wfd[w])]
    BY <1>6 DEF RecvBody, Holding
  <2>2. UNCHANGED kernel \/ (HasData(wfd[w]) /\ Consume(wfd[w]))
    BY <1>6 DEF RecvBody
  <2>3. KernelOK'
    BY <1>0, <1>4, <2>1, <2>2, ConsumeKeeps DEF KernelOK, kernel
  <2>4. BodyRead(wfd[w]) \in Client \cup {None, Junk, Empty, "header"}
    BY <1>0, <1>4, <2>1 DEF BodyRead, HasData, KernelOK, Token
  <2>5. \E l \in (Holding \cup {"decode"}) \ {"send"} : Goto(w, l)
    <3>1. {"decode", "del", "rest"} \subseteq (Holding \cup {"decode"}) \ {"send"}
      BY DEF Holding
    <3>2. Goto(w, "decode") \/ Goto(w, "del") \/ Goto(w, "rest")
      BY <1>6 DEF RecvBody
    <3> QED
      BY <3>1, <3>2
  <2> QED
    BY <1>4, <2>1, <2>3, <2>4, <2>5, GoesOn
<1>7. CASE Unwatch(w)
  <2>1. /\ pc[w] \in Holding /\ ~crashed /\ UNCHANGED <<reactor, queued, crashed, clients, inbox>>
        /\ UNCHANGED <<wfd, wreq>> /\ Goto(w, "shut")
    BY <1>7 DEF Unwatch, Holding
  <2>2. KernelOK'
    BY <1>0, <1>4, <1>7, <2>1, DeleteKeeps DEF Unwatch
  <2>3. "shut" \in (Holding \cup {"decode"}) \ {"send"}
    BY DEF Holding
  <2> QED
    BY <1>4, <2>1, <2>2, <2>3, GoesOn
<1>8. CASE Shut(w)
  <2>1. /\ pc[w] \in Holding /\ ~crashed /\ UNCHANGED <<reactor, queued, crashed, clients, inbox>>
        /\ Return(w) \/ (Goto(w, "rest") /\ UNCHANGED <<wfd, wreq>>)
    BY <1>8 DEF Shut, Holding
  <2>2. KernelOK'
    BY <1>0, <1>4, <1>8, <2>1, CloseKeeps DEF Shut
  <2>3. "rest" \in (Holding \cup {"decode"}) \ {"send"}
    BY DEF Holding
  <2> QED
    BY <1>4, <2>1, <2>2, <2>3, GoesOn
<1>9. CASE AnswerBeat(w) \/ SendAnswer(w)
  <2>1. /\ pc[w] \in Holding /\ ~crashed /\ wfd[w] \in Fd /\ mode' = mode
        /\ UNCHANGED <<reactor, queued, clients>>
    BY <1>9 DEF AnswerBeat, SendAnswer, EInv, Holding, clients
  <2>2. PICK m \in Client \cup {Empty} : Send(w, m)
    BY <1>9 DEF AnswerBeat, SendAnswer, EInv
  <2>3. /\ KernelOK' /\ crashed' \in BOOLEAN
        /\ DOMAIN inbox' = Client
        /\ \A c \in Client : inbox'[c] \in Seq(Client \cup {Empty})
    BY <1>0, <2>1, <2>2, SendKeeps DEF Send, EInv, TypeOK
  <2>4. Return(w) \/ (Goto(w, "del") /\ UNCHANGED <<wfd, wreq>>)
    BY <2>2 DEF Send
  <2>5. "del" \in (Holding \cup {"decode"}) \ {"send"}
    BY DEF Holding
  <2>6. wreq[w] \in Client \cup {None, Junk, Empty, "header"} /\ wreq = [wreq EXCEPT ![w] = wreq[w]]
    BY DEF EInv, TypeOK
  <2> QED
    BY <2>1, <2>3, <2>4, <2>5, <2>6, GoesOn
<1> QED
  BY <1>1, <1>2, <1>3, <1>5, <1>6, <1>7, <1>8, <1>9 DEF WorkerStep

(* TypeOK: the kernel, the reactor, the workers and the clients keep their *)
(* types, and a descriptor is a client's only one.                         *)
THEOREM EpollTypeCorrect == Spec => []TypeOK
<1>1. EInv /\ [Next]_vars => EInv'
  <2>1. EInv /\ UNCHANGED vars => EInv'
    BY DEF EInv, TypeOK, vars, kernel, reactor, clients
  <2> QED
    BY <2>1, ClientKeeps, ReactorKeeps, WorkerKeeps DEF Next
<1>2. EInv => TypeOK
  BY DEF EInv
<1> QED
  BY <1>1, <1>2, InitEInv, PTL DEF Spec

-----------------------------------------------------------------------------
(* At most one answer for a request.  A request that has been sent is in   *)
(* at most one place: its body is still to come, or it is a token of some  *)
(* stream, or a worker holds it, or it has been answered, to whomever.     *)
(* However many workers read one descriptor, each token is read once.      *)
WithWorkers(c) == {w \in Worker : wreq[w] = c}
StillToCome(c) == IF body[c] THEN 1 ELSE 0
Sent(c) == Requests - toSend[c].req

OnePlace(c) ==
  /\ IsFiniteSet(Places(stream, c)) /\ IsFiniteSet(WithWorkers(c))
  /\ IsFiniteSet(Places(inbox, c))
  /\ Cardinality(Places(stream, c)) + Cardinality(WithWorkers(c))
       + Cardinality(Places(inbox, c)) + StillToCome(c) <= Sent(c)

AInv ==
  /\ toSend \in [Client -> [req : Nat, beat : Nat]]
  /\ body \in [Client -> BOOLEAN]
  /\ \A c \in Client : OnePlace(c)

(* Counting: what a set that loses or gains a member counts.               *)
LEMMA AtMostOneMore ==
  ASSUME NEW S, NEW T, NEW x, IsFiniteSet(S), T \subseteq S \cup {x}
  PROVE  /\ IsFiniteSet(T) /\ Cardinality(S) \in Nat /\ Cardinality(T) \in Nat
         /\ Cardinality(T) <= Cardinality(S) + 1
<1>1. /\ IsFiniteSet(S \cup {x})
      /\ Cardinality(S \cup {x}) \in {Cardinality(S), Cardinality(S) + 1}
  BY FS_AddElement
<1>2. IsFiniteSet(T) /\ Cardinality(T) <= Cardinality(S \cup {x})
  BY <1>1, FS_Subset
<1> QED
  BY <1>1, <1>2, FS_CardinalityType

LEMMA NoMore ==
  ASSUME NEW S, NEW T, IsFiniteSet(S), T \subseteq S
  PROVE  /\ IsFiniteSet(T) /\ Cardinality(S) \in Nat /\ Cardinality(T) \in Nat
         /\ Cardinality(T) <= Cardinality(S)
BY FS_Subset, FS_CardinalityType

LEMMA AtLeastOneLess ==
  ASSUME NEW S, NEW T, NEW x \in S, IsFiniteSet(S), T \subseteq S \ {x}
  PROVE  /\ IsFiniteSet(T) /\ Cardinality(S) \in Nat /\ Cardinality(T) \in Nat
         /\ Cardinality(T) <= Cardinality(S) - 1
<1>1. IsFiniteSet(S \ {x}) /\ Cardinality(S \ {x}) = Cardinality(S) - 1
  BY FS_RemoveElement
<1> QED
  BY <1>1, FS_Subset, FS_CardinalityType

LEMMA PlacesMember ==
  ASSUME NEW seqs, NEW v
  PROVE  \A x : x \in Places(seqs, v) <=>
           \E d \in DOMAIN seqs : \E i \in DOMAIN seqs[d] : seqs[d][i] = v /\ x = <<d, i>>
<1>1. ASSUME NEW x, x \in Places(seqs, v)
      PROVE  \E d \in DOMAIN seqs : \E i \in DOMAIN seqs[d] : seqs[d][i] = v /\ x = <<d, i>>
  <2>1. PICK d \in DOMAIN seqs : x \in {d} \X {i \in DOMAIN seqs[d] : seqs[d][i] = v}
    BY <1>1 DEF Places
  <2> QED
    BY <2>1
<1>2. ASSUME NEW d \in DOMAIN seqs, NEW i \in DOMAIN seqs[d], seqs[d][i] = v
      PROVE  <<d, i>> \in Places(seqs, v)
  <2>1. <<d, i>> \in {d} \X {j \in DOMAIN seqs[d] : seqs[d][j] = v}
    BY <1>2
  <2> QED
    BY <2>1 DEF Places
<1> QED
  BY <1>1, <1>2

(* A read takes the head of one stream: the token is there no more.        *)
LEMMA ConsumeTakes ==
  ASSUME KernelOK, NEW f \in Fd, HasData(f), Consume(f), NEW c, IsFiniteSet(Places(stream, c))
  PROVE  /\ IsFiniteSet(Places(stream', c)) /\ Cardinality(Places(stream', c)) \in Nat
         /\ Cardinality(Places(stream, c)) \in Nat
         /\ Cardinality(Places(stream', c))
              <= Cardinality(Places(stream, c)) - (IF Head(stream[f]) = c THEN 1 ELSE 0)
<1> DEFINE Left == Places(stream, c) \ {<<f, 1>>}
           Shift == [x \in Places(stream', c) |-> IF x[1] = f THEN <<f, x[2] + 1>> ELSE x]
<1>1. /\ stream[f] \in Seq(Token) /\ stream[f] # <<>>
      /\ stream'[f] = Tail(stream[f])
      /\ \A g \in Fd \ {f} : stream'[g] = stream[g]
  BY DEF KernelOK, Consume, HasData
<1>2. \A i \in DOMAIN stream'[f] :
        i \in Nat \ {0} /\ i + 1 \in DOMAIN stream[f] /\ stream'[f][i] = stream[f][i + 1]
  BY <1>1
<1>3. DOMAIN stream = Fd /\ DOMAIN stream' = Fd
  BY DEF KernelOK, Consume
<1>4. Shift \in Injection(Places(stream', c), Left)
  <2>1. ASSUME NEW x \in Places(stream', c) PROVE Shift[x] \in Left
    <3>a. PICK g \in Fd : \E i \in DOMAIN stream'[g] : stream'[g][i] = c /\ x = <<g, i>>
      BY <1>3, PlacesMember
    <3>1. PICK i \in DOMAIN stream'[g] : stream'[g][i] = c /\ x = <<g, i>>
      BY <3>a
    <3>2. CASE g = f
      BY <1>2, <1>3, <3>1, <3>2, PlacesMember
    <3>3. CASE g # f
      BY <1>1, <1>3, <3>1, <3>3, PlacesMember
    <3> QED
      BY <3>2, <3>3
  <2>2. ASSUME NEW x \in Places(stream', c), NEW y \in Places(stream', c), Shift[x] = Shift[y]
        PROVE  x = y
    <3>a. PICK g \in Fd : \E i \in DOMAIN stream'[g] : stream'[g][i] = c /\ x = <<g, i>>
      BY <1>3, PlacesMember
    <3>1. PICK i \in DOMAIN stream'[g] : stream'[g][i] = c /\ x = <<g, i>>
      BY <3>a
    <3>b. PICK h \in Fd : \E j \in DOMAIN stream'[h] : stream'[h][j] = c /\ y = <<h, j>>
      BY <1>3, PlacesMember
    <3>2. PICK j \in DOMAIN stream'[h] : stream'[h][j] = c /\ y = <<h, j>>
      BY <3>b
    <3>3. g = h
      BY <2>2, <3>1, <3>2
    <3>4. CASE g = f
      BY <1>2, <2>2, <3>1, <3>2, <3>3, <3>4
    <3>5. CASE g # f
      BY <2>2, <3>1, <3>2, <3>3, <3>5
    <3> QED
      BY <3>4, <3>5
  <2> QED
    BY <2>1, <2>2 DEF Injection, IsInjective
<1>5. IsFiniteSet(Left)
  BY FS_RemoveElement
<1>6. /\ IsFiniteSet(Places(stream', c)) /\ Cardinality(Places(stream', c)) <= Cardinality(Left)
  BY <1>4, <1>5, FS_Injection
<1>7. Head(stream[f]) = c => <<f, 1>> \in Places(stream, c)
  BY <1>1, <1>3, PlacesMember
<1>8. Cardinality(Left) <= Cardinality(Places(stream, c)) - (IF Head(stream[f]) = c THEN 1 ELSE 0)
  <2>1. /\ Cardinality(Places(stream, c)) \in Nat
        /\ Cardinality(Left) = IF <<f, 1>> \in Places(stream, c)
                               THEN Cardinality(Places(stream, c)) - 1
                               ELSE Cardinality(Places(stream, c))
    BY FS_RemoveElement, FS_CardinalityType
  <2> HIDE DEF Left
  <2> QED
    BY <1>7, <2>1
<1> QED
  BY <1>5, <1>6, <1>8, FS_CardinalityType

(* The places that are new are among X.                                    *)
LEMMA NewPlaces ==
  ASSUME NEW before, NEW after, NEW v, NEW X,
         \A e \in DOMAIN after : \A i \in DOMAIN after[e] :
           after[e][i] = v => \/ <<e, i>> \in X
                              \/ /\ e \in DOMAIN before /\ i \in DOMAIN before[e]
                                 /\ before[e][i] = v
  PROVE  Places(after, v) \subseteq Places(before, v) \cup X
BY PlacesMember

LEMMA NoNewPlaces ==
  ASSUME NEW before, NEW after, NEW v,
         \A e \in DOMAIN after : \A i \in DOMAIN after[e] :
           after[e][i] = v => /\ e \in DOMAIN before /\ i \in DOMAIN before[e]
                              /\ before[e][i] = v
  PROVE  Places(after, v) \subseteq Places(before, v)
BY PlacesMember

LEMMA Appended ==
  ASSUME NEW T, NEW q \in Seq(T), NEW s \in Seq(T)
  PROVE  \A i \in DOMAIN (q \o s) :
           \/ i \in DOMAIN q /\ (q \o s)[i] = q[i]
           \/ \E j \in DOMAIN s : i = Len(q) + j /\ (q \o s)[i] = s[j]
<1>1. ASSUME NEW i \in DOMAIN (q \o s), i \notin DOMAIN q
      PROVE  \E j \in DOMAIN s : i = Len(q) + j /\ (q \o s)[i] = s[j]
  <2>1. i - Len(q) \in DOMAIN s /\ (q \o s)[i] = s[i - Len(q)]
    BY <1>1
  <2> QED
    BY <1>1, <2>1
<1> QED
  BY <1>1

LEMMA InitAInv == Init => AInv
<1> SUFFICES ASSUME Init PROVE AInv
  OBVIOUS
<1>1. /\ toSend \in [Client -> [req : Nat, beat : Nat]]
      /\ \A c \in Client : toSend[c].req = Requests
      /\ body \in [Client -> BOOLEAN] /\ \A c \in Client : ~body[c]
  BY EpollAssumption DEF Init
<1>2. ASSUME NEW c \in Client PROVE OnePlace(c)
  <2>1. WithWorkers(c) = {}
    BY EpollAssumption DEF Init, WithWorkers
  <2>2. Places(stream, c) = {} /\ Places(inbox, c) = {}
    BY PlacesMember DEF Init
  <2> QED
    BY <1>1, <2>1, <2>2, FS_EmptySet, EpollAssumption DEF OnePlace, StillToCome, Sent
<1> QED
  BY <1>1, <1>2 DEF AInv

LEMMA ClientKeepsA == ASSUME EInv, AInv, NEW c \in Client, ClientStep(c) PROVE AInv'
<1>0. /\ KernelOK /\ EpollAssumption
      /\ \A d \in Client : d # "header" /\ d # Empty
      /\ <<"header", c>> \in Seq(Token) /\ <<"header">> \in Seq(Token)
      /\ <<c>> \in Seq(Token) /\ <<Empty>> \in Seq(Token)
  BY EpollAssumption DEF EInv, TypeOK, KernelOK, Token, Empty
<1>b. /\ <<"header">> # <<"header", c>> /\ <<"header">> # <<c>>
       /\ <<Empty>> # <<"header", c>> /\ <<Empty>> # <<c>>
  <2>1. Len(<<"header">>) = 1 /\ Len(<<Empty>>) = 1 /\ Len(<<"header", c>>) = 2
    OBVIOUS
  <2>2. <<"header">>[1] = "header" /\ <<Empty>>[1] = Empty /\ <<c>>[1] = c
    OBVIOUS
  <2> QED
    BY <1>0, <2>1, <2>2
<1>1. inbox' = inbox /\ wreq' = wreq
  BY DEF ClientStep, ClientRequest, ClientBody, ClientBeat, ClientLeave, Disconnect
<1>2. Connected(c) => FdOf(c) \in Fd
  BY DEF Connected, FdOf
<1> DEFINE Tokens == {<<"header", c>>, <<"header">>, <<c>>, <<Empty>>}
<1>3. ASSUME NEW s \in Tokens, NEW d \in Client, Connected(c), Arrive(c, s)
      PROVE  /\ IsFiniteSet(Places(stream', d)) /\ Cardinality(Places(stream', d)) \in Nat
             /\ Cardinality(Places(stream', d))
                  <= Cardinality(Places(stream, d))
                       + (IF d = c /\ s \in {<<"header", c>>, <<c>>} THEN 1 ELSE 0)
  <2>1. IsFiniteSet(Places(stream, d)) /\ s \in Seq(Token)
    BY <1>0 DEF AInv, OnePlace
  <2>2. /\ FdOf(c) \in Fd /\ stream[FdOf(c)] \in Seq(Token)
        /\ DOMAIN stream = Fd /\ DOMAIN stream' = Fd
        /\ stream'[FdOf(c)] = stream[FdOf(c)] \o s
        /\ \A g \in Fd \ {FdOf(c)} : stream'[g] = stream[g]
    <3>1. FdOf(c) \in Fd /\ stream \in [Fd -> Seq(Token)]
      BY <1>0, <1>2, <1>3 DEF KernelOK
    <3>2. stream' = [stream EXCEPT ![FdOf(c)] = stream[FdOf(c)] \o s]
      BY <1>3 DEF Arrive
    <3> QED
      BY <3>1, <3>2
  <2>a. \A i \in DOMAIN stream'[FdOf(c)] :
           \/ i \in DOMAIN stream[FdOf(c)] /\ stream'[FdOf(c)][i] = stream[FdOf(c)][i]
           \/ \E j \in DOMAIN s : /\ i = Len(stream[FdOf(c)]) + j
                                  /\ stream'[FdOf(c)][i] = s[j]
    BY <2>1, <2>2, Appended
  <2> HIDE DEF Tokens
  <2>3. CASE d = c /\ s \in {<<"header", c>>, <<c>>}
    <3>1. PICK k \in Nat : \A i \in DOMAIN s : s[i] = d => i = k
      <4>1. CASE s = <<"header", c>>
        <5>1. \A i \in DOMAIN s : i = 1 \/ i = 2
          BY <4>1
        <5>2. s[1] # d
          BY <1>0, <4>1
        <5> QED
          BY <5>1, <5>2
      <4>2. CASE s = <<c>>
        <5>1. \A i \in DOMAIN s : i = 1
          BY <4>2
        <5> QED
          BY <5>1
      <4> QED
        BY <2>3, <4>1, <4>2
    <3>2. Places(stream', d) \subseteq Places(stream, d) \cup {<<FdOf(c), Len(stream[FdOf(c)]) + k>>}
      <4> DEFINE new == {<<FdOf(c), Len(stream[FdOf(c)]) + k>>}
      <4>1. \A e \in DOMAIN stream' : \A i \in DOMAIN stream'[e] :
              stream'[e][i] = d => \/ <<e, i>> \in new
                                   \/ /\ e \in DOMAIN stream /\ i \in DOMAIN stream[e]
                                      /\ stream[e][i] = d
        BY <2>2, <2>a, <3>1
      <4> HIDE DEF new
      <4>2. Places(stream', d) \subseteq Places(stream, d) \cup new
        BY <4>1, NewPlaces, Zenon
      <4> QED
        BY <4>2 DEF new
    <3> QED
      BY <2>1, <2>3, <3>2, AtMostOneMore
  <2>4. CASE ~(d = c /\ s \in {<<"header", c>>, <<c>>})
    <3>1. \A i \in DOMAIN s : s[i] # d
      <4>1. s \in {<<"header", c>>, <<c>>} => d # c
        BY <2>4
      <4>2. CASE s = <<"header", c>>
        <5>1. \A i \in DOMAIN s : s[i] \in {"header", c}
          BY <4>2
        <5> QED
          BY <1>0, <4>1, <4>2, <5>1
      <4>3. CASE s = <<c>>
        <5>1. \A i \in DOMAIN s : s[i] = c
          BY <4>3
        <5> QED
          BY <4>1, <4>3, <5>1
      <4>4. CASE s = <<"header">>
        <5>1. \A i \in DOMAIN s : s[i] = "header"
          BY <4>4
        <5> QED
          BY <1>0, <5>1
      <4>5. CASE s = <<Empty>>
        <5>1. \A i \in DOMAIN s : s[i] = Empty
          BY <4>5
        <5> QED
          BY <1>0, <5>1
      <4> QED
        BY <4>2, <4>3, <4>4, <4>5 DEF Tokens
    <3>2. Places(stream', d) \subseteq Places(stream, d)
      <4>1. \A e \in DOMAIN stream' : \A i \in DOMAIN stream'[e] :
              stream'[e][i] = d => /\ e \in DOMAIN stream /\ i \in DOMAIN stream[e]
                                   /\ stream[e][i] = d
        BY <2>2, <2>a, <3>1
      <4> QED
        BY <4>1, NoNewPlaces, Zenon
    <3> QED
      BY <2>1, <2>4, <3>2, NoMore
  <2> QED
    BY <2>3, <2>4
<1>4. \A d \in Client : IsFiniteSet(Places(stream, d)) =>
                          Cardinality(Places(stream, d)) \in Nat
  BY FS_CardinalityType
<1>a. \A d \in Client : /\ WithWorkers(d)' = WithWorkers(d)
                         /\ Places(inbox', d) = Places(inbox, d)
                         /\ Cardinality(WithWorkers(d)) \in Nat
                         /\ Cardinality(Places(inbox, d)) \in Nat
  BY <1>1, FS_CardinalityType DEF WithWorkers, AInv, OnePlace
<1>5. CASE ClientRequest(c)
  <2>1. /\ toSend' = [toSend EXCEPT ![c].req = @ - 1] /\ toSend[c].req > 0
        /\ Connected(c) /\ ~body[c]
    BY <1>5 DEF ClientRequest
  <2>2. /\ toSend' \in [Client -> [req : Nat, beat : Nat]]
        /\ Sent(c)' = Sent(c) + 1 /\ Sent(c) \in Int
        /\ \A d \in Client \ {c} : Sent(d)' = Sent(d) /\ Sent(d) \in Int
    BY <2>1, EpollAssumption DEF AInv, Sent
  <2>3. \/ Arrive(c, <<"header", c>>) /\ body' = body
        \/ Arrive(c, <<"header">>) /\ body' = [body EXCEPT ![c] = TRUE]
    BY <1>5 DEF ClientRequest
  <2>4. body' \in [Client -> BOOLEAN] /\ \A d \in Client \ {c} : StillToCome(d)' = StillToCome(d)
    BY <2>3 DEF AInv, StillToCome
  <2>5. ASSUME NEW d \in Client PROVE OnePlace(d)'
    <3>1. OnePlace(d) /\ StillToCome(d) \in {0, 1} /\ StillToCome(c) = 0
      BY <2>1 DEF AInv, StillToCome
    <3>2. CASE Arrive(c, <<"header", c>>) /\ body' = body
      <4>1. StillToCome(d)' = StillToCome(d)
        BY <3>2 DEF StillToCome
      <4>2. /\ IsFiniteSet(Places(stream', d)) /\ Cardinality(Places(stream', d)) \in Nat
            /\ Cardinality(Places(stream', d))
                  <= Cardinality(Places(stream, d)) + (IF d = c THEN 1 ELSE 0)
        BY <1>3, <2>1, <3>2
      <4> QED
        BY <1>4, <1>a, <2>2, <3>1, <4>1, <4>2 DEF OnePlace
    <3>3. CASE Arrive(c, <<"header">>) /\ body' = [body EXCEPT ![c] = TRUE]
      <4>1. StillToCome(c)' = 1
        BY <3>3 DEF StillToCome, AInv
      <4>2. /\ IsFiniteSet(Places(stream', d)) /\ Cardinality(Places(stream', d)) \in Nat
            /\ Cardinality(Places(stream', d)) <= Cardinality(Places(stream, d))
        BY <1>b, <1>3, <1>4, <2>1, <3>1, <3>3 DEF OnePlace
      <4> QED
        BY <1>4, <1>a, <2>2, <2>4, <3>1, <4>1, <4>2 DEF OnePlace
    <3> QED
      BY <2>3, <3>2, <3>3
  <2> QED
    BY <2>2, <2>4, <2>5 DEF AInv
<1>6. CASE ClientBody(c)
  <2>1. /\ toSend' = toSend /\ body[c] /\ body' = [body EXCEPT ![c] = FALSE]
        /\ Connected(c) /\ Arrive(c, <<c>>)
    BY <1>6 DEF ClientBody
  <2>2. ASSUME NEW d \in Client PROVE OnePlace(d)'
    <3>1. OnePlace(d) /\ Sent(d)' = Sent(d) /\ Sent(d) \in Int
      BY <2>1, EpollAssumption DEF AInv, Sent
    <3>2. /\ StillToCome(d) \in {0, 1}
          /\ StillToCome(d)' = IF d = c THEN 0 ELSE StillToCome(d)
          /\ StillToCome(c) = 1
      BY <2>1 DEF StillToCome, AInv
    <3>3. /\ IsFiniteSet(Places(stream', d)) /\ Cardinality(Places(stream', d)) \in Nat
          /\ Cardinality(Places(stream', d))
                <= Cardinality(Places(stream, d)) + (IF d = c THEN 1 ELSE 0)
      BY <1>3, <2>1
    <3> QED
      BY <1>4, <1>a, <3>1, <3>2, <3>3 DEF OnePlace
  <2> QED
    BY <2>1, <2>2 DEF AInv
<1>7. CASE ClientBeat(c)
  <2>1. /\ toSend' = [toSend EXCEPT ![c].beat = @ - 1] /\ toSend[c].beat > 0 /\ body' = body
        /\ Connected(c) /\ Arrive(c, <<Empty>>)
    BY <1>7 DEF ClientBeat
  <2>2. /\ toSend' \in [Client -> [req : Nat, beat : Nat]]
        /\ \A d \in Client : Sent(d)' = Sent(d) /\ Sent(d) \in Int
    BY <2>1, EpollAssumption DEF AInv, Sent
  <2>3. ASSUME NEW d \in Client PROVE OnePlace(d)'
    <3>1. OnePlace(d) /\ StillToCome(d)' = StillToCome(d) /\ StillToCome(d) \in {0, 1}
      BY <2>1 DEF AInv, StillToCome
    <3>2. /\ IsFiniteSet(Places(stream', d)) /\ Cardinality(Places(stream', d)) \in Nat
          /\ Cardinality(Places(stream', d)) <= Cardinality(Places(stream, d))
      BY <1>b, <1>3, <1>4, <2>1, <3>1 DEF OnePlace
    <3> QED
      BY <1>4, <1>a, <2>2, <3>1, <3>2 DEF OnePlace
  <2> QED
    BY <2>1, <2>2, <2>3 DEF AInv
<1>8. CASE ClientLeave(c)
  BY <1>8 DEF ClientLeave, Disconnect, AInv, OnePlace, WithWorkers, StillToCome, Sent
<1> QED
  BY <1>5, <1>6, <1>7, <1>8 DEF ClientStep

(* What recv and send do to a request's places: they read it off a stream, *)
(* drop it with a connection, or answer it.                                *)
LEMMA RecvDrops ==
  ASSUME KernelOK, NEW f \in Fd, Close(f) \/ UNCHANGED stream,
         NEW c, c \in Client, IsFiniteSet(Places(stream, c))
  PROVE  /\ IsFiniteSet(Places(stream', c)) /\ Cardinality(Places(stream', c)) \in Nat
         /\ Cardinality(Places(stream, c)) \in Nat
         /\ Cardinality(Places(stream', c)) <= Cardinality(Places(stream, c))
<1>1. DOMAIN stream = Fd /\ DOMAIN stream' = Fd
  BY DEF KernelOK, Close
<1>2. \A g \in Fd : stream'[g] = stream[g] \/ DOMAIN stream'[g] = {}
  BY DEF KernelOK, Close
<1>3. ASSUME NEW x \in Places(stream', c) PROVE x \in Places(stream, c)
  <2>1. \E g \in DOMAIN stream' : \E i \in DOMAIN stream'[g] : stream'[g][i] = c /\ x = <<g, i>>
    BY <1>3, PlacesMember
  <2> QED
    BY <1>1, <1>2, <2>1, PlacesMember
<1> QED
  BY <1>3, NoMore

LEMMA SendAnswers ==
  ASSUME EInv, NEW f \in Fd, NEW m \in Client \cup {Empty}, Sends(f, m) \/ SendFails(f),
         NEW c \in Client, IsFiniteSet(Places(inbox, c)), IsFiniteSet(Places(stream, c))
  PROVE  /\ IsFiniteSet(Places(inbox', c)) /\ Cardinality(Places(inbox', c)) \in Nat
         /\ Cardinality(Places(inbox, c)) \in Nat
         /\ Cardinality(Places(inbox', c))
              <= Cardinality(Places(inbox, c)) + (IF m = c THEN 1 ELSE 0)
         /\ IsFiniteSet(Places(stream', c)) /\ Cardinality(Places(stream', c)) \in Nat
         /\ Cardinality(Places(stream, c)) \in Nat
         /\ Cardinality(Places(stream', c)) <= Cardinality(Places(stream, c))
<1>1. KernelOK
  BY DEF EInv, TypeOK, KernelOK, Token
<1>2. UNCHANGED stream
  BY DEF Sends, SendFails, SendDelivers, SendIsReset, SendKills, kernel
<1>3. /\ IsFiniteSet(Places(stream', c)) /\ Cardinality(Places(stream', c)) \in Nat
      /\ Cardinality(Places(stream, c)) \in Nat
      /\ Cardinality(Places(stream', c)) <= Cardinality(Places(stream, c))
  BY <1>1, <1>2, RecvDrops, FS_CardinalityType
<1>4. CASE inbox' = inbox
  BY <1>3, <1>4, FS_CardinalityType
<1>5. CASE SendDelivers(f, m)
  <2>1. peer[f] \in Client
    BY <1>5 DEF SendDelivers, EInv, TypeOK
  <2>2. /\ DOMAIN inbox = Client /\ DOMAIN inbox' = Client
        /\ inbox[peer[f]] \in Seq(Client \cup {Empty})
        /\ inbox'[peer[f]] = Append(inbox[peer[f]], m)
        /\ \A e \in Client \ {peer[f]} : inbox'[e] = inbox[e]
    BY <1>5, <2>1 DEF SendDelivers, EInv, TypeOK
  <2> DEFINE X == IF m = c THEN {<<peer[f], Len(inbox[peer[f]]) + 1>>} ELSE {}
  <2>a. \A e \in DOMAIN inbox' : \A i \in DOMAIN inbox'[e] :
           inbox'[e][i] = c => \/ <<e, i>> \in X
                               \/ /\ e \in DOMAIN inbox /\ i \in DOMAIN inbox[e]
                                  /\ inbox[e][i] = c
    BY <2>1, <2>2
  <2>b. Places(inbox', c) \subseteq Places(inbox, c) \cup X
    <3> HIDE DEF X
    <3> QED
      BY <2>a, NewPlaces, Zenon
  <2>3. CASE m = c
    BY <1>3, <2>b, <2>3, AtMostOneMore
  <2>4. CASE m # c
    BY <1>3, <2>b, <2>4, NoMore
  <2> QED
    BY <2>3, <2>4
<1> QED
  BY <1>4, <1>5 DEF Sends, SendFails, SendIsReset, SendKills

(* A worker's own place: it may take a request up, drop it or keep it.     *)
LEMMA WorkerHolds ==
  ASSUME TypeOK, NEW w \in Worker, \A v \in Worker \ {w} : wreq'[v] = wreq[v],
         NEW c, IsFiniteSet(WithWorkers(c))
  PROVE  /\ IsFiniteSet(WithWorkers(c)') /\ Cardinality(WithWorkers(c)') \in Nat
         /\ Cardinality(WithWorkers(c)') <= Cardinality(WithWorkers(c)) + 1
         /\ wreq'[w] # c => /\ Cardinality(WithWorkers(c)') <= Cardinality(WithWorkers(c))
                            /\ wreq[w] = c => Cardinality(WithWorkers(c)')
                                                <= Cardinality(WithWorkers(c)) - 1
<1>1. WithWorkers(c)' = {v \in Worker : wreq'[v] = c}
  BY DEF WithWorkers
<1>2. WithWorkers(c)' \subseteq WithWorkers(c) \cup {w}
  BY <1>1 DEF WithWorkers
<1>3. wreq'[w] # c => WithWorkers(c)' \subseteq WithWorkers(c) \ {w}
  BY <1>1 DEF WithWorkers
<1>4. wreq[w] = c => w \in WithWorkers(c)
  BY DEF WithWorkers
<1> QED
  BY <1>2, <1>3, <1>4, AtMostOneMore, NoMore, AtLeastOneLess

LEMMA WorkerKeepsA == ASSUME EInv, AInv, NEW w \in Worker, WorkerStep(w) PROVE AInv'
<1>0. KernelOK /\ EpollAssumption /\ TypeOK
  BY EpollAssumption DEF EInv, TypeOK, KernelOK, Token
<1>1. toSend' = toSend /\ body' = body
  BY DEF WorkerStep, TakeTask, ReadFd, Decode, HandleRequest, RecvHeader, RecvBody, RecvRest,
         Unwatch, Shut, AnswerBeat, SendAnswer, clients
<1>2. SUFFICES ASSUME NEW c \in Client PROVE OnePlace(c)'
  BY <1>1 DEF AInv
<1>3. /\ OnePlace(c) /\ StillToCome(c)' = StillToCome(c) /\ StillToCome(c) \in {0, 1}
      /\ Sent(c)' = Sent(c) /\ Sent(c) \in Int
      /\ c # None /\ c # Empty /\ c # Junk
  BY <1>1, EpollAssumption DEF AInv, StillToCome, Sent, Empty, Junk
<1>4. /\ IsFiniteSet(Places(stream, c)) /\ Cardinality(Places(stream, c)) \in Nat
      /\ IsFiniteSet(Places(inbox, c)) /\ Cardinality(Places(inbox, c)) \in Nat
      /\ IsFiniteSet(WithWorkers(c)) /\ Cardinality(WithWorkers(c)) \in Nat
  BY <1>3, FS_CardinalityType DEF OnePlace
<1>5. CASE TakeTask(w) \/ ReadFd(w) \/ Decode(w) \/ Unwatch(w)
  <2>1. UNCHANGED <<stream, wreq, inbox>>
    BY <1>5 DEF TakeTask, ReadFd, Decode, HandleRequest, Unwatch, kernel
  <2> QED
    BY <1>3, <2>1 DEF OnePlace, WithWorkers
<1>6. CASE RecvHeader(w) \/ RecvRest(w)
  <2>1. UNCHANGED <<inbox, wreq>> /\ wfd[w] \in Fd
    BY <1>6 DEF RecvHeader, RecvRest, EInv, Holding
  <2>2. CASE UNCHANGED kernel
    BY <1>3, <2>1, <2>2 DEF OnePlace, WithWorkers, kernel
  <2>3. CASE HasData(wfd[w]) /\ Consume(wfd[w])
    <3>1. /\ IsFiniteSet(Places(stream', c)) /\ Cardinality(Places(stream', c)) \in Nat
          /\ Cardinality(Places(stream', c))
               <= Cardinality(Places(stream, c)) - (IF Head(stream[wfd[w]]) = c THEN 1 ELSE 0)
      BY <1>0, <1>4, <2>1, <2>3, ConsumeTakes
    <3>2. Cardinality(Places(stream', c)) <= Cardinality(Places(stream, c))
      BY <1>4, <3>1
    <3> QED
      BY <1>3, <1>4, <2>1, <3>1, <3>2 DEF OnePlace, WithWorkers
  <2> QED
    BY <1>6, <2>2, <2>3 DEF RecvHeader, RecvRest
<1>9. CASE Shut(w)
  <2>1. /\ inbox' = inbox /\ wfd[w] \in Fd /\ Close(wfd[w])
        /\ \A v \in Worker \ {w} : wreq'[v] = wreq[v]
        /\ wreq' = wreq \/ wreq'[w] # c
    BY <1>0, <1>3, <1>9 DEF Shut, Return, EInv, Holding, TypeOK
  <2>2. /\ IsFiniteSet(WithWorkers(c)') /\ Cardinality(WithWorkers(c)') \in Nat
        /\ Cardinality(WithWorkers(c)') <= Cardinality(WithWorkers(c))
    <3>1. CASE wreq' = wreq
      BY <1>4, <3>1 DEF WithWorkers
    <3> QED
      BY <1>0, <1>3, <1>4, <2>1, <3>1, WorkerHolds
  <2>3. /\ IsFiniteSet(Places(stream', c)) /\ Cardinality(Places(stream', c)) \in Nat
        /\ Cardinality(Places(stream', c)) <= Cardinality(Places(stream, c))
    BY <1>0, <1>4, <2>1, RecvDrops
  <2> QED
    BY <1>3, <1>4, <2>1, <2>2, <2>3 DEF OnePlace
<1>7. CASE RecvBody(w)
  <2>1. /\ inbox' = inbox /\ wfd[w] \in Fd
        /\ wreq'[w] = BodyRead(wfd[w]) /\ \A v \in Worker \ {w} : wreq'[v] = wreq[v]
    BY <1>0, <1>7 DEF RecvBody, EInv, Holding, TypeOK
  <2>2. CASE HasData(wfd[w]) /\ Consume(wfd[w])
    <3>1. BodyRead(wfd[w]) = Head(stream[wfd[w]])
      BY <2>2 DEF BodyRead
    <3>2. /\ IsFiniteSet(Places(stream', c)) /\ Cardinality(Places(stream', c)) \in Nat
          /\ Cardinality(Places(stream', c))
               <= Cardinality(Places(stream, c)) - (IF Head(stream[wfd[w]]) = c THEN 1 ELSE 0)
      BY <1>0, <1>4, <2>1, <2>2, ConsumeTakes
    <3>3. /\ IsFiniteSet(WithWorkers(c)') /\ Cardinality(WithWorkers(c)') \in Nat
          /\ Cardinality(WithWorkers(c)') <= Cardinality(WithWorkers(c))
                        + (IF Head(stream[wfd[w]]) = c THEN 1 ELSE 0)
      <4>1. CASE Head(stream[wfd[w]]) = c
        BY <1>0, <1>4, <2>1, <3>1, <4>1, WorkerHolds
      <4>2. CASE Head(stream[wfd[w]]) # c
        BY <1>0, <1>4, <2>1, <3>1, <4>2, WorkerHolds
      <4> QED
        BY <4>1, <4>2
    <3> QED
      BY <1>3, <1>4, <2>1, <3>2, <3>3 DEF OnePlace
  <2>3. CASE ~HasData(wfd[w]) /\ UNCHANGED kernel
    <3>1. BodyRead(wfd[w]) # c
      BY <1>3, <2>3 DEF BodyRead
    <3>2. /\ IsFiniteSet(Places(stream', c)) /\ Cardinality(Places(stream', c)) \in Nat
          /\ Cardinality(Places(stream', c)) <= Cardinality(Places(stream, c))
      BY <1>4, <2>3 DEF kernel
    <3>3. /\ IsFiniteSet(WithWorkers(c)') /\ Cardinality(WithWorkers(c)') \in Nat
          /\ Cardinality(WithWorkers(c)') <= Cardinality(WithWorkers(c))
      BY <1>0, <1>4, <2>1, <3>1, WorkerHolds
    <3> QED
      BY <1>3, <1>4, <2>1, <3>2, <3>3 DEF OnePlace
  <2> QED
    BY <1>7, <2>2, <2>3 DEF RecvBody, AtEnd, RecvFails
<1>8. CASE AnswerBeat(w) \/ SendAnswer(w)
  <2>1. wfd[w] \in Fd
    BY <1>8 DEF AnswerBeat, SendAnswer, EInv, Holding
  <2>2. PICK m \in Client \cup {Empty} : Send(w, m) /\ (m = c => wreq[w] = c)
    BY <1>3, <1>8 DEF AnswerBeat, SendAnswer, EInv
  <2>3. CASE SendFails(wfd[w]) /\ UNCHANGED wreq
    <3>1. UNCHANGED <<stream, inbox>>
      BY <2>3 DEF SendFails, kernel
    <3> QED
      BY <1>3, <2>3, <3>1 DEF OnePlace, WithWorkers
  <2>4. CASE Sends(wfd[w], m) /\ Return(w)
    <3>1. wreq'[w] = None /\ \A v \in Worker \ {w} : wreq'[v] = wreq[v]
      BY <1>0, <2>4 DEF Return, TypeOK
    <3>2. /\ IsFiniteSet(WithWorkers(c)') /\ Cardinality(WithWorkers(c)') \in Nat
          /\ Cardinality(WithWorkers(c)')
               <= Cardinality(WithWorkers(c)) - (IF m = c THEN 1 ELSE 0)
      <4>1. CASE m = c
        BY <1>0, <1>3, <1>4, <2>2, <3>1, <4>1, WorkerHolds
      <4>2. CASE m # c
        BY <1>0, <1>3, <1>4, <3>1, <4>2, WorkerHolds
      <4> QED
        BY <4>1, <4>2
    <3>3. /\ IsFiniteSet(Places(inbox', c)) /\ Cardinality(Places(inbox', c)) \in Nat
          /\ Cardinality(Places(inbox', c))
               <= Cardinality(Places(inbox, c)) + (IF m = c THEN 1 ELSE 0)
          /\ IsFiniteSet(Places(stream', c)) /\ Cardinality(Places(stream', c)) \in Nat
          /\ Cardinality(Places(stream', c)) <= Cardinality(Places(stream, c))
      BY <1>4, <2>1, <2>4, SendAnswers
    <3> QED
      BY <1>3, <1>4, <3>2, <3>3 DEF OnePlace
  <2> QED
    BY <2>2, <2>3, <2>4 DEF Send
<1> QED
  BY <1>5, <1>6, <1>7, <1>8, <1>9 DEF WorkerStep

(* AnsweredAtMostOnce: however many workers share a descriptor, the answers*)
(* to one client's requests, wherever they were sent, are no more than the *)
(* requests it has made.                                                   *)
THEOREM RequestAnsweredAtMostOnce == Spec => []AnsweredAtMostOnce
<1>1. EInv /\ AInv /\ [Next]_vars => (EInv /\ AInv)'
  <2> SUFFICES ASSUME EInv, AInv, [Next]_vars PROVE (EInv /\ AInv)'
    OBVIOUS
  <2>1. CASE UNCHANGED vars
    BY <2>1 DEF EInv, TypeOK, AInv, OnePlace, WithWorkers, StillToCome, Sent, vars, kernel,
                reactor, clients
  <2>2. CASE ReactorStep
    <3>1. UNCHANGED <<stream, wreq, inbox, toSend, body>>
      BY <2>2 DEF ReactorStep, Wait, Dispatch, AddTask, Accept, kernel, clients
    <3>2. AInv'
      BY <3>1 DEF AInv, OnePlace, WithWorkers, StillToCome, Sent
    <3> QED
      BY <2>2, <3>2, ReactorKeeps
  <2> QED
    BY <2>1, <2>2, ClientKeeps, ClientKeepsA, WorkerKeeps, WorkerKeepsA DEF Next
<1>2. AInv => AnsweredAtMostOnce
  <2> SUFFICES ASSUME AInv, NEW c \in Client
               PROVE  Cardinality(Places(inbox, c)) <= Requests - toSend[c].req
    BY DEF AnsweredAtMostOnce
  <2>1. OnePlace(c) /\ StillToCome(c) \in Nat /\ Sent(c) \in Int
    BY EpollAssumption DEF AInv, StillToCome, Sent
  <2> QED
    BY <2>1, FS_CardinalityType DEF OnePlace, Sent
<1> QED
  BY <1>1, <1>2, InitEInv, InitAInv, PTL DEF Spec
=============================================================================
