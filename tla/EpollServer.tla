---------------------------- MODULE EpollServer ----------------------------
(***************************************************************************)
(* The reactor of serverop/epoll2.cpp and the request handler "working" of *)
(* serverop/serverop.cpp that it runs on the thread pool.  One thread waits*)
(* for edge-triggered events and queues a task per event; the task carries *)
(* no descriptor: every worker reads the field fd of the one Epoll object. *)
(*                                                                         *)
(* The pool is what TaskQueue promises: a bounded queue of tasks, which are*)
(* all alike here, so that its length is enough.  That the pool frees the  *)
(* argument of a slot it reuses, here the shared object itself, is left    *)
(* out; ThreadPool has it.  A request is its length header and its body;   *)
(* which request it is shows in its sender only.                           *)
(*                                                                         *)
(* Every call of recv, send, epoll_ctl and close by a worker is a step:    *)
(* between two of them another worker may close the descriptor and accept  *)
(* return its number again.  What accept, fcntl and epoll_ctl do about a   *)
(* new connection is one step of the reactor: nobody else is told of the   *)
(* number before.  That leaves out one thing, a worker that still holds the*)
(* number and receives before fcntl has made the descriptor non-blocking.  *)
(***************************************************************************)
EXTENDS Integers, Sequences, FiniteSets

CONSTANTS Client,    \* the clients
          Fd,        \* the descriptors accept may return, as numbers
          Worker,    \* the threads of the pool
          QueueMax,  \* queue_max_size of the pool
          Requests,  \* how many requests a client sends
          Beats,     \* Client -> how many heartbeats it sends
          Split,     \* the body of a request may arrive after its header
          Leaves,    \* the clients that may disconnect
          None       \* no client, no descriptor

ASSUME EpollAssumption ==
  /\ Fd \subseteq Nat /\ IsFiniteSet(Fd) /\ Fd # {}
  /\ QueueMax \in Nat \ {0} /\ Requests \in Nat /\ Beats \in [Client -> Nat]
  /\ Split \in BOOLEAN /\ Leaves \subseteq Client
  /\ None \notin Client \cup Fd /\ None # "junk"
  /\ Client \cap {"header", "empty", "junk"} = {}

Empty == "empty"    \* a packet of length 0: the heartbeat and its answer
Junk  == "junk"     \* bytes that are not a request

VARIABLES
  \* the kernel
  peer,     \* Fd -> the client at its other end, None if it is closed
  stream,   \* Fd -> what has arrived and is not read
  far,      \* Fd -> the client's end: "open", "fin" (closed), "rst" (reset)
  ready,    \* descriptors with an edge not yet reported
  watched,  \* descriptors in the interest list of epfd
  \* the Epoll object and initepoll
  ep_fd,    \* this->fd
  batch,    \* events[] still to be handled
  adding,   \* the reactor is in threadpool_add
  queued,   \* tasks in the pool's queue
  \* the workers
  pc, wfd, wreq,
  crashed,  \* the server's process has ended
  \* the clients
  mode,     \* "new", "open", "left"
  toSend,   \* requests and heartbeats a client may still send
  body,     \* the body of its last request is still on its way
  inbox     \* what the server has sent to it

kernel  == <<peer, stream, far, ready, watched>>
reactor == <<ep_fd, batch, adding>>
clients == <<mode, toSend, body>>
vars == <<kernel, reactor, queued, pc, wfd, wreq, crashed, clients, inbox>>

Init ==
  /\ peer = [f \in Fd |-> None]
  /\ stream = [f \in Fd |-> <<>>]
  /\ far = [f \in Fd |-> "open"]
  /\ ready = {} /\ watched = {}
  /\ ep_fd = None /\ batch = {} /\ adding = FALSE
  /\ queued = 0
  /\ pc = [w \in Worker |-> "idle"]
  /\ wfd = [w \in Worker |-> None]
  /\ wreq = [w \in Worker |-> None]
  /\ crashed = FALSE
  /\ mode = [c \in Client |-> "new"]
  /\ toSend = [c \in Client |-> [req |-> Requests, beat |-> Beats[c]]]
  /\ body = [c \in Client |-> FALSE]
  /\ inbox = [c \in Client |-> <<>>]

FdOf(c) == CHOOSE f \in Fd : peer[f] = c
Connected(c) == mode[c] = "open" /\ \E f \in Fd : peer[f] = c /\ far[f] = "open"

-----------------------------------------------------------------------------
(* The clients: what arrives sets an edge on the descriptor, if it is in   *)
(* the interest list.                                                      *)

Edge(fs) == /\ ready' = ready \cup (fs \cap watched)
            /\ UNCHANGED watched

Arrive(c, tokens) ==
  /\ stream' = [stream EXCEPT ![FdOf(c)] = @ \o tokens]
  /\ Edge({FdOf(c)})
  /\ UNCHANGED <<peer, far>>

(* clientop's keyMngArrange waits for the answer to a request before it    *)
(* makes another; its heartbeat thread does not wait.                      *)
Answers(c, a) == Len(SelectSeq(inbox[c], LAMBDA p : p = a))

ClientRequest(c) ==
  /\ Connected(c) /\ ~body[c] /\ toSend[c].req > 0
  /\ Answers(c, c) = Requests - toSend[c].req
  /\ toSend' = [toSend EXCEPT ![c].req = @ - 1]
  /\ \/ Arrive(c, <<"header", c>>) /\ body' = body
     \/ Split /\ Arrive(c, <<"header">>) /\ body' = [body EXCEPT ![c] = TRUE]
  /\ UNCHANGED <<reactor, queued, pc, wfd, wreq, crashed, mode, inbox>>

ClientBody(c) ==
  /\ Connected(c) /\ body[c]
  /\ Arrive(c, <<c>>)
  /\ body' = [body EXCEPT ![c] = FALSE]
  /\ UNCHANGED <<reactor, queued, pc, wfd, wreq, crashed, mode, toSend, inbox>>

ClientBeat(c) ==
  /\ Connected(c) /\ ~body[c] /\ toSend[c].beat > 0
  /\ Arrive(c, <<Empty>>)
  /\ toSend' = [toSend EXCEPT ![c].beat = @ - 1]
  /\ UNCHANGED <<reactor, queued, pc, wfd, wreq, crashed, mode, body, inbox>>

(* The kernel resets a connection that is closed over unread data.         *)
Disconnect(c, how) ==
  /\ Connected(c)
  /\ far' = [far EXCEPT ![FdOf(c)] = how]
  /\ Edge({FdOf(c)})
  /\ mode' = [mode EXCEPT ![c] = "left"]
  /\ UNCHANGED <<peer, stream, reactor, queued, pc, wfd, wreq, crashed, toSend,
                 body, inbox>>

ClientLeave(c) ==
  /\ c \in Leaves
  /\ \/ Disconnect(c, "fin")
     \/ inbox[c] # <<>> /\ Disconnect(c, "rst")

-----------------------------------------------------------------------------
(* initepoll: one round of epoll_wait returns every pending event; a       *)
(* client's descriptor is edge-triggered.                                  *)

\* Mutant of StillReady: the client's descriptor is level-triggered.
StillReadyLevel == {f \in ready : stream[f] # <<>>}
StillReady == {}

Wait ==
  /\ ~crashed /\ ~adding /\ batch = {} /\ ready # {}
  /\ batch' = ready
  /\ ready' = StillReady
  /\ UNCHANGED <<peer, stream, far, watched, ep_fd, adding, queued, pc, wfd,
                 wreq, crashed, clients, inbox>>

(* accept returns the lowest free descriptor, which epoll_ctl adds.        *)
Accept(c) ==
  /\ ~crashed /\ ~adding
  /\ mode[c] = "new"
  /\ \E f \in Fd :
       /\ peer[f] = None
       /\ \A g \in Fd : peer[g] = None => f <= g
       /\ peer' = [peer EXCEPT ![f] = c]
       /\ watched' = watched \cup {f}
  /\ mode' = [mode EXCEPT ![c] = "open"]
  /\ UNCHANGED <<stream, far, ready, reactor, queued, pc, wfd, wreq, crashed,
                 toSend, body, inbox>>

(* The event's descriptor goes into the shared object, then the task, which*)
(* is a pointer to that object, goes to the pool.                          *)
Dispatch ==
  /\ ~crashed /\ ~adding
  /\ \E f \in batch : ep_fd' = f /\ batch' = batch \ {f}
  /\ adding' = TRUE
  /\ UNCHANGED <<kernel, queued, pc, wfd, wreq, crashed, clients, inbox>>

RoomAlways == TRUE                   \* mutant of RoomInQueue
RoomInQueue == queued < QueueMax

\* Mutant of QueuedAfterAdd: the task is not queued.
QueuedBefore == queued
QueuedAfterAdd == queued + 1

AddTask ==
  /\ ~crashed /\ adding
  /\ RoomInQueue
  /\ queued' = QueuedAfterAdd
  /\ adding' = FALSE
  /\ UNCHANGED <<kernel, ep_fd, batch, pc, wfd, wreq, crashed, clients, inbox>>

-----------------------------------------------------------------------------
(* working, with recvdata and senddata                                     *)

Goto(w, l) == pc' = [pc EXCEPT ![w] = l]

Return(w) == /\ Goto(w, "idle")
             /\ wfd' = [wfd EXCEPT ![w] = None]
             /\ wreq' = [wreq EXCEPT ![w] = None]

(* EPOLL_CTL_DEL and close.  The number is all they go by: once accept has *)
(* returned it again, they take the connection of another client, and when *)
(* it is closed they do nothing.                                           *)
Delete(f) == /\ watched' = watched \ {f}
             /\ ready' = ready \ {f}

Close(f) ==
  /\ peer' = [peer EXCEPT ![f] = None]
  /\ stream' = [stream EXCEPT ![f] = <<>>]
  /\ far' = [far EXCEPT ![f] = "open"]
  /\ Delete(f)

Consume(f) == /\ stream' = [stream EXCEPT ![f] = Tail(@)]
              /\ UNCHANGED <<peer, far, ready, watched>>

(* senddata.  What is sent to a client that has closed its end is answered *)
(* with a reset, which over the loopback interface is there at once.  On a *)
(* connection that is reset, send fails, or it raises SIGPIPE, which nobody*)
(* handles and which ends the process.                                     *)
SendFails(f) ==
  /\ peer[f] = None \/ far[f] = "rst"
  /\ UNCHANGED <<kernel, inbox, crashed>>

SendDelivers(f, packet) ==
  /\ peer[f] # None /\ far[f] = "open"
  /\ inbox' = [inbox EXCEPT ![peer[f]] = Append(@, packet)]
  /\ UNCHANGED <<kernel, crashed>>

SendIsReset(f) ==
  /\ far[f] = "fin"
  /\ far' = [far EXCEPT ![f] = "rst"]
  /\ Edge({f})
  /\ UNCHANGED <<peer, stream, inbox, crashed>>

SendKills(f) ==
  /\ far[f] = "rst"
  /\ crashed' = TRUE
  /\ UNCHANGED <<kernel, inbox>>

Sends(f, packet) == SendDelivers(f, packet) \/ SendIsReset(f) \/ SendKills(f)

\* What a worker does with send's answer: -1 takes it to the two calls below.
Send(w, packet) ==
  \/ Sends(wfd[w], packet) /\ Return(w)
  \/ SendFails(wfd[w]) /\ Goto(w, "del") /\ UNCHANGED <<wfd, wreq>>

TakeTask(w) ==
  /\ ~crashed /\ pc[w] = "idle" /\ queued > 0
  /\ queued' = queued - 1
  /\ Goto(w, "enter")
  /\ UNCHANGED <<kernel, reactor, wfd, wreq, crashed, clients, inbox>>

ReadFd(w) ==
  /\ ~crashed /\ pc[w] \in {"enter", "answer"}
  /\ wfd' = [wfd EXCEPT ![w] = ep_fd]
  /\ Goto(w, IF pc[w] = "enter" THEN "header" ELSE "send")
  /\ UNCHANGED <<kernel, reactor, queued, wreq, crashed, clients, inbox>>

(* The first recv of recvdata.  An empty packet, but also a recv that finds*)
(* nothing or fails, leaves len = 0: it is answered with an empty packet.  *)
HasData(f) == stream[f] # <<>>
AtEnd(f)   == peer[f] # None /\ ~HasData(f) /\ far[f] # "open"
RecvFails(f) == ~HasData(f) /\ (AtEnd(f) => far[f] = "rst")

RecvHeader(w) ==
  LET f == wfd[w] IN
  /\ ~crashed /\ pc[w] = "header"
  /\ \/ RecvFails(f) /\ UNCHANGED kernel /\ Goto(w, "beat")
     \/ AtEnd(f) /\ UNCHANGED kernel /\ Goto(w, "del")
     \/ /\ HasData(f) /\ Consume(f)
        /\ Goto(w, IF Head(stream[f]) = Empty THEN "beat" ELSE "body")
  /\ UNCHANGED <<reactor, queued, wfd, wreq, crashed, clients, inbox>>

(* The empty packet goes to the descriptor recvdata was called with; then  *)
(* recvdata returns 0 and working leaves.                                  *)
AnswerBeat(w) ==
  /\ ~crashed /\ pc[w] = "beat"
  /\ Send(w, Empty)
  /\ UNCHANGED <<reactor, queued, clients>>

(* The loop over the body reads what is there; nothing there leaves zeros  *)
(* in the buffer, and a header or a heartbeat is read as if it were body.  *)
\* Mutant of BodyRead: the loop waits for the body.
BodyAwaited(f) == IF HasData(f) THEN Head(stream[f])
                  ELSE IF AtEnd(f) THEN Junk ELSE None
BodyRead(f) == IF HasData(f) THEN Head(stream[f]) ELSE Junk

RecvBody(w) ==
  LET f == wfd[w] IN
  /\ ~crashed /\ pc[w] = "body"
  /\ BodyRead(f) # None
  /\ wreq' = [wreq EXCEPT ![w] = BodyRead(f)]
  /\ \/ HasData(f) /\ Consume(f) /\ Goto(w, "decode")
     \/ AtEnd(f) /\ UNCHANGED kernel /\ Goto(w, "del")
     \/ RecvFails(f) /\ UNCHANGED kernel /\ Goto(w, "rest")
  /\ UNCHANGED <<reactor, queued, wfd, crashed, clients, inbox>>

(* The loop goes on after a byte it did not get, with whatever the number  *)
(* stands for by now, to the end of the announced length.                  *)
RecvRest(w) ==
  LET f == wfd[w] IN
  /\ ~crashed /\ pc[w] = "rest"
  /\ \/ HasData(f) /\ Consume(f) /\ UNCHANGED pc
     \/ AtEnd(f) /\ UNCHANGED kernel /\ Goto(w, "del")
     \/ UNCHANGED kernel /\ Goto(w, "decode")
  /\ UNCHANGED <<reactor, queued, wfd, wreq, crashed, clients, inbox>>

(* After recv gave 0, or send -1: EPOLL_CTL_DEL, then close.  The loop over*)
(* the body goes on from there; all else returns.                          *)
Unwatch(w) ==
  /\ ~crashed /\ pc[w] = "del"
  /\ Delete(wfd[w])
  /\ Goto(w, "shut")
  /\ UNCHANGED <<peer, stream, far, reactor, queued, wfd, wreq, crashed, clients,
                 inbox>>

Shut(w) ==
  /\ ~crashed /\ pc[w] = "shut"
  /\ Close(wfd[w])
  /\ IF wreq[w] = Junk THEN Goto(w, "rest") /\ UNCHANGED <<wfd, wreq>>
                       ELSE Return(w)
  /\ UNCHANGED <<reactor, queued, crashed, clients, inbox>>

(* working decodes the request and has secMngArrange write the answer;     *)
(* "fatal" says that this ends the process.                                *)
HandleRequest(w, fatal) ==
  /\ ~crashed /\ pc[w] = "decode"
  /\ crashed' = fatal
  /\ wfd' = [wfd EXCEPT ![w] = None]
  /\ Goto(w, "answer")
  /\ UNCHANGED <<kernel, reactor, queued, wreq, clients, inbox>>

(* msgDecode follows pointers that unpacking junk never set.               *)
Decode(w) == HandleRequest(w, wreq[w] \notin Client)

\* Mutant of SendAnswer: the answer may be sent again.
SendAnswerAgain(w) ==
  /\ ~crashed /\ pc[w] = "send"
  /\ \/ Send(w, wreq[w])
     \/ Sends(wfd[w], wreq[w]) /\ UNCHANGED <<pc, wfd, wreq>>
  /\ UNCHANGED <<reactor, queued, clients>>

SendAnswer(w) ==
  /\ ~crashed /\ pc[w] = "send"
  /\ Send(w, wreq[w])
  /\ UNCHANGED <<reactor, queued, clients>>

WorkerStep(w) == \/ TakeTask(w) \/ ReadFd(w) \/ RecvHeader(w) \/ AnswerBeat(w)
                 \/ RecvBody(w) \/ RecvRest(w) \/ Unwatch(w) \/ Shut(w)
                 \/ Decode(w) \/ SendAnswer(w)
ReactorStep   == Wait \/ Dispatch \/ AddTask \/ \E c \in Client : Accept(c)
ClientStep(c) == \/ ClientRequest(c) \/ ClientBody(c) \/ ClientBeat(c)
                 \/ ClientLeave(c)

Next == \/ ReactorStep
        \/ \E w \in Worker : WorkerStep(w)
        \/ \E c \in Client : ClientStep(c)

Spec == Init /\ [][Next]_vars

-----------------------------------------------------------------------------
(* Properties                                                              *)

(* Kernel, reactor and workers hold values of their types, and a descriptor*)
(* is a client's only one.                                                 *)
TypeOK ==
  /\ peer \in [Fd -> Client \cup {None}]
  /\ \A f, g \in Fd : peer[f] = peer[g] /\ peer[f] # None => f = g
  /\ stream \in [Fd -> Seq({"header", Empty} \cup Client)]
  /\ far \in [Fd -> {"open", "fin", "rst"}]
  /\ ready \subseteq watched /\ watched \subseteq {f \in Fd : peer[f] # None}
  /\ batch \subseteq Fd
  /\ ep_fd \in Fd \cup {None} /\ adding \in BOOLEAN
  /\ queued \in 0 .. QueueMax
  /\ pc \in [Worker -> {"idle", "enter", "header", "beat", "body", "rest",
                        "decode", "answer", "send", "del", "shut"}]
  /\ wfd \in [Worker -> Fd \cup {None}]
  /\ wreq \in [Worker -> Client \cup {None, Junk, Empty, "header"}]
  /\ crashed \in BOOLEAN
  /\ mode \in [Client -> {"new", "open", "left"}]
  /\ \A c \in Client : inbox[c] \in Seq(Client \cup {Empty})

(* serverop.cpp:48: the answer goes back to the client whose request was   *)
(* read; it never reaches another one.                                     *)
AnswerGoesBack == \A c, d \in Client : c # d => Answers(c, d) = 0

(* However many workers wake up for one descriptor, a request is answered  *)
(* at most once: each answer anywhere stands for one request of its owner. *)
Places(seqs, v) ==   \* where v stands in some of the sequences
  UNION {{x} \X {i \in DOMAIN seqs[x] : seqs[x][i] = v} : x \in DOMAIN seqs}

AnsweredAtMostOnce ==
  \A c \in Client : Cardinality(Places(inbox, c)) <= Requests - toSend[c].req

(* The reactor, which blocks in threadpool_add while the queue is full, is *)
(* never left there: some worker can go on, for none waits for a client,   *)
(* not even for one that announced a body and never sends it.              *)
ReactorReleased ==
  adding /\ ~RoomInQueue /\ ~crashed => \E w \in Worker : ENABLED WorkerStep(w)
=============================================================================
