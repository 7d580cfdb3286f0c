---------------------------- MODULE MsgExchange ----------------------------
(***************************************************************************)
(* A message of MsgCodec on its way from one program to the other.         *)
(*                                                                         *)
(* Generation 2 sends it through TcpSocket.cpp: its length in four bytes,  *)
(* then its bytes, over a stream that takes and gives them in any pieces.  *)
(* The client connects (connectToHost, with a timeout, on a socket that is *)
(* made non-blocking for the while), the sender calls sendMsg and the      *)
(* receiver recvMsg.  An answer travels over the connection that the       *)
(* client made before.  The callers look at no return code: a client that  *)
(* could not connect sends all the same.  Only the first byte of a message *)
(* is waited for with a timeout.  A call that a signal interrupts is made  *)
(* again.                                                                  *)
(*                                                                         *)
(* The bytes of generation 1 travel in KeyArrangement, with its server;    *)
(* here they arrive.                                                       *)
(***************************************************************************)
EXTENDS MsgCodec

CONSTANTS
  Cut,    \* the messages whose bytes travel in pieces, and for which things fail
  CutAt,  \* the places in their stream where a piece may end before it has to
  Room    \* how many bytes may be on their way

ASSUME ExchangeAssumption ==
  Cut \subseteq Message /\ CutAt \subseteq Nat /\ Room \in Nat \ {0}

VARIABLES
  conn,      \* the connection: "none", "trying", "up", "failed"
  blocking,  \* the client's socket is blocking
  cpc,       \* the client in connectToHost: "idle", "select", "done"
  spc,       \* the sender in sendMsg: "idle", "write", then Sent
  written,   \* how many bytes it has written
  fin,       \* the sender's side is closed
  rpc,       \* the receiver in recvMsg: "wait", "head", "body", then Returned
  taken,     \* how many bytes it has read
  reach,     \* how many bytes the network still delivers
  fault      \* something outside of both programs has failed

clientVars == <<conn, blocking, cpc>>
sendVars == <<spc, written, fin>>
recvVars == <<rpc, taken>>
netVars == <<reach, fault>>
evars == <<vars, clientVars, sendVars, recvVars, netVars>>

Sent == {"sent", "timeout", "error", "dead"}
Returned == {"ok", "timeout", "closed", "error"}

Message0 == [generation |-> generation, type |-> type, fields |-> msg]
IsCut == Message0 \in Cut
Everything == 100000   \* more bytes than any message has

ExchangeInit ==
  /\ Init
  /\ conn = "none" /\ blocking = TRUE /\ cpc = "idle"
  /\ spc = "idle" /\ written = 0 /\ fin = FALSE
  /\ rpc = "wait" /\ taken = 0
  /\ reach = Everything /\ fault = FALSE

\* Everything an action outside of the codecs leaves alone.
InSocket == generation = 2 /\ UNCHANGED vars
\* Something that need not happen.
Fails == IsCut /\ fault' = TRUE
NoFault == UNCHANGED netVars

MinOf(a, b) == IF a <= b THEN a ELSE b
\* Where a call that starts at one place and can reach another may end.
Ends(from, to) == {to} \cup (IF IsCut THEN {p \in CutAt : from < p /\ p < to} ELSE {})

-----------------------------------------------------------------------------
(* The client: connectToHost, connectTimeout                               *)

(* A client connects when it has its request, and before it gets an answer.*)
MayConnect == cpc = "idle" /\ pc = (IF type = "request" THEN "sent" ELSE "create")

\* Mutant of AfterConnect: noBlockIO is forgotten.
AfterConnectStays == cpc' = "done" /\ blocking' = FALSE
AfterConnect == cpc' = "done" /\ blocking' = TRUE

(* connect returns at once, with a connection or without.                  *)
ConnectNow ==
  /\ InSocket /\ MayConnect
  /\ \/ conn' = "up" /\ NoFault
     \/ conn' = "failed" /\ Fails /\ UNCHANGED reach
  /\ AfterConnect
  /\ UNCHANGED <<sendVars, recvVars>>

(* EINPROGRESS: the socket is non-blocking since blockIO.                  *)
ConnectLater ==
  /\ InSocket /\ MayConnect
  /\ conn' = "trying" /\ blocking' = FALSE /\ cpc' = "select"
  /\ UNCHANGED <<sendVars, recvVars>> /\ NoFault

(* select finds the socket writable: connected, or with an error, which    *)
(* getsockopt fetches.                                                     *)
ConnectReady ==
  /\ InSocket /\ cpc = "select" /\ conn # "trying"
  /\ AfterConnect
  /\ UNCHANGED <<conn, sendVars, recvVars>> /\ NoFault

ConnectTimesOut ==
  /\ InSocket /\ cpc = "select" /\ conn = "trying" /\ Fails
  /\ AfterConnect
  /\ UNCHANGED <<conn, sendVars, recvVars, reach>>

(* select fails, and connectTimeout returns before noBlockIO.              *)
ConnectSelectFails ==
  /\ InSocket /\ cpc = "select" /\ Fails
  /\ cpc' = "done"
  /\ UNCHANGED <<conn, blocking, sendVars, recvVars, reach>>

\* The kernel.
Established ==
  /\ InSocket /\ conn = "trying"
  /\ conn' = "up"
  /\ UNCHANGED <<blocking, cpc, sendVars, recvVars>> /\ NoFault

Refused ==
  /\ InSocket /\ conn = "trying" /\ Fails
  /\ conn' = "failed"
  /\ UNCHANGED <<blocking, cpc, sendVars, recvVars, reach>>

-----------------------------------------------------------------------------
(* The sender: sendMsg, writeTimeout, writen                               *)

(* htonl: the most significant byte first.                                 *)
NetLen == [i \in 1 .. 4 |-> Digit(Len(wire), 4 - i)]
Stream == NetLen \o wire

MaySend == spc = "idle" /\ pc = "sent" /\ cpc = "done"
WriterBlocks == type = "respond" \/ blocking
ReaderGone == rpc \in Returned \ {"ok"}

SendReady ==
  /\ InSocket /\ MaySend /\ conn # "trying"
  /\ spc' = "write"
  /\ UNCHANGED <<written, fin, clientVars, recvVars>> /\ NoFault

(* Nobody has answered the connection, and the socket is never writable.   *)
SendTimesOut ==
  /\ InSocket /\ MaySend /\ conn = "trying" /\ Fails
  /\ spc' = "timeout"
  /\ UNCHANGED <<written, fin, clientVars, recvVars, reach>>

(* select or malloc fails.                                                 *)
SendFails ==
  /\ InSocket /\ MaySend /\ Fails
  /\ spc' = "error"
  /\ UNCHANGED <<written, fin, clientVars, recvVars, reach>>

FreeRoom == Room - (written - taken)

Write ==
  /\ InSocket /\ spc = "write" /\ conn = "up" /\ FreeRoom > 0
  /\ \E end \in Ends(written, MinOf(written + FreeRoom, Len(Stream))) :
       /\ written' = end
       /\ spc' = IF end = Len(Stream) THEN "sent" ELSE "write"
  /\ UNCHANGED <<fin, clientVars, recvVars>> /\ NoFault

(* EAGAIN is an error to writen.                                           *)
WriteWouldBlock ==
  /\ InSocket /\ spc = "write" /\ conn = "up" /\ FreeRoom = 0 /\ ~WriterBlocks
  /\ spc' = "error"
  /\ UNCHANGED <<written, fin, clientVars, recvVars>> /\ NoFault

(* A connection that failed, or that its other end has left, raises SIGPIPE*)
(* or, once, an error; one that the network has lost times out.            *)
WriteBroken ==
  /\ InSocket /\ spc = "write"
  /\ conn = "failed" \/ ReaderGone \/ reach # Everything
  /\ spc' \in {"error", "dead"}
  /\ UNCHANGED <<written, fin, clientVars, recvVars>> /\ NoFault

SenderKilled ==
  /\ InSocket /\ spc = "write" /\ Fails
  /\ spc' = "dead"
  /\ UNCHANGED <<written, fin, clientVars, recvVars, reach>>

(* disConnect, or the end of the process: a server closes when it has sent,*)
(* a client when it has its answer or has waited TIMEOUT for it.           *)
SenderCloses ==
  /\ InSocket /\ spc \in Sent /\ ~fin
  /\ fin' = TRUE
  /\ UNCHANGED <<spc, written, clientVars, recvVars>> /\ NoFault

-----------------------------------------------------------------------------
(* The receiver: recvMsg, readTimeout, readn                               *)

(* A server reads when it has accepted, a client when it has connected.    *)
MayReceive == rpc = "wait" /\ conn = "up" /\ (type = "respond" => cpc = "done")
ReaderBlocks == type = "request" \/ blocking

Arrived == MinOf(written, reach) - taken
AtEnd == Arrived = 0 /\ fin /\ reach = Everything

RecvReady ==
  /\ InSocket /\ MayReceive /\ (Arrived > 0 \/ AtEnd)
  /\ rpc' = "head"
  /\ UNCHANGED <<taken, clientVars, sendVars>> /\ NoFault

(* Nothing came in time; an error of select is reported as a timeout, too. *)
RecvTimesOut ==
  /\ InSocket /\ MayReceive /\ Fails
  /\ rpc' = "timeout"
  /\ UNCHANGED <<taken, clientVars, sendVars, reach>>

Announced == SubSeq(Stream, 1, 4)
Size == Announced[1] * 256 ^ 3 + Announced[2] * 256 ^ 2 + Announced[3] * 256 + Announced[4]
Goal == IF rpc = "head" THEN 4 ELSE 4 + Size

(* readn reads on until it has all the bytes.                              *)
Read ==
  /\ InSocket /\ rpc \in {"head", "body"} /\ Arrived > 0
  /\ \E end \in Ends(taken, MinOf(taken + Arrived, Goal)) :
       /\ taken' = end
       /\ rpc' = IF end < Goal THEN rpc ELSE IF rpc = "head" THEN "body" ELSE "ok"
  /\ UNCHANGED <<clientVars, sendVars>> /\ NoFault

\* Mutant of ReadEnd: an end of the stream is tried again, as writen does.
ReadEndAgain ==
  /\ InSocket /\ rpc \in {"head", "body"} /\ AtEnd
  /\ UNCHANGED <<rpc, taken, clientVars, sendVars>> /\ NoFault

(* The stream ends before the message does.                                *)
ReadEnd ==
  /\ InSocket /\ rpc \in {"head", "body"} /\ AtEnd
  /\ rpc' = "closed"
  /\ UNCHANGED <<taken, clientVars, sendVars>> /\ NoFault

ReadWouldBlock ==
  /\ InSocket /\ rpc \in {"head", "body"} /\ Arrived = 0 /\ ~AtEnd /\ ~ReaderBlocks
  /\ rpc' = "error"
  /\ UNCHANGED <<taken, clientVars, sendVars>> /\ NoFault

(* malloc of the body fails.                                               *)
RecvNoMemory ==
  /\ InSocket /\ rpc = "body" /\ taken = 4 /\ Fails
  /\ rpc' = "error"
  /\ UNCHANGED <<taken, clientVars, sendVars, reach>>

\* The network: what is on its way is lost, or only what comes after it.
Lost ==
  /\ InSocket /\ conn = "up" /\ reach = Everything /\ Fails
  /\ reach' \in {taken, written}
  /\ UNCHANGED <<clientVars, sendVars, recvVars>>

-----------------------------------------------------------------------------
(* The codecs at both ends                                                 *)

\* A server encodes its answer when the client is connected.
MayEncode == generation = 1 \/ type = "request" \/ (conn = "up" /\ cpc = "done")

Exchange ==
  /\ \/ Encode /\ MayEncode
     \/ Unpack1
     \/ rpc = "ok" /\ Unpack2(SubSeq(Stream, 5, taken))
     \/ Decode
  /\ UNCHANGED <<clientVars, sendVars, recvVars, netVars>>

Connect == ConnectNow \/ ConnectLater \/ ConnectReady \/ Established
Send == SendReady \/ Write \/ WriteWouldBlock \/ WriteBroken \/ SenderCloses
Recv == RecvReady \/ Read \/ ReadEnd \/ ReadWouldBlock

Progress == Exchange \/ Connect \/ Send \/ Recv

Fault == \/ ConnectTimesOut \/ ConnectSelectFails \/ Refused
         \/ SendTimesOut \/ SendFails \/ SenderKilled
         \/ RecvTimesOut \/ RecvNoMemory \/ Lost

ExchangeSpec == ExchangeInit /\ [][Progress \/ Fault]_evars /\ WF_evars(Progress)

-----------------------------------------------------------------------------
(* Properties                                                              *)

(* sendMsg and recvMsg report an error only if something outside of both   *)
(* programs failed: no piece that comes late or short, and no step of the  *)
(* connection, is taken for one.                                           *)
NoFalseError == ~fault => /\ spc \notin Sent \ {"sent"}
                          /\ rpc \notin Returned \ {"ok"}
                          /\ conn # "failed"

(* TcpSocket.cpp:185: the body is read without a timeout.  A receiver that *)
(* has begun to read returns, even if the sender fails or dies in the      *)
(* middle of the message, unless the network loses the connection.         *)
RecvReturns == (rpc \in {"head", "body"}) ~> (rpc \in Returned \/ reach # Everything)
=============================================================================
