--------------------------- MODULE MCMsgExchange ---------------------------
(***************************************************************************)
(* The messages MsgExchange is checked with, and the operations of         *)
(* BaseASN1 that no codec uses, on a few strings.                          *)
(***************************************************************************)
EXTENDS MsgExchange

SmallInt(n) == <<0, 0, n \div 256, n % 256>>

\* A string of the program with its final zero, n bytes in all.
Str(n) == [i \in 1 .. n |-> IF i = n THEN 0 ELSE 65 + (i % 26)]

\* clientId and serverId are char[12].
IdLength == {2, 3, 8, 9, 11, 12}

Request(auth, random) ==
  {[cmdType |-> SmallInt(t), clientId |-> Str(c), authCode |-> Str(a),
    serverId |-> Str(s), r1 |-> Str(r)] :
     t \in {1, 4}, c \in IdLength, a \in auth, s \in IdLength, r \in random}

Respond(ints, random, keyid) ==
  {[rv |-> i, clientId |-> Str(c), serverId |-> Str(s), r2 |-> Str(r), seckeyid |-> n] :
     i \in ints, c \in IdLength, s \in IdLength, r \in random, n \in keyid}

\* Numbers on both sides of every size an integer can have on the wire.
KeyIds ==
  {<<0, 0, 0, 0>>, <<0, 0, 0, 100>>, <<0, 0, 0, 127>>, <<0, 0, 0, 128>>,
   <<0, 0, 0, 255>>, <<0, 0, 1, 0>>, <<0, 0, 127, 255>>, <<0, 0, 128, 0>>,
   <<0, 0, 255, 255>>, <<0, 1, 0, 0>>, <<0, 127, 255, 255>>, <<0, 128, 0, 0>>,
   <<0, 255, 255, 255>>, <<1, 0, 0, 0>>, <<127, 255, 255, 255>>}

Success == {SmallInt(0)}
Failure == {<<255, 255, 255, 255>>, <<255, 255, 255, 254>>}

\* What a seckeyid that nobody has set can hold.
AnyKeyId == {SmallInt(0), <<255, 255, 255, 255>>, <<128, 0, 0, 0>>}

\* Generation 1: 30 random letters; the authentication code is an MD5 in hex,
\* and "%02x" of a negative char prints eight digits: the last one may too.
Requests1 == Request({33, 39}, {31})
\* Generation 2: 63 random characters, an HMAC-MD5 in hex.
Requests2 == Request({33}, {64})

Sends(g, t, structs) == {[generation |-> g, type |-> t, fields |-> s] : s \in structs}

\* An answer of generation 1 may report a failure, with a key number that is unset.
Messages ==
  Sends(1, "request", Requests1) \cup Sends(2, "request", Requests2)
  \cup Sends(1, "respond", Respond(Success \cup Failure, {31}, AnyKeyId \cup KeyIds))
  \cup Sends(2, "respond", Respond(Success, {64}, KeyIds))

\* One request and one answer.
CutMessages ==
  {m \in Messages :
     /\ m.generation = 2 /\ m.fields.clientId = Str(2) /\ m.fields.serverId = Str(2)
     /\ m.type = "request" => m.fields.cmdType = SmallInt(1)
     /\ m.type = "respond" => m.fields.seckeyid = SmallInt(100)}

Strings == {Str(n) : n \in {1, 7, 8, 127, 128, 255, 256}}

\* What the operations that no codec uses promise.
ASSUME LibraryRoundTrip ==
  \A s \in Strings :
    /\ DecodeChar(EncodeChar(s)) = s
    /\ DecodeUnsignedChar(EncodeUnsignedChar(s)) = s
    /\ ReadCharString(WriteCharString(StringToAnyBuf(s))).pData = s
    /\ ReadBmpString(WriteBmpString(StringToAnyBuf(s))).pData = s

ASSUME LibraryNull ==
  /\ ReadNull(WriteNull)
  /\ \A s \in Strings : ~ReadNull(EncodeChar(s))
  /\ ReadSequence(WriteNullSequence) = <<WriteNull>>
=============================================================================
