------------------------- MODULE MsgExchangeProofs -------------------------
(***************************************************************************)
(* Theorems about MsgExchange, for every message of either struct, for     *)
(* every choice of the pieces it travels in and under the faults of the    *)
(* model: what is decoded is what was encoded, what is sent is DER, only a *)
(* negative int ends a codec, and only a fault ends sendMsg or recvMsg with*)
(* an error.                                                               *)
(*                                                                         *)
(* The invariant has three parts.  CInv says of the codecs how much of the *)
(* chain is there for each pc, and that the receiver's chain is the one    *)
(* whose bytes were sent; DerCodecProofs says what is read from it.  SInv  *)
(* says of the socket how far the stream is written and read, so that what *)
(* recvMsg returns is what sendMsg was given.  FInv says how far connection*)
(* and calls are if nothing failed.                                        *)
(***************************************************************************)
EXTENDS MsgExchange, DerCodecProofs

(* An int that is not written: it is negative.                             *)
Negative(f) == IsInt(f) /\ ~(msg[f][1] < 128)

(* The node of a field.                                                    *)
NodeFor(f) ==
  IF IsInt(f) THEN WriteInteger(SignExtend(msg[f]))
  ELSE IF generation = 1 THEN WriteBitString(StringToAnyBuf(msg[f]))
  ELSE EncodeChar(msg[f])

Nodes1(n) == [i \in 1 .. n |-> NodeFor(Layout[i])]
Nodes2(n) == [i \in 1 .. n |-> NodeOf(NodeFor(Layout[i]).pData)]

(* How many fields are written, if the first one is.                       *)
Count == IF Negative(Layout[5]) THEN 4 ELSE 5

Struct == IF type = "request" THEN RequestStruct ELSE RespondStruct

(* The message is one of the structs.                                      *)
Typed ==
  /\ generation \in {1, 2} /\ type \in {"request", "respond"} /\ msg \in Struct
  /\ pc \in {"create", "write", "pack", "sent", "read", "done", "crash"}

(* The sender's chain, and the bytes it is packed into.                    *)
Writes ==
  /\ pc # "create" => m_msg = msg
  /\ pc = "create" => k = 1
  /\ pc \in {"create", "write", "pack"} => wire = << >>
  /\ pc = "write" => k \in {1, 2, 3, 4, 5}
  /\ pc = "create" \/ (pc = "write" /\ k = 1) => nodes = << >>
  /\ pc = "write" /\ k # 1 /\ m_next => ~Negative(Layout[1]) /\ nodes = Nodes1(k - 1)
  /\ pc = "write" /\ k # 1 /\ ~m_next => Negative(Layout[1])
  /\ pc \in {"pack", "sent"} => ~Negative(Layout[1]) /\ nodes = Nodes1(Count)
  /\ pc = "sent" => wire = WriteSequence(Nodes1(Count)).pData

(* The receiver's chain, and the fields that were read from it.            *)
Reads ==
  /\ out \in [DOMAIN msg -> Seq(Byte)]
  /\ pc = "read" => k \in {1, 2, 3, 4, 5}
  /\ pc \in {"read", "done"} => ~Negative(Layout[1]) /\ nodes = Nodes2(Count)
  /\ pc = "read" => \A j \in {1, 2, 3, 4, 5} : j < k => out[Layout[j]] = msg[Layout[j]]

CInv == Typed /\ Writes /\ Reads /\ RoundTrip /\ WireIsDer /\ OnlyNegativeFails

(* A message is short, so that its length needs two bytes.                 *)
Bytes2 == wire \in Seq(Byte) /\ Len(wire) <= 504

SInv ==
  /\ Bytes2
  /\ spc \in {"idle", "write"} \cup Sent
  /\ rpc \in {"wait", "head", "body"} \cup Returned
  /\ written \in Nat /\ taken \in Nat /\ reach \in Nat
  /\ spc # "idle" => wire # << >>
  /\ spc = "idle" => written = 0
  /\ written <= 4 + Len(wire)
  /\ fin => spc \in Sent
  /\ rpc # "wait" /\ rpc # "timeout" => spc # "idle"
  /\ rpc = "wait" => taken = 0
  /\ rpc = "head" => taken < 4
  /\ rpc = "body" => 4 <= taken /\ taken < 4 + Len(wire)
  /\ rpc = "ok" => taken = 4 + Len(wire)

(* As long as nothing outside of the programs failed.                      *)
FInv ==
  ~fault =>
    /\ reach = Everything
    /\ cpc \in {"idle", "select", "done"}
    /\ cpc = "idle" => conn = "none"
    /\ cpc = "select" => conn \in {"trying", "up"}
    /\ cpc = "done" => conn = "up" /\ blocking
    /\ spc # "idle" => cpc = "done"
    /\ rpc \in {"head", "body"} /\ type = "respond" => cpc = "done"
    /\ spc = "sent" => written = 4 + Len(wire)
    /\ NoFalseError

EInv == CInv /\ SInv /\ FInv

-----------------------------------------------------------------------------
(* The struct that is sent.                                                *)
Numbers == {1, 2, 3, 4, 5}

LEMMA OrderIs ==
  ASSUME Typed
  PROVE  /\ EncodeOrder = Layout /\ DecodeOrder = Layout /\ Len(Layout) = 5
         /\ \A i, j \in Numbers : Layout[i] = Layout[j] => i = j
         /\ \A j \in Numbers : IsInt(Layout[j]) => j \in {1, 5}
         /\ IsInt(Layout[1])
         /\ DOMAIN msg = {Layout[j] : j \in Numbers}
<1>1. generation = 1 \/ generation = 2
  BY DEF Typed
<1>2. CASE type = "request"
  <2>1. Layout = <<"cmdType", "clientId", "authCode", "serverId", "r1">>
    BY <1>2 DEF Layout, RequestMsg
  <2>2. EncodeOrder = Layout /\ DecodeOrder = Layout
    BY <1>1, <1>2, <2>1 DEF EncodeOrder, DecodeOrder, RequestEncode1, RequestEncode2,
       RequestDecode1, RequestDecode2
  <2>3. Len(Layout) = 5
    BY <2>1
  <2>4. \A i, j \in Numbers : Layout[i] = Layout[j] => i = j
    BY <2>1 DEF Numbers
  <2>5. \A j \in Numbers : IsInt(Layout[j]) => j \in {1, 5}
    BY <2>1 DEF Numbers, IsInt
  <2>6. IsInt(Layout[1])
    BY <2>1 DEF IsInt
  <2>7. DOMAIN msg = {"cmdType", "clientId", "authCode", "serverId", "r1"}
    BY <1>2 DEF Typed, Struct, RequestStruct
  <2>8. DOMAIN msg = {Layout[j] : j \in Numbers}
    BY <2>1, <2>7 DEF Numbers
  <2> QED
    BY <2>2, <2>3, <2>4, <2>5, <2>6, <2>8
<1>3. CASE type = "respond"
  <2>1. Layout = <<"rv", "clientId", "serverId", "r2", "seckeyid">>
    BY <1>3 DEF Layout, RespondMsg
  <2>2. EncodeOrder = Layout /\ DecodeOrder = Layout
    BY <1>1, <1>3, <2>1 DEF EncodeOrder, DecodeOrder, RespondEncode1, RespondEncode2,
       RespondDecode1, RespondDecode2
  <2>3. Len(Layout) = 5
    BY <2>1
  <2>4. \A i, j \in Numbers : Layout[i] = Layout[j] => i = j
    BY <2>1 DEF Numbers
  <2>5. \A j \in Numbers : IsInt(Layout[j]) => j \in {1, 5}
    BY <2>1 DEF Numbers, IsInt
  <2>6. IsInt(Layout[1])
    BY <2>1 DEF IsInt
  <2>7. DOMAIN msg = {"rv", "clientId", "serverId", "r2", "seckeyid"}
    BY <1>3 DEF Typed, Struct, RespondStruct
  <2>8. DOMAIN msg = {Layout[j] : j \in Numbers}
    BY <2>1, <2>7 DEF Numbers
  <2> QED
    BY <2>2, <2>3, <2>4, <2>5, <2>6, <2>8
<1> QED
  BY <1>2, <1>3 DEF Typed

LEMMA ValueIs ==
  ASSUME Typed, NEW f \in DOMAIN msg
  PROVE  /\ IsInt(f) => msg[f] \in Int32
         /\ ~IsInt(f) => msg[f] \in Seq(Byte) /\ msg[f] # << >> /\ Len(msg[f]) <= 65
         /\ msg[f] \in Seq(Byte)
         /\ msg = [g \in DOMAIN msg |-> msg[g]]
<1>1. msg = [g \in DOMAIN msg |-> msg[g]]
  BY DEF Typed, Struct, RequestStruct, RespondStruct
<1>2. /\ IsInt(f) => msg[f] \in Int32
      /\ ~IsInt(f) => msg[f] \in CharArray(12) \/ msg[f] \in CharArray(64) \/ msg[f] \in CharArray(65)
  BY DEF Typed, Struct, RequestStruct, RespondStruct, IsInt
<1>3. ASSUME NEW n \in {12, 64, 65}, NEW s \in CharArray(n)
      PROVE s \in Seq(Byte) /\ s # << >> /\ Len(s) <= 65
  <2>1. s \in Seq(Byte) /\ s # << >> /\ Len(s) <= n
    BY DEF CharArray
  <2>2. Len(s) \in Nat
    BY <2>1, LenProperties
  <2> QED
    BY <2>1, <2>2, SMT
<1>4. IsInt(f) => msg[f] \in Seq(Byte)
  BY <1>2, IntIsBytes
<1>5. ~IsInt(f) => msg[f] \in Seq(Byte) /\ msg[f] # << >> /\ Len(msg[f]) <= 65
  BY <1>2, <1>3
<1> QED
  BY <1>1, <1>2, <1>4, <1>5

-----------------------------------------------------------------------------
(* The nodes of the fields.                                                *)

\* What the receiver reads at a node.
ReadAt(f, node) ==
  IF IsInt(f) THEN IntOf(node)
  ELSE IF generation = 1 THEN ReadBitString(node).pData
  ELSE ReadPrintableString(node).pData

\* A node the sender can append, and what becomes of it.
Fit(f, node) ==
  /\ node # Failed
  /\ node.pData \in Pieces /\ Len(node.pData) <= 100
  /\ node.dataType = INTEGER => IsDerInteger(node.pData)
  /\ NodeOf(node.pData).dataType = INTEGER => IsDerInteger(node.pData)
  /\ ReadAt(f, NodeOf(node.pData)) = msg[f]

LEMMA NodeIsFit ==
  ASSUME Typed, NEW f \in DOMAIN msg, ~Negative(f)
  PROVE  Fit(f, NodeFor(f))
<1>1. CASE IsInt(f)
  <2> DEFINE i == msg[f]
  <2>1. i \in Int32 /\ i[1] < 128
    BY <1>1, ValueIs DEF Negative
  <2>2. NodeFor(f) = WriteInteger(SignExtend(i))
    BY <1>1 DEF NodeFor
  <2> HIDE DEF i
  <2> DEFINE node == WriteInteger(SignExtend(i))
  <2>3. /\ node # Failed /\ node.pData \in Pieces /\ Len(node.pData) <= 100
        /\ IsDerInteger(node.pData)
        /\ LastBytes(ReadInteger(NodeOf(node.pData)), 4) = i
    BY <2>1, IntegerNode
  <2> HIDE DEF node
  <2>4. NodeFor(f) = node
    BY <2>2 DEF node
  <2>5. ReadAt(f, NodeOf(node.pData)) = i
    BY <1>1, <2>3 DEF ReadAt, IntOf
  <2> QED
    BY <2>3, <2>4, <2>5 DEF Fit, i
<1>2. CASE ~IsInt(f) /\ generation = 1
  <2> DEFINE s == msg[f]
  <2>1. s \in Seq(Byte) /\ Len(s) <= 65
    BY <1>2, ValueIs
  <2>2. NodeFor(f) = WriteBitString(StringToAnyBuf(s))
    BY <1>2 DEF NodeFor
  <2> HIDE DEF s
  <2>3. Len(s) \in Nat
    BY <2>1, LenProperties
  <2>4. Len(s) + 1 \in Sizes
    BY <2>1, <2>3, SMT DEF Sizes
  <2> DEFINE node == WriteBitString(StringToAnyBuf(s))
  <2>5. /\ node # Failed /\ node.dataType # INTEGER
        /\ node.pData \in Pieces /\ Len(node.pData) <= Len(s) + 5
        /\ NodeOf(node.pData).dataType # INTEGER
        /\ ReadBitString(NodeOf(node.pData)).pData = s
    BY <2>1, <2>4, BitStringNode
  <2> HIDE DEF node
  <2>6. Len(node.pData) <= 100
    <3>1. Len(node.pData) \in Nat
      BY <2>5, PieceIsRead, EmptySeq
    <3> QED
      BY <2>1, <2>3, <2>5, <3>1, SMT
  <2>7. NodeFor(f) = node
    BY <2>2 DEF node
  <2>8. ReadAt(f, NodeOf(node.pData)) = s
    BY <1>2, <2>5 DEF ReadAt
  <2> QED
    BY <2>5, <2>6, <2>7, <2>8 DEF Fit, s
<1>3. CASE ~IsInt(f) /\ generation # 1
  <2> DEFINE s == msg[f]
  <2>1. s \in Seq(Byte) /\ Len(s) <= 65
    BY <1>3, ValueIs
  <2>2. NodeFor(f) = EncodeChar(s)
    BY <1>3 DEF NodeFor
  <2> HIDE DEF s
  <2>3. Len(s) \in Nat
    BY <2>1, LenProperties
  <2>4. Len(s) \in Sizes
    BY <2>1, <2>3, SMT DEF Sizes
  <2> DEFINE node == EncodeChar(s)
  <2>5. /\ node # Failed /\ node.dataType # INTEGER
        /\ node.pData \in Pieces /\ Len(node.pData) <= Len(s) + 4
        /\ NodeOf(node.pData).dataType # INTEGER
        /\ DecodeChar(NodeOf(node.pData)) = s
    BY <2>1, <2>4, CharStringNode
  <2> HIDE DEF node
  <2>6. Len(node.pData) <= 100
    <3>1. Len(node.pData) \in Nat
      BY <2>5, PieceIsRead, EmptySeq
    <3> QED
      BY <2>1, <2>3, <2>5, <3>1, SMT
  <2>7. NodeFor(f) = node
    BY <2>2 DEF node
  <2>8. ReadAt(f, NodeOf(node.pData)) = s
    BY <1>3, <2>5 DEF ReadAt, DecodeChar
  <2> QED
    BY <2>5, <2>6, <2>7, <2>8 DEF Fit, s
<1> QED
  BY <1>1, <1>2, <1>3

LEMMA NegativeFails ==
  ASSUME Typed, NEW f \in DOMAIN msg, Negative(f)
  PROVE  NodeFor(f) = Failed
<1>1. IsInt(f) /\ msg[f] \in Int32 /\ ~(msg[f][1] < 128)
  BY ValueIs DEF Negative
<1> QED
  BY <1>1, NegativeIsRefused DEF NodeFor

\* The fields that are written.
LEMMA Positive ==
  ASSUME Typed, ~Negative(Layout[1])
  PROVE  /\ Count \in {4, 5}
         /\ \A j \in 1 .. Count : /\ j \in Numbers /\ Layout[j] \in DOMAIN msg
                                  /\ ~Negative(Layout[j])
                                  /\ Fit(Layout[j], NodeFor(Layout[j]))
<1>1. Count \in {4, 5}
  BY DEF Count
<1>2. ASSUME NEW j \in 1 .. Count PROVE j \in Numbers /\ ~Negative(Layout[j])
  <2>1. j \in Numbers /\ (j = 5 => Count = 5)
    BY <1>1, SMT DEF Numbers
  <2>2. j \in {1, 5} => ~Negative(Layout[j])
    <3>1. Count = 5 => ~Negative(Layout[5])
      BY DEF Count
    <3> QED
      BY <2>1, <3>1
  <2>3. j \notin {1, 5} => ~IsInt(Layout[j])
    BY <2>1, OrderIs
  <2> QED
    BY <2>1, <2>2, <2>3 DEF Negative
<1>3. ASSUME NEW j \in 1 .. Count PROVE Layout[j] \in DOMAIN msg
  BY <1>2, OrderIs
<1> QED
  BY <1>1, <1>2, <1>3, NodeIsFit

\* What is sent, and the chain that is unpacked from it.
LEMMA SentIs ==
  ASSUME Typed, ~Negative(Layout[1])
  PROVE  LET w == WriteSequence(Nodes1(Count)).pData IN
         /\ w \in Seq(Byte) /\ w # << >> /\ Len(w) <= 504 /\ IsDerLength(w)
         /\ Unpacked(w) = Nodes2(Count)
<1> DEFINE n == Count
           ps == Bytes(Nodes1(Count))
           w == WriteSequence(Nodes1(Count)).pData
<1>1. n \in Nat /\ n <= 5
  BY Positive, SMT
<1>2. ps = [i \in 1 .. n |-> NodeFor(Layout[i]).pData]
  BY DEF Bytes, Nodes1
<1>3. \A i \in 1 .. n : NodeFor(Layout[i]).pData \in Pieces /\ Len(NodeFor(Layout[i]).pData) <= 100
  BY Positive DEF Fit
<1> HIDE DEF n, ps
<1>4. ps \in [1 .. n -> Pieces] /\ \A i \in 1 .. n : ps[i] = NodeFor(Layout[i]).pData
  BY <1>2, <1>3
<1>5. ps \in Seq(Pieces) /\ Len(ps) = n
  BY <1>1, <1>4, FunctionIsSeq
<1>6. Len(FlattenSeq(ps)) \in Nat /\ Len(FlattenSeq(ps)) <= 500
  <2>1. ps \in Seq(Seq(Byte))
    <3>1. Pieces \subseteq Seq(Byte)
      BY PieceIsRead, EmptySeq
    <3> QED
      BY <1>5, <3>1, SeqOfSubset
  <2>2. \A i \in 1 .. n : Len(ps[i]) <= 100
    BY <1>3, <1>4
  <2>3. Len(FlattenSeq(ps)) <= 100 * n
    BY <1>1, <1>5, <2>1, <2>2, FlattenBound
  <2>4. Len(FlattenSeq(ps)) \in Nat
    BY <1>5, NodesOfPieces, LenProperties
  <2> QED
    BY <1>1, <2>3, <2>4, SMT
<1>7. Len(FlattenSeq(ps)) \in Sizes
  BY <1>6, SMT DEF Sizes
<1>8. /\ w \in Seq(Byte) /\ IsDerLength(w)
      /\ Len(w) > 0 /\ Len(w) <= Len(FlattenSeq(ps)) + 4
      /\ ReadSequence(StringToAnyBuf(w)) = Chain(ps, 0)
  BY <1>5, <1>7, SequenceIsRead DEF ps
<1>9. Chain(ps, 0) = Nodes2(n)
  <2>1. Len(ps) - 0 = n /\ \A j \in 1 .. n : ps[0 + j] = ps[j]
    BY <1>1, <1>5, SMT
  <2>2. Chain(ps, 0) = [j \in 1 .. n |-> NodeOf(ps[0 + j])]
    BY <2>1 DEF Chain
  <2>3. \A j \in 1 .. n : NodeOf(ps[0 + j]) = NodeOf(NodeFor(Layout[j]).pData)
    BY <1>4, <2>1
  <2> QED
    BY <2>2, <2>3 DEF Nodes2
<1> HIDE DEF w
<1>10. w # << >> /\ Len(w) <= 504
  <2>1. Len(w) \in Nat
    BY <1>8, LenProperties
  <2>2. Len(w) # 0
    BY <1>8, <2>1, SMT
  <2>3. w # << >>
    BY <2>2, EmptySeq
  <2>4. Len(w) <= 504
    BY <1>6, <1>8, <2>1, SMT
  <2> QED
    BY <2>3, <2>4
<1> QED
  BY <1>8, <1>9, <1>10 DEF w, n, Unpacked

LEMMA NodesAreDer ==
  ASSUME Typed, ~Negative(Layout[1]), NEW ns, ns = Nodes1(Count) \/ ns = Nodes2(Count)
  PROVE  /\ Len(ns) = Count
         /\ \A i \in DOMAIN ns : /\ IsDerLength(ns[i].pData)
                                 /\ ns[i].dataType = INTEGER => IsDerInteger(ns[i].pData)
<1> DEFINE n == Count
<1>1. n \in Nat
  BY Positive, SMT
<1>2. DOMAIN ns = 1 .. n
  BY DEF Nodes1, Nodes2
<1>3. Len(ns) = n
  BY <1>1, <1>2
<1>4. ASSUME NEW i \in 1 .. n
      PROVE  /\ IsDerLength(ns[i].pData)
             /\ ns[i].dataType = INTEGER => IsDerInteger(ns[i].pData)
  <2> DEFINE node == NodeFor(Layout[i])
  <2>1. Fit(Layout[i], node)
    BY Positive
  <2> HIDE DEF node
  <2>2. ns[i] = node \/ ns[i] = NodeOf(node.pData)
    BY DEF Nodes1, Nodes2, node
  <2>3. NodeOf(node.pData).pData = node.pData
    BY DEF NodeOf, AnyBuf
  <2>4. IsDerLength(node.pData)
    BY <2>1, PieceIsRead, EmptySeq DEF Fit
  <2> QED
    BY <2>1, <2>2, <2>3, <2>4 DEF Fit
<1> QED
  BY <1>2, <1>3, <1>4

-----------------------------------------------------------------------------
(* The steps of the sender.                                                *)
LEMMA SameMessage ==
  ASSUME UNCHANGED sent
  PROVE  /\ Layout' = Layout /\ Count' = Count /\ Struct' = Struct
         /\ EncodeOrder' = EncodeOrder /\ DecodeOrder' = DecodeOrder
         /\ \A f : Negative(f)' <=> Negative(f)
         /\ \A n : Nodes1(n)' = Nodes1(n) /\ Nodes2(n)' = Nodes2(n)
<1>1. generation' = generation /\ type' = type /\ msg' = msg
  BY DEF sent
<1>2. Layout' = Layout
  BY <1>1 DEF Layout
<1>3. \A f : Negative(f)' <=> Negative(f)
  BY <1>1 DEF Negative
<1>4. \A f : NodeFor(f)' = NodeFor(f)
  BY <1>1 DEF NodeFor
<1>5. \A n : Nodes1(n)' = Nodes1(n) /\ Nodes2(n)' = Nodes2(n)
  BY <1>2, <1>4 DEF Nodes1, Nodes2
<1>6. Count' = Count
  BY <1>2, <1>3 DEF Count
<1>7. Struct' = Struct /\ EncodeOrder' = EncodeOrder /\ DecodeOrder' = DecodeOrder
  BY <1>1 DEF Struct, EncodeOrder, DecodeOrder
<1> QED
  BY <1>2, <1>3, <1>5, <1>6, <1>7

LEMMA NodesGrow ==
  ASSUME NEW n \in Nat
  PROVE  /\ Append(Nodes1(n), NodeFor(Layout[n + 1])) = Nodes1(n + 1)
         /\ <<NodeFor(Layout[1])>> = Nodes1(1)
<1> DEFINE e(i) == NodeFor(Layout[i])
           T == {e(i) : i \in 1 .. n + 1}
           s == [i \in 1 .. n |-> e(i)]
           t == [i \in 1 .. n + 1 |-> e(i)]
<1>1. n + 1 \in Nat /\ 1 .. n \subseteq 1 .. n + 1 /\ n + 1 \in 1 .. n + 1
  BY SMT
<1>2. \A i \in 1 .. n + 1 : e(i) \in T
  OBVIOUS
<1> HIDE DEF T
<1>3. s \in [1 .. n -> T] /\ t \in [1 .. n + 1 -> T]
  BY <1>1, <1>2
<1>4. s \in Seq(T) /\ Len(s) = n /\ t \in Seq(T) /\ Len(t) = n + 1
  BY <1>1, <1>3, FunctionIsSeq
<1>5. \A i \in 1 .. n : s[i] = e(i)
  OBVIOUS
<1>6. \A i \in 1 .. n + 1 : t[i] = e(i)
  OBVIOUS
<1> DEFINE x == e(n + 1)
           a == Append(s, x)
<1>7. x \in T
  BY <1>1, <1>2
<1> HIDE DEF s, t, x
<1>8. a \in Seq(T) /\ Len(a) = n + 1 /\ (\A i \in 1 .. n : a[i] = s[i]) /\ a[n + 1] = x
  BY <1>4, <1>7, AppendProperties
<1> HIDE DEF a
<1>9. ASSUME NEW i \in 1 .. n + 1 PROVE a[i] = t[i]
  <2>1. CASE i = n + 1
    BY <1>1, <1>6, <1>8, <2>1 DEF x
  <2>2. CASE i # n + 1
    <3>1. i \in 1 .. n
      BY <2>2, SMT
    <3> QED
      BY <1>5, <1>6, <1>8, <3>1
  <2> QED
    BY <2>1, <2>2
<1>10. a = t
  BY <1>4, <1>8, <1>9, SeqEqual
<1>11. Append(Nodes1(n), NodeFor(Layout[n + 1])) = Nodes1(n + 1)
  BY <1>10 DEF a, s, t, x, Nodes1
<1>12. <<NodeFor(Layout[1])>> = Nodes1(1)
  BY SMT DEF Nodes1
<1> QED
  BY <1>11, <1>12

\* The node that is written next.
LEMMA NodeIs ==
  ASSUME Typed, Writes, pc = "write"
  PROVE  /\ generation = 1 => Node1 = NodeFor(Layout[k])
         /\ generation = 2 => Node2 = NodeFor(Layout[k])
         /\ k \in Numbers /\ Layout[k] \in DOMAIN msg
<1>1. Field = Layout[k] /\ Value = msg[Layout[k]]
  BY OrderIs DEF Field, Value, Writes
<1>2. k \in Numbers
  BY DEF Writes, Numbers
<1> QED
  BY <1>1, <1>2, OrderIs DEF Node1, Node2, NodeFor

\* Every field is copied.
LEMMA AllCopied == ASSUME Typed PROVE DOMAIN msg \subseteq Copied
<1>1. CASE type = "request"
  <2>1. DOMAIN msg = {"cmdType", "clientId", "authCode", "serverId", "r1"}
    BY <1>1 DEF Typed, Struct, RequestStruct
  <2> QED
    BY <1>1, <2>1 DEF Copied, RequestCopy1, RequestFactory, RequestCopy2
<1>2. CASE type = "respond"
  <2>1. DOMAIN msg = {"rv", "clientId", "serverId", "r2", "seckeyid"}
    BY <1>2 DEF Typed, Struct, RespondStruct
  <2> QED
    BY <1>2, <2>1 DEF Copied, RespondCopy1, RespondFactory, RespondCopy2
<1> QED
  BY <1>1, <1>2 DEF Typed

LEMMA CreateStep == ASSUME CInv, Create PROVE CInv'
<1> USE DEF CInv
<1>1. /\ pc = "create" /\ pc' = "write" /\ UNCHANGED <<sent, k, nodes, m_next, wire, out>>
      /\ m_msg' = [f \in DOMAIN msg |-> IF f \in Copied THEN msg[f] ELSE Garbage]
  BY DEF Create
<1>2. generation' = generation /\ type' = type /\ msg' = msg
  BY <1>1 DEF sent
<1>3. m_msg' = msg
  <2>1. m_msg' = [f \in DOMAIN msg |-> msg[f]]
    BY <1>1, AllCopied
  <2>2. msg = [f \in DOMAIN msg |-> msg[f]]
    BY ValueIs, OrderIs DEF Numbers
  <2> QED
    BY <2>1, <2>2
<1>4. Typed'
  BY <1>1, <1>2 DEF Typed, Struct
<1>5. Writes'
  BY <1>1, <1>2, <1>3 DEF Writes
<1>6. Reads'
  BY <1>1, <1>2 DEF Reads
<1>7. RoundTrip' /\ WireIsDer' /\ OnlyNegativeFails'
  BY <1>1 DEF RoundTrip, WireIsDer, OnlyNegativeFails, Writes
<1> QED
  BY <1>4, <1>5, <1>6, <1>7

\* A write that does not end with the last node, and what it leaves alone.
Wrote == /\ pc = "write" /\ k' = k + 1
         /\ pc' = IF k = 5 THEN "pack" ELSE "write"
         /\ UNCHANGED <<sent, m_msg, wire, out>>

LEMMA AfterWriteIs ==
  ASSUME Typed, pc = "write", AfterWrite
  PROVE  Wrote
BY OrderIs DEF AfterWrite, Wrote

\* The parts of the invariant that a write could only disturb by its nodes.
LEMMA WroteKeeps ==
  ASSUME CInv, Wrote,
         k # 5 /\ m_next' => ~Negative(Layout[1]) /\ nodes' = Nodes1(k),
         k # 5 /\ ~m_next' => Negative(Layout[1]),
         k = 5 => ~Negative(Layout[1]) /\ nodes' = Nodes1(Count)
  PROVE  CInv'
<1> USE DEF CInv
<1>1. /\ pc = "write" /\ k' = k + 1 /\ pc' = IF k = 5 THEN "pack" ELSE "write"
      /\ UNCHANGED <<sent, m_msg, wire, out>>
  BY DEF Wrote
<1>2. generation' = generation /\ type' = type /\ msg' = msg
  BY <1>1 DEF sent
<1>3. /\ Layout' = Layout /\ Count' = Count
      /\ \A f : Negative(f)' <=> Negative(f)
      /\ \A n : Nodes1(n)' = Nodes1(n)
  BY <1>1, SameMessage
<1>4. k \in {1, 2, 3, 4, 5} /\ wire = << >> /\ m_msg = msg
  BY <1>1 DEF Writes
<1>5. Typed'
  BY <1>1, <1>2 DEF Typed, Struct
<1>6. Writes'
  <2>1. CASE k = 5
    BY <1>1, <1>2, <1>3, <1>4, <2>1 DEF Writes
  <2>2. CASE k # 5
    <3>1. k' \in {1, 2, 3, 4, 5} /\ k' # 1 /\ k' - 1 = k /\ pc' = "write"
      BY <1>1, <1>4, <2>2
    <3>2. Nodes1(k' - 1) = Nodes1(k)
      BY <3>1
    <3>3. /\ m_next' => ~Negative(Layout[1]) /\ nodes' = Nodes1(k' - 1)
          /\ ~m_next' => Negative(Layout[1])
      BY <2>2, <3>2
    <3>4. (~Negative(Layout[1]))' <=> ~Negative(Layout[1])
      BY <1>3
    <3>5. Nodes1(k - 1)' = Nodes1(k' - 1)
      BY <1>2, <1>3 DEF Nodes1, NodeFor
    <3>6. /\ m_next' => (~Negative(Layout[1]) /\ nodes = Nodes1(k - 1))'
          /\ ~m_next' => Negative(Layout[1])'
      BY <3>3, <3>4, <3>5
    <3> QED
      BY <1>1, <1>2, <1>4, <3>1, <3>6 DEF Writes
  <2> QED
    BY <2>1, <2>2
<1>7. Reads'
  BY <1>1, <1>2 DEF Reads
<1>8. RoundTrip' /\ WireIsDer' /\ OnlyNegativeFails'
  BY <1>1, <1>4 DEF RoundTrip, WireIsDer, OnlyNegativeFails
<1> QED
  BY <1>5, <1>6, <1>7, <1>8

LEMMA WriteHeadStep == ASSUME CInv, WriteHead1 \/ WriteHead2 PROVE CInv'
<1> DEFINE node == NodeFor(Layout[1])
<1>1. Typed /\ Writes /\ pc = "write" /\ k = 1 /\ AfterWrite
  BY DEF CInv, WriteHead1, WriteHead2, WriteHead
<1>2. /\ nodes' = IF node = Failed THEN << >> ELSE <<node>>
      /\ m_next' = (node # Failed)
  BY <1>1, NodeIs DEF WriteHead1, WriteHead2, WriteHead
<1>3. Wrote
  BY <1>1, AfterWriteIs
<1>4. Layout[1] \in DOMAIN msg
  BY <1>1, OrderIs DEF Numbers
<1>5. CASE Negative(Layout[1])
  <2>1. node = Failed
    BY <1>1, <1>4, <1>5, NegativeFails
  <2> HIDE DEF node
  <2>2. ~m_next' /\ k # 5
    <3>1. ~m_next'
      BY <1>2, <2>1, Zenon
    <3> QED
      BY <1>1, <3>1
  <2> QED
    BY <1>3, <1>5, <2>2, WroteKeeps
<1>6. CASE ~Negative(Layout[1])
  <2>1. node # Failed
    BY <1>1, <1>4, <1>6, NodeIsFit DEF Fit
  <2>2. <<node>> = Nodes1(k)
    BY <1>1, NodesGrow
  <2> HIDE DEF node
  <2>3. m_next' /\ k # 5 /\ nodes' = Nodes1(k)
    <3>1. m_next'
      BY <1>2, <2>1, Zenon
    <3>2. k # 5
      BY <1>1
    <3>3. nodes' = Nodes1(k)
      BY <1>2, <2>1, <2>2
    <3> QED
      BY <3>1, <3>2, <3>3
  <2> QED
    BY <1>3, <1>6, <2>3, WroteKeeps
<1> QED
  BY <1>5, <1>6

LEMMA WriteNextStep == ASSUME CInv, WriteNext1 \/ WriteNext2 PROVE CInv'
<1> DEFINE node == NodeFor(Layout[k])
<1>1. /\ Typed /\ Writes /\ pc = "write" /\ k > 1 /\ m_next /\ AfterWrite
  BY DEF CInv, WriteNext1, WriteNext2
<1>2. k \in Numbers /\ Layout[k] \in DOMAIN msg
  BY <1>1, NodeIs
<1>3. k # 1 /\ k - 1 \in Nat /\ k - 1 + 1 = k
  BY <1>1, <1>2, SMT DEF Numbers
<1>4. /\ nodes' = IF node = Failed THEN nodes ELSE Append(nodes, node)
      /\ node # Failed => m_next'
  BY <1>1, NodeIs DEF WriteNext1, WriteNext2
<1>5. ~Negative(Layout[1]) /\ nodes = Nodes1(k - 1)
  BY <1>1, <1>3 DEF Writes
<1>6. Wrote
  BY <1>1, AfterWriteIs
<1>7. CASE Negative(Layout[k])
  <2>1. node = Failed
    BY <1>1, <1>2, <1>7, NegativeFails
  <2>2. k = 5
    BY <1>1, <1>2, <1>3, <1>7, OrderIs DEF Negative
  <2>3. Count = 4 /\ k - 1 = 4
    BY <1>7, <2>2 DEF Count
  <2> HIDE DEF node
  <2> QED
    BY <1>4, <1>5, <1>6, <2>1, <2>2, <2>3, WroteKeeps
<1>8. CASE ~Negative(Layout[k])
  <2>1. node # Failed
    BY <1>1, <1>2, <1>8, NodeIsFit DEF Fit
  <2>2. Append(nodes, node) = Nodes1(k)
    BY <1>3, <1>5, NodesGrow
  <2>3. k = 5 => Count = k
    BY <1>8 DEF Count
  <2> HIDE DEF node
  <2> QED
    BY <1>4, <1>5, <1>6, <2>1, <2>2, <2>3, WroteKeeps
<1> QED
  BY <1>7, <1>8

LEMMA CrashIs ==
  ASSUME Typed, Negative(Layout[1]) \/ Negative(Layout[5])
  PROVE  \E f \in DOMAIN msg : IsInt(f) /\ msg[f][1] >= 128
<1>1. PICK f \in DOMAIN msg : Negative(f)
  BY OrderIs DEF Numbers
<1>2. IsInt(f) /\ msg[f] \in Int32 /\ ~(msg[f][1] < 128)
  BY <1>1, ValueIs DEF Negative
<1>3. msg[f][1] \in Nat
  BY <1>2, IntIsBytes, ByteIs
<1>4. msg[f][1] >= 128
  BY <1>2, <1>3, SMT
<1> QED
  BY <1>2, <1>4

LEMMA WriteCrashStep == ASSUME CInv, WriteCrash PROVE CInv'
<1> USE DEF CInv
<1>1. /\ pc = "write" /\ k > 1 /\ ~m_next /\ pc' = "crash"
      /\ UNCHANGED <<sent, m_msg, k, nodes, m_next, wire, out>>
  BY DEF WriteCrash
<1>2. generation' = generation /\ type' = type /\ msg' = msg
  BY <1>1 DEF sent
<1>3. Negative(Layout[1])
  BY <1>1, SMT DEF Writes
<1>4. \E f \in DOMAIN msg : IsInt(f) /\ msg[f][1] >= 128
  BY <1>3, CrashIs
<1>5. Typed'
  BY <1>1, <1>2 DEF Typed, Struct
<1>6. Writes' /\ Reads'
  BY <1>1, <1>2 DEF Writes, Reads
<1>7. RoundTrip' /\ WireIsDer' /\ OnlyNegativeFails'
  BY <1>1, <1>2, <1>4 DEF RoundTrip, WireIsDer, OnlyNegativeFails
<1> QED
  BY <1>5, <1>6, <1>7

LEMMA PackStep == ASSUME CInv, Pack1 \/ Pack2 PROVE CInv'
<1> USE DEF CInv
<1>1. /\ pc = "pack" /\ pc' = "sent" /\ wire' = WriteSequence(nodes).pData
      /\ UNCHANGED <<sent, m_msg, k, nodes, m_next, out>>
  BY DEF Pack1, Pack2, Pack
<1>2. generation' = generation /\ type' = type /\ msg' = msg
  BY <1>1 DEF sent
<1>3. Layout' = Layout /\ Count' = Count /\ Nodes1(Count)' = Nodes1(Count)
      /\ \A f : Negative(f)' <=> Negative(f)
  BY <1>1, <1>2, SameMessage DEF Nodes1, NodeFor
<1>4. ~Negative(Layout[1]) /\ nodes = Nodes1(Count) /\ m_msg = msg
  BY <1>1 DEF Writes
<1>5. Typed'
  BY <1>1, <1>2 DEF Typed, Struct
<1>6. Writes'
  BY <1>1, <1>2, <1>3, <1>4 DEF Writes
<1>7. Reads'
  BY <1>1, <1>2 DEF Reads
<1>8. WireIsDer'
  <2>1. IsDerLength(wire')
    BY <1>1, <1>4, SentIs
  <2>2. \A i \in DOMAIN nodes : /\ IsDerLength(nodes[i].pData)
                                /\ nodes[i].dataType = INTEGER => IsDerInteger(nodes[i].pData)
    BY <1>4, NodesAreDer
  <2> QED
    BY <1>1, <2>1, <2>2 DEF WireIsDer
<1>9. RoundTrip' /\ OnlyNegativeFails'
  BY <1>1 DEF RoundTrip, OnlyNegativeFails
<1> QED
  BY <1>5, <1>6, <1>7, <1>8, <1>9

-----------------------------------------------------------------------------
(* The steps of the receiver.                                              *)

\* What the receiver unpacks is what was packed.
UnpackedAs(bytes) ==
  /\ pc = "sent" /\ nodes' = Unpacked(bytes) /\ pc' = "read" /\ k' = 1
  /\ UNCHANGED <<sent, m_msg, m_next, wire, out>>

LEMMA UnpackStep == ASSUME CInv, UnpackedAs(wire) PROVE CInv'
<1> USE DEF CInv
<1>1. /\ pc = "sent" /\ pc' = "read" /\ k' = 1 /\ nodes' = Unpacked(wire)
      /\ UNCHANGED <<sent, m_msg, m_next, wire, out>>
  BY DEF UnpackedAs
<1>2. generation' = generation /\ type' = type /\ msg' = msg
  BY <1>1 DEF sent
<1>3. ~Negative(Layout[1]) /\ m_msg = msg /\ wire = WriteSequence(Nodes1(Count)).pData
  BY <1>1 DEF Writes
<1>4. nodes' = Nodes2(Count) /\ IsDerLength(wire)
  BY <1>1, <1>3, SentIs
<1>5. /\ Layout' = Layout /\ Count' = Count /\ Nodes2(Count)' = Nodes2(Count)
      /\ Negative(Layout[1])' <=> Negative(Layout[1])
  BY <1>1, <1>2, SameMessage DEF Nodes2, NodeFor, Negative
<1>6. Typed'
  BY <1>1, <1>2 DEF Typed, Struct
<1>7. Writes'
  BY <1>1, <1>2, <1>3 DEF Writes
<1>8. Reads'
  <2>1. out' \in [DOMAIN msg' -> Seq(Byte)]
    BY <1>1, <1>2 DEF Reads
  <2>2. ~(\E j \in {1, 2, 3, 4, 5} : j < 1)
    OBVIOUS
  <2>3. (~Negative(Layout[1]))' /\ nodes' = Nodes2(Count)'
    BY <1>3, <1>4, <1>5
  <2> QED
    BY <1>1, <2>1, <2>2, <2>3 DEF Reads
<1>9. WireIsDer'
  <2>1. \A i \in DOMAIN nodes' : /\ IsDerLength(nodes'[i].pData)
                                 /\ nodes'[i].dataType = INTEGER => IsDerInteger(nodes'[i].pData)
    BY <1>3, <1>4, NodesAreDer
  <2> QED
    BY <1>1, <1>4, <2>1 DEF WireIsDer
<1>10. RoundTrip' /\ OnlyNegativeFails'
  BY <1>1 DEF RoundTrip, OnlyNegativeFails
<1> QED
  BY <1>6, <1>7, <1>8, <1>9, <1>10

\* A read, and the fields that were read before it.
GoesOn == /\ pc = "read" /\ k \in Numbers
          /\ k' = k + 1 /\ pc' = IF k = 5 THEN "done" ELSE "read"
          /\ UNCHANGED <<sent, m_msg, nodes, m_next, wire>>

LEMMA AfterReadIs ==
  ASSUME Typed, Reads, pc = "read", AfterRead
  PROVE  GoesOn
BY OrderIs DEF AfterRead, GoesOn, Reads, Numbers

LEMMA ReadKeeps ==
  ASSUME CInv, GoesOn, out' \in [DOMAIN msg -> Seq(Byte)],
         out'[Layout[k]] = msg[Layout[k]],
         \A j \in Numbers : j < k => out'[Layout[j]] = out[Layout[j]]
  PROVE  CInv'
<1> USE DEF CInv
<1>1. /\ pc = "read" /\ k \in Numbers /\ k' = k + 1 /\ pc' = IF k = 5 THEN "done" ELSE "read"
      /\ UNCHANGED <<sent, m_msg, nodes, m_next, wire>>
  BY DEF GoesOn
<1>2. generation' = generation /\ type' = type /\ msg' = msg
  BY <1>1 DEF sent
<1>3. ~Negative(Layout[1]) /\ nodes = Nodes2(Count) /\ m_msg = msg
  BY <1>1 DEF Writes, Reads
<1>4. /\ Layout' = Layout /\ Count' = Count /\ Nodes2(Count)' = Nodes2(Count)
      /\ Negative(Layout[1])' <=> Negative(Layout[1])
  BY <1>1, <1>2, SameMessage DEF Nodes2, NodeFor, Negative
<1>5. \A j \in Numbers : j <= k => out'[Layout[j]] = msg[Layout[j]]
  <2>1. \A j \in Numbers : j < k => out[Layout[j]] = msg[Layout[j]]
    BY <1>1 DEF Reads, Numbers
  <2>2. \A j \in Numbers : j <= k => j < k \/ j = k
    BY <1>1, SMT DEF Numbers
  <2> QED
    BY <2>1, <2>2
<1>6. Typed'
  BY <1>1, <1>2 DEF Typed, Struct
<1>7. Writes'
  BY <1>1, <1>2, <1>3 DEF Writes
<1>8. Reads'
  <2>1. (~Negative(Layout[1]))' /\ nodes' = Nodes2(Count)'
    BY <1>1, <1>3, <1>4
  <2>2. pc' = "read" => k' \in Numbers
    BY <1>1, SMT DEF Numbers
  <2>3. \A j \in Numbers : j < k' => j <= k
    BY <1>1, SMT DEF Numbers
  <2>4. \A j \in Numbers : j < k' => out'[Layout'[j]] = msg'[Layout'[j]]
    BY <1>2, <1>4, <1>5, <2>3
  <2>5. out' \in [DOMAIN msg' -> Seq(Byte)]
    BY <1>2
  <2> QED
    BY <2>1, <2>2, <2>4, <2>5 DEF Reads, Numbers
<1>9. RoundTrip'
  <2>1. SUFFICES ASSUME pc' = "done" PROVE out' = msg'
    BY DEF RoundTrip
  <2>2. k = 5
    BY <1>1, <2>1
  <2>3. \A j \in Numbers : out'[Layout[j]] = msg[Layout[j]]
    BY <1>5, <2>2, SMT DEF Numbers
  <2>4. \A f \in DOMAIN msg : out'[f] = msg[f]
    BY <2>3, OrderIs
  <2>5. out' = [f \in DOMAIN msg |-> out'[f]]
    OBVIOUS
  <2>6. msg = [f \in DOMAIN msg |-> msg[f]]
    BY ValueIs, OrderIs DEF Numbers
  <2> QED
    BY <1>2, <2>4, <2>5, <2>6
<1>10. WireIsDer' /\ OnlyNegativeFails'
  BY <1>1 DEF WireIsDer, OnlyNegativeFails
<1> QED
  BY <1>6, <1>7, <1>8, <1>9, <1>10

\* The node the receiver is at, and what it finds there.
LEMMA NodeIsThere ==
  ASSUME Typed, Reads, pc = "read"
  PROVE  /\ Len(nodes) = Count /\ k \in Numbers /\ Layout[k] \in DOMAIN msg
         /\ DecodeOrder[k] = Layout[k]
         /\ DOMAIN out = DOMAIN msg
         /\ k <= Len(nodes) => ReadAt(Layout[k], nodes[k]) = msg[Layout[k]]
         /\ k > Len(nodes) => Negative(Layout[5])
<1>1. ~Negative(Layout[1]) /\ nodes = Nodes2(Count) /\ k \in Numbers
  BY DEF Reads, Numbers
<1>2. Len(nodes) = Count
  BY <1>1, NodesAreDer
<1>3. Count \in {4, 5}
  BY <1>1, Positive
<1>4. ASSUME k <= Len(nodes) PROVE ReadAt(Layout[k], nodes[k]) = msg[Layout[k]]
  <2>1. k \in 1 .. Count
    BY <1>1, <1>2, <1>3, <1>4, SMT DEF Numbers
  <2>2. nodes[k] = NodeOf(NodeFor(Layout[k]).pData)
    BY <1>1, <2>1 DEF Nodes2
  <2>3. Fit(Layout[k], NodeFor(Layout[k]))
    BY <1>1, <2>1, Positive
  <2> QED
    BY <2>2, <2>3 DEF Fit
<1>5. k > Len(nodes) => Negative(Layout[5])
  <2>1. k > Len(nodes) => Count # 5
    BY <1>1, <1>2, <1>3, SMT DEF Numbers
  <2> QED
    BY <2>1 DEF Count
<1>6. Layout[k] \in DOMAIN msg /\ DecodeOrder[k] = Layout[k]
  BY <1>1, OrderIs
<1>7. DOMAIN out = DOMAIN msg
  BY DEF Reads
<1> QED
  BY <1>1, <1>2, <1>4, <1>5, <1>6, <1>7

LEMMA ReadStep == ASSUME CInv, ReadInt1 \/ ReadInt2 \/ ReadString1 \/ ReadString2 PROVE CInv'
<1> DEFINE f == Layout[k]
<1>1. /\ Typed /\ Reads /\ pc = "read" /\ AfterRead /\ k <= Len(nodes)
  BY DEF CInv, ReadInt1, ReadInt2, ReadString1, ReadString2
<1>2. /\ k \in Numbers /\ f \in DOMAIN msg /\ DecodeOrder[k] = f /\ DOMAIN out = DOMAIN msg
      /\ ReadAt(f, nodes[k]) = msg[f]
  BY <1>1, NodeIsThere
<1>3. GoesOn
  BY <1>1, AfterReadIs
<1>4. msg[f] \in Seq(Byte) /\ out \in [DOMAIN msg -> Seq(Byte)]
  BY <1>1, <1>2, ValueIs DEF Reads
<1>5. \A i, j \in Numbers : Layout[i] = Layout[j] => i = j
  BY <1>1, OrderIs
<1>6. Len(Layout) = 5
  BY <1>1, OrderIs
<1>7. CASE ReadInt1
  <2>1. IsInt(f) /\ out' = [g \in DOMAIN out |->
          IF g = f THEN IntOf(nodes[k]) ELSE IF g \in Behind(f) THEN Garbage ELSE out[g]]
    BY <1>2, <1>7 DEF ReadInt1
  <2>2. IntOf(nodes[k]) = msg[f]
    BY <1>2, <2>1 DEF ReadAt
  <2>3. Garbage \in Seq(Byte)
    BY EmptySeq DEF Garbage
  <2>4. ASSUME NEW j \in Numbers, j < k PROVE Layout[j] # f /\ Layout[j] \notin Behind(f)
    <3>1. Layout[j] # f
      BY <1>2, <1>5, <2>4, SMT DEF Numbers
    <3>2. ASSUME Layout[j] \in Behind(f) PROVE FALSE
      <4>1. PICK i \in 2 .. 5 : Layout[i - 1] = f /\ Layout[j] = Layout[i]
        BY <1>6, <3>2 DEF Behind
      <4>2. i \in Numbers /\ i - 1 \in Numbers
        BY SMT DEF Numbers
      <4>3. i = j /\ i - 1 = k
        BY <1>2, <1>5, <4>1, <4>2
      <4> QED
        BY <1>2, <2>4, <4>3, SMT DEF Numbers
    <3> QED
      BY <3>1, <3>2
  <2> HIDE DEF f
  <2>5. out' \in [DOMAIN msg -> Seq(Byte)]
    BY <1>2, <1>4, <2>1, <2>2, <2>3
  <2>6. out'[f] = msg[f]
    BY <1>2, <2>1, <2>2
  <2>7. ASSUME NEW j \in Numbers, j < k PROVE out'[Layout[j]] = out[Layout[j]]
    <3>1. Layout[j] \in DOMAIN out
      BY <1>1, <1>2, OrderIs
    <3>2. Layout[j] # f /\ Layout[j] \notin Behind(f)
      BY <2>4, <2>7
    <3> QED
      BY <2>1, <3>1, <3>2
  <2> QED
    BY <1>3, <2>5, <2>6, <2>7, ReadKeeps DEF f
<1>8. CASE ~ReadInt1
  <2>1. out' = [out EXCEPT ![f] = ReadAt(f, nodes[k])]
    BY <1>2, <1>8 DEF ReadInt2, ReadString1, ReadString2, ReadAt
  <2>2. out' = [out EXCEPT ![f] = msg[f]]
    BY <1>2, <2>1
  <2>3. ASSUME NEW j \in Numbers, j < k PROVE Layout[j] # f /\ Layout[j] \in DOMAIN out
    BY <1>1, <1>2, <1>5, <2>3, OrderIs, SMT DEF Numbers
  <2> HIDE DEF f
  <2>4. out' \in [DOMAIN msg -> Seq(Byte)] /\ out'[f] = msg[f]
    BY <1>2, <1>4, <2>2
  <2>5. ASSUME NEW j \in Numbers, j < k PROVE out'[Layout[j]] = out[Layout[j]]
    BY <2>2, <2>3, <2>5
  <2> QED
    BY <1>3, <2>4, <2>5, ReadKeeps DEF f
<1> QED
  BY <1>7, <1>8

LEMMA ReadCrashStep == ASSUME CInv, ReadCrash PROVE CInv'
<1> USE DEF CInv
<1>1. /\ pc = "read" /\ k > Len(nodes) /\ pc' = "crash"
      /\ UNCHANGED <<sent, m_msg, k, nodes, m_next, wire, out>>
  BY DEF ReadCrash
<1>2. generation' = generation /\ type' = type /\ msg' = msg
  BY <1>1 DEF sent
<1>3. \E f \in DOMAIN msg : IsInt(f) /\ msg[f][1] >= 128
  BY <1>1, NodeIsThere, CrashIs
<1>4. Typed'
  BY <1>1, <1>2 DEF Typed, Struct
<1>5. Writes' /\ Reads'
  BY <1>1, <1>2 DEF Writes, Reads
<1>6. RoundTrip' /\ WireIsDer' /\ OnlyNegativeFails'
  BY <1>1, <1>2, <1>3 DEF RoundTrip, WireIsDer, OnlyNegativeFails
<1> QED
  BY <1>4, <1>5, <1>6

LEMMA CodecRests == ASSUME CInv, UNCHANGED vars PROVE CInv'
<1>1. UNCHANGED sent /\ UNCHANGED <<generation, type, msg, pc, m_msg, k, nodes, m_next, wire, out>>
  BY DEF vars, sent
<1>2. /\ Layout' = Layout /\ Count' = Count /\ Struct' = Struct
      /\ \A f : Negative(f)' <=> Negative(f)
      /\ \A n : Nodes1(n)' = Nodes1(n) /\ Nodes2(n)' = Nodes2(n)
  BY <1>1, SameMessage
<1>3. Typed' /\ Writes' /\ Reads'
  BY <1>1 DEF CInv, Typed, Writes, Reads, Struct, Negative, Layout, Nodes1, Nodes2, NodeFor, Count
<1>4. RoundTrip' /\ WireIsDer' /\ OnlyNegativeFails'
  BY <1>1 DEF CInv, RoundTrip, WireIsDer, OnlyNegativeFails
<1> QED
  BY <1>3, <1>4 DEF CInv

-----------------------------------------------------------------------------
(* The stream of the socket: the length in four bytes, and the message.    *)
LEMMA UpperDigits ==
  ASSUME NEW n \in Sizes PROVE Digit(n, 2) = 0 /\ Digit(n, 3) = 0
<1>1. 256 ^ 2 = 65536 /\ 256 ^ 3 = 16777216
  BY SMTT(10)
<1>2. n \div 65536 = 0 /\ n \div 16777216 = 0
  BY SMTT(10) DEF Sizes
<1> QED
  BY <1>1, <1>2, SMTT(10) DEF Digit

LEMMA NetLenIs ==
  ASSUME Len(wire) \in Sizes
  PROVE  /\ NetLen \in Seq(Byte) /\ Len(NetLen) = 4
         /\ NetLen[1] = 0 /\ NetLen[2] = 0
         /\ NetLen[3] = Digit(Len(wire), 1) /\ NetLen[4] = Digit(Len(wire), 0)
<1> DEFINE n == Len(wire)
<1>1. NetLen = [i \in 1 .. 4 |-> Digit(n, 4 - i)]
  BY DEF NetLen
<1> HIDE DEF n
<1>2. n \in Sizes
  BY DEF n
<1>3. /\ NetLen[1] = Digit(n, 3) /\ NetLen[2] = Digit(n, 2)
      /\ NetLen[3] = Digit(n, 1) /\ NetLen[4] = Digit(n, 0)
  BY <1>1, SMT
<1>4. Digit(n, 3) = 0 /\ Digit(n, 2) = 0 /\ Digit(n, 1) \in Byte /\ Digit(n, 0) \in Byte
  BY <1>2, Digits, UpperDigits
<1>5. 0 \in Byte
  BY ByteIs, SMT
<1>6. NetLen \in [1 .. 4 -> Byte]
  <2>1. \A i \in 1 .. 4 : NetLen[i] \in Byte
    BY <1>3, <1>4, <1>5, SMT
  <2> QED
    BY <1>1, <2>1
<1>7. 4 \in Nat
  BY SMT
<1>8. NetLen \in Seq(Byte) /\ Len(NetLen) = 4
  BY <1>6, <1>7, FunctionIsSeq
<1> QED
  BY <1>3, <1>4, <1>8 DEF n

LEMMA Rest ==
  ASSUME NEW s \in Seq(Byte), NEW n \in Nat, Len(s) = 4 + n
  PROVE  /\ SubSeq(s, 5, 4 + n) \in Seq(Byte) /\ Len(SubSeq(s, 5, 4 + n)) = n
         /\ \A i \in 1 .. n : SubSeq(s, 5, 4 + n)[i] = s[4 + i]
BY SMT

LEMMA StreamIs ==
  ASSUME Bytes2
  PROVE  /\ Stream \in Seq(Byte) /\ Len(wire) \in Nat /\ Len(Stream) = 4 + Len(wire)
         /\ Size = Len(wire)
         /\ SubSeq(Stream, 5, 4 + Len(wire)) = wire
<1> DEFINE n == Len(wire)
<1>1. wire \in Seq(Byte) /\ n \in Nat /\ n <= 504
  BY LenProperties DEF Bytes2
<1>2. n \in Sizes
  BY <1>1, SMT DEF Sizes
<1>3. /\ NetLen \in Seq(Byte) /\ Len(NetLen) = 4 /\ NetLen[1] = 0 /\ NetLen[2] = 0
      /\ NetLen[3] = Digit(n, 1) /\ NetLen[4] = Digit(n, 0)
  BY <1>2, NetLenIs
<1>4. Digit(n, 1) * 256 + Digit(n, 0) = n /\ Digit(n, 1) \in Nat /\ Digit(n, 0) \in Nat
  BY <1>2, Digits, ByteIs
<1> HIDE DEF n
<1>5. /\ Stream \in Seq(Byte) /\ Len(Stream) = 4 + n
      /\ \A i \in 1 .. 4 : Stream[i] = NetLen[i]
      /\ \A i \in 1 .. n : Stream[4 + i] = wire[i]
  <2>1. Stream = NetLen \o wire /\ Len(wire) = n
    BY DEF Stream, n
  <2>2. /\ NetLen \o wire \in Seq(Byte) /\ Len(NetLen \o wire) = Len(NetLen) + Len(wire)
        /\ \A i \in 1 .. Len(NetLen) : (NetLen \o wire)[i] = NetLen[i]
        /\ \A i \in 1 .. Len(wire) : (NetLen \o wire)[Len(NetLen) + i] = wire[i]
    BY <1>1, <1>3, Joined
  <2> QED
    BY <1>3, <2>1, <2>2
<1>6. /\ Announced[1] = 0 /\ Announced[2] = 0
      /\ Announced[3] = Digit(n, 1) /\ Announced[4] = Digit(n, 0)
  <2>1. \A i \in 1 .. 4 : SubSeq(Stream, 1, 4)[i] = Stream[i]
    BY <1>1, <1>5, Part, SMT
  <2> QED
    BY <1>3, <1>5, <2>1, SMT DEF Announced
<1>7. Size = n
  <2>1. 256 ^ 3 \in Nat /\ 256 ^ 2 \in Nat
    BY SMTT(10)
  <2>2. Size = 0 * 256 ^ 3 + 0 * 256 ^ 2 + Digit(n, 1) * 256 + Digit(n, 0)
    BY <1>6 DEF Size
  <2> QED
    BY <1>1, <1>4, <2>1, <2>2, SMT
<1>8. SubSeq(Stream, 5, 4 + n) = wire
  <2> DEFINE t == SubSeq(Stream, 5, 4 + n)
  <2>1. /\ t \in Seq(Byte) /\ Len(t) = n
        /\ \A i \in 1 .. n : t[i] = Stream[4 + i]
    BY <1>1, <1>5, Rest
  <2> HIDE DEF t
  <2>2. t = wire
    BY <1>1, <1>5, <2>1, Same DEF n
  <2> QED
    BY <2>2 DEF t
<1> QED
  BY <1>1, <1>5, <1>7, <1>8 DEF n

\* The numbers that bound the message and the network.
LEMMA EverythingIs == Everything \in Nat /\ \A n \in Nat : n <= 508 => n <= Everything
BY SMT DEF Everything

\* Where a call ends.
LEMMA EndIs ==
  ASSUME NEW from \in Nat, NEW to \in Nat, from < to, NEW p \in Ends(from, to)
  PROVE  p \in Nat /\ from < p /\ p <= to
<1>1. p = to \/ (p \in CutAt /\ from < p /\ p < to)
  BY DEF Ends
<1>2. p \in Nat
  BY <1>1, ExchangeAssumption
<1> QED
  BY <1>1, <1>2, SMT

-----------------------------------------------------------------------------
(* The steps of the socket.                                                *)
LEMMA SocketIs ==
  ASSUME InSocket
  PROVE  UNCHANGED vars /\ wire' = wire /\ type' = type /\ pc' = pc
BY DEF InSocket, vars

\* After an error from outside there is nothing to show.
LEMMA FaultIs == ASSUME Fails PROVE FInv'
BY DEF Fails, FInv

\* What is unchanged leaves the invariant of the socket alone.
LEMMA SInvRests ==
  ASSUME SInv, UNCHANGED <<wire, sendVars, recvVars, reach>> PROVE SInv'
BY DEF SInv, Bytes2, sendVars, recvVars

LEMMA ConnectStep == ASSUME EInv, Connect PROVE SInv' /\ FInv'
<1>1. InSocket
  BY DEF Connect, ConnectNow, ConnectLater, ConnectReady, Established
<1>2. SInv /\ FInv /\ wire' = wire /\ type' = type
  BY <1>1, SocketIs DEF EInv
<1>3. UNCHANGED <<sendVars, recvVars, reach>> /\ (fault' = fault \/ Fails)
  BY DEF Connect, ConnectNow, ConnectLater, ConnectReady, Established, NoFault, netVars
<1>4. SInv'
  BY <1>2, <1>3, SInvRests
<1>5. UNCHANGED <<spc, written, fin, rpc, taken>>
  BY <1>3 DEF sendVars, recvVars
<1>6. CASE Fails
  BY <1>4, <1>6, FaultIs
<1>7. CASE ~Fails
  <2>1. SUFFICES ASSUME ~fault PROVE FInv'
    BY <1>3, <1>4, <1>7 DEF FInv
  <2> USE DEF FInv, NoFalseError
  <2>2. CASE ConnectNow
    <3>1. cpc = "idle" /\ conn' = "up" /\ cpc' = "done" /\ blocking'
      BY <1>7, <2>2 DEF ConnectNow, MayConnect, AfterConnect
    <3> QED
      BY <1>2, <1>3, <1>5, <2>1, <3>1
  <2>3. CASE ConnectLater
    <3>1. cpc = "idle" /\ conn' = "trying" /\ cpc' = "select"
      BY <2>3 DEF ConnectLater, MayConnect
    <3>2. spc = "idle" /\ ~(rpc \in {"head", "body"} /\ type = "respond")
      BY <1>2, <2>1, <3>1
    <3> QED
      BY <1>2, <1>3, <1>5, <2>1, <3>1, <3>2
  <2>4. CASE ConnectReady
    <3>1. conn = "up" /\ conn' = "up" /\ cpc' = "done" /\ blocking'
      BY <1>2, <2>1, <2>4 DEF ConnectReady, AfterConnect
    <3> QED
      BY <1>2, <1>3, <1>5, <2>1, <3>1
  <2>5. CASE Established
    <3>1. conn = "trying" /\ cpc = "select" /\ conn' = "up" /\ UNCHANGED <<blocking, cpc>>
      BY <1>2, <2>1, <2>5 DEF Established
    <3> QED
      BY <1>2, <1>3, <1>5, <2>1, <3>1
  <2> QED
    BY <2>2, <2>3, <2>4, <2>5 DEF Connect
<1> QED
  BY <1>4, <1>6, <1>7

\* What the sender needs to begin.
LEMMA MaySendIs == ASSUME EInv, MaySend PROVE wire # << >> /\ cpc = "done" /\ spc = "idle"
<1>1. Typed /\ Writes /\ pc = "sent" /\ cpc = "done" /\ spc = "idle"
  BY DEF EInv, CInv, MaySend
<1>2. ~Negative(Layout[1]) /\ wire = WriteSequence(Nodes1(Count)).pData
  BY <1>1 DEF Writes
<1>3. wire # << >>
  BY <1>1, <1>2, SentIs
<1> QED
  BY <1>1, <1>3

LEMMA SendStep == ASSUME EInv, Send PROVE SInv' /\ FInv'
<1>1. InSocket /\ UNCHANGED <<clientVars, recvVars, netVars>>
  BY DEF Send, SendReady, Write, WriteWouldBlock, WriteBroken, SenderCloses, NoFault
<1>2. SInv /\ FInv /\ wire' = wire /\ type' = type
  BY <1>1, SocketIs DEF EInv
<1>3. UNCHANGED <<conn, blocking, cpc, rpc, taken, reach, fault>>
  BY <1>1 DEF clientVars, recvVars, netVars
<1>4. CASE SendReady
  <2>1. spc = "idle" /\ spc' = "write" /\ written' = written /\ fin' = fin /\ cpc = "done" /\ wire # << >>
    BY <1>4, MaySendIs DEF SendReady
  <2>2. SInv'
    BY <1>2, <1>3, <2>1 DEF SInv, Bytes2, Sent
  <2>3. FInv'
    BY <1>2, <1>3, <2>1 DEF FInv, NoFalseError, Sent
  <2> QED
    BY <2>2, <2>3
<1>5. CASE Write
  <2> DEFINE to == MinOf(written + FreeRoom, Len(Stream))
  <2>1. /\ Len(Stream) = 4 + Len(wire) /\ Len(wire) \in Nat
        /\ written \in Nat /\ taken \in Nat /\ written <= 4 + Len(wire)
    BY <1>2, StreamIs DEF SInv
  <2>2. /\ spc = "write" /\ FreeRoom > 0 /\ fin' = fin
        /\ \E end \in Ends(written, to) :
             written' = end /\ spc' = IF end = Len(Stream) THEN "sent" ELSE "write"
    BY <1>5 DEF Write
  <2>3. CASE written = Len(Stream)
    <3>1. FreeRoom \in Nat
      BY <2>1, <2>2, ExchangeAssumption, SMT DEF FreeRoom
    <3>2. to = written /\ ~(\E p \in CutAt : written < p /\ p < written)
      BY <2>1, <2>2, <2>3, <3>1, ExchangeAssumption, SMT DEF MinOf
    <3>3. written' = written /\ spc' = "sent"
      BY <2>2, <2>3, <3>2 DEF Ends
    <3>4. SInv'
      BY <1>2, <1>3, <2>2, <3>3 DEF SInv, Bytes2, Sent
    <3>5. FInv'
      BY <1>2, <1>3, <2>1, <2>2, <2>3, <3>3 DEF FInv, NoFalseError, Sent
    <3> QED
      BY <3>4, <3>5
  <2>4. CASE written # Len(Stream)
    <3>1. FreeRoom \in Nat
      BY <2>1, <2>2, ExchangeAssumption, SMT DEF FreeRoom
    <3>2. to \in Nat /\ written < to /\ to <= Len(Stream)
      BY <2>1, <2>2, <2>4, <3>1, SMT DEF MinOf
    <3>3. PICK end \in Ends(written, to) :
            written' = end /\ spc' = IF end = Len(Stream) THEN "sent" ELSE "write"
      BY <2>2
    <3>4. end \in Nat /\ written < end /\ end <= to
      BY <2>1, <3>2, EndIs
    <3>5. end <= 4 + Len(wire)
      BY <2>1, <3>2, <3>4, SMT
    <3>6. spc' \in {"sent", "write"} /\ (spc' = "sent" => written' = 4 + Len(wire))
      BY <2>1, <3>3
    <3>7. SInv'
      BY <1>2, <1>3, <2>2, <3>3, <3>4, <3>5, <3>6 DEF SInv, Bytes2, Sent
    <3>8. FInv'
      BY <1>2, <1>3, <2>2, <3>6 DEF FInv, NoFalseError, Sent
    <3> QED
      BY <3>7, <3>8
  <2> QED
    BY <2>3, <2>4
<1>6. CASE WriteWouldBlock
  <2>1. spc = "write" /\ spc' = "error" /\ written' = written /\ fin' = fin /\ ~WriterBlocks
    BY <1>6 DEF WriteWouldBlock
  <2>2. SInv'
    BY <1>2, <1>3, <2>1 DEF SInv, Bytes2, Sent
  <2>3. FInv'
    BY <1>2, <1>3, <2>1 DEF FInv, WriterBlocks
  <2> QED
    BY <2>2, <2>3
<1>7. CASE WriteBroken
  <2>1. /\ spc = "write" /\ spc' \in {"error", "dead"} /\ written' = written /\ fin' = fin
        /\ conn = "failed" \/ ReaderGone \/ reach # Everything
    BY <1>7 DEF WriteBroken
  <2>2. SInv'
    BY <1>2, <1>3, <2>1 DEF SInv, Bytes2, Sent
  <2>3. FInv'
    BY <1>2, <1>3, <2>1 DEF FInv, NoFalseError, ReaderGone
  <2> QED
    BY <2>2, <2>3
<1>8. CASE SenderCloses
  <2>1. spc \in Sent /\ spc' = spc /\ written' = written
    BY <1>8 DEF SenderCloses
  <2>2. SInv'
    BY <1>2, <1>3, <2>1 DEF SInv, Bytes2
  <2>3. FInv'
    BY <1>2, <1>3, <2>1 DEF FInv, NoFalseError
  <2> QED
    BY <2>2, <2>3
<1> QED
  BY <1>4, <1>5, <1>6, <1>7, <1>8 DEF Send

\* How far the receiver can be.
LEMMA RecvStep == ASSUME EInv, Recv PROVE SInv' /\ FInv'
<1>1. InSocket /\ UNCHANGED <<clientVars, sendVars, netVars>>
  BY DEF Recv, RecvReady, Read, ReadEnd, ReadWouldBlock, NoFault
<1>2. SInv /\ FInv /\ wire' = wire /\ type' = type
  BY <1>1, SocketIs DEF EInv
<1>3. UNCHANGED <<conn, blocking, cpc, spc, written, fin, reach, fault>>
  BY <1>1 DEF clientVars, sendVars, netVars
<1>4. /\ Len(Stream) = 4 + Len(wire) /\ Size = Len(wire) /\ Len(wire) \in Nat
      /\ written \in Nat /\ taken \in Nat /\ reach \in Nat /\ written <= 4 + Len(wire)
  BY <1>2, StreamIs DEF SInv
<1>5. CASE RecvReady
  <2>1. rpc = "wait" /\ rpc' = "head" /\ taken' = taken /\ (type = "respond" => cpc = "done")
    BY <1>5 DEF RecvReady, MayReceive
  <2>2. taken = 0
    BY <1>2, <2>1 DEF SInv
  <2>3. spc # "idle"
    <3>1. CASE fin
      BY <1>2, <3>1 DEF SInv, Sent
    <3>2. CASE Arrived > 0
      <4>1. written # 0
        BY <1>4, <2>2, <3>2, SMT DEF Arrived, MinOf
      <4> QED
        BY <1>2, <4>1 DEF SInv
    <3> QED
      BY <1>5, <3>1, <3>2 DEF RecvReady, AtEnd
  <2>4. SInv'
    BY <1>2, <1>3, <2>1, <2>2, <2>3 DEF SInv, Bytes2, Returned
  <2>5. FInv'
    BY <1>2, <1>3, <2>1 DEF FInv, NoFalseError, Returned
  <2> QED
    BY <2>4, <2>5
<1>6. CASE Read
  <2> DEFINE to == MinOf(taken + Arrived, Goal)
  <2>1. /\ rpc \in {"head", "body"} /\ Arrived > 0
        /\ \E end \in Ends(taken, to) :
             /\ taken' = end
             /\ rpc' = IF end < Goal THEN rpc ELSE IF rpc = "head" THEN "body" ELSE "ok"
    BY <1>6 DEF Read
  <2>2. spc # "idle" /\ wire # << >>
    BY <1>2, <2>1 DEF SInv
  <2>3. Len(wire) > 0
    <3>1. Len(wire) # 0
      BY <1>2, <2>2, EmptySeq DEF SInv, Bytes2
    <3> QED
      BY <1>4, <3>1, SMT
  <2>4. Goal \in Nat /\ taken < Goal
    BY <1>2, <1>4, <2>1 DEF Goal, SInv
  <2>5. Arrived \in Nat
    BY <1>4, <2>1, SMT DEF Arrived, MinOf
  <2>6. to \in Nat /\ taken < to /\ to <= Goal
    BY <1>4, <2>1, <2>4, <2>5, SMT DEF MinOf
  <2>7. PICK end \in Ends(taken, to) :
          /\ taken' = end
          /\ rpc' = IF end < Goal THEN rpc ELSE IF rpc = "head" THEN "body" ELSE "ok"
    BY <2>1
  <2>8. end \in Nat /\ taken < end /\ end <= Goal
    <3>1. end \in Nat /\ taken < end /\ end <= to
      BY <1>4, <2>6, EndIs
    <3> QED
      BY <2>4, <2>6, <3>1, SMT
  <2>9. /\ rpc' = "head" => rpc = "head" /\ taken' < 4
        /\ rpc' = "body" => 4 <= taken' /\ taken' < 4 + Len(wire)
        /\ rpc' = "ok" => taken' = 4 + Len(wire)
        /\ rpc' \in {"head", "body", "ok"} /\ taken' \in Nat
    <3>1. CASE rpc = "head"
      <4>1. Goal = 4
        BY <3>1 DEF Goal
      <4> QED
        BY <1>4, <2>3, <2>7, <2>8, <3>1, <4>1
    <3>2. CASE rpc = "body"
      <4>1. Goal = 4 + Len(wire) /\ 4 <= taken
        BY <1>2, <1>4, <3>2 DEF Goal, SInv
      <4> QED
        BY <1>4, <2>7, <2>8, <3>2, <4>1
    <3> QED
      BY <2>1, <3>1, <3>2
  <2> HIDE DEF to
  <2>10. SInv'
    BY <1>2, <1>3, <2>2, <2>9 DEF SInv, Bytes2, Returned
  <2>11. FInv'
    BY <1>2, <1>3, <2>1, <2>9 DEF FInv, NoFalseError, Returned
  <2> QED
    BY <2>10, <2>11
<1>7. CASE ReadEnd
  <2>1. rpc \in {"head", "body"} /\ rpc' = "closed" /\ taken' = taken
        /\ Arrived = 0 /\ fin /\ reach = Everything
    BY <1>7 DEF ReadEnd, AtEnd
  <2>2. SInv'
    BY <1>2, <1>3, <2>1 DEF SInv, Bytes2, Returned
  <2>3. FInv'
    <3>1. SUFFICES ASSUME ~fault PROVE FALSE
      BY <1>3 DEF FInv
    <3>2. spc = "sent" /\ written = 4 + Len(wire)
      BY <1>2, <2>1, <3>1 DEF FInv, NoFalseError, SInv
    <3>3. written <= Everything
      <4>1. written <= 508
        BY <1>2, <1>4, SMT DEF SInv, Bytes2
      <4> QED
        BY <1>4, <4>1, EverythingIs
    <3>4. taken = written
      BY <1>4, <2>1, <3>3 DEF Arrived, MinOf
    <3>5. taken < 4 + Len(wire)
      <4>1. rpc = "head" => taken < 4
        BY <1>2 DEF SInv
      <4>2. rpc = "body" => taken < 4 + Len(wire)
        BY <1>2 DEF SInv
      <4> QED
        BY <1>4, <2>1, <4>1, <4>2
    <3> QED
      BY <1>4, <3>2, <3>4, <3>5
  <2> QED
    BY <2>2, <2>3
<1>8. CASE ReadWouldBlock
  <2>1. rpc \in {"head", "body"} /\ rpc' = "error" /\ taken' = taken /\ ~ReaderBlocks
    BY <1>8 DEF ReadWouldBlock
  <2>2. SInv'
    BY <1>2, <1>3, <2>1 DEF SInv, Bytes2, Returned
  <2>3. FInv'
    <3>1. type \in {"request", "respond"}
      BY DEF EInv, CInv, Typed
    <3>2. type = "respond" /\ ~blocking
      BY <2>1, <3>1 DEF ReaderBlocks
    <3>3. fault
      BY <1>2, <2>1, <3>2 DEF FInv
    <3> QED
      BY <1>3, <3>3 DEF FInv
  <2> QED
    BY <2>2, <2>3
<1> QED
  BY <1>5, <1>6, <1>7, <1>8 DEF Recv

LEMMA FaultStep == ASSUME EInv, Fault PROVE InSocket /\ SInv' /\ FInv'
<1>1. InSocket /\ Fails
  BY DEF Fault, ConnectTimesOut, ConnectSelectFails, Refused, SendTimesOut, SendFails,
     SenderKilled, RecvTimesOut, RecvNoMemory, Lost
<1>2. SInv /\ wire' = wire /\ FInv'
  BY <1>1, SocketIs, FaultIs DEF EInv
<1>3. CASE ConnectTimesOut \/ ConnectSelectFails \/ Refused
  BY <1>2, <1>3, SInvRests DEF ConnectTimesOut, ConnectSelectFails, Refused
<1>4. CASE SendTimesOut \/ SendFails
  <2>1. wire # << >> /\ spc' \in {"timeout", "error"}
    BY <1>4, MaySendIs DEF SendTimesOut, SendFails
  <2>2. UNCHANGED <<written, fin, rpc, taken, reach>>
    BY <1>4 DEF SendTimesOut, SendFails, recvVars
  <2> QED
    BY <1>1, <1>2, <2>1, <2>2 DEF SInv, Bytes2, Sent
<1>5. CASE SenderKilled
  <2>1. spc = "write" /\ spc' = "dead" /\ UNCHANGED <<written, fin, rpc, taken, reach>>
    BY <1>5 DEF SenderKilled, recvVars
  <2> QED
    BY <1>1, <1>2, <2>1 DEF SInv, Bytes2, Sent
<1>6. CASE RecvTimesOut
  <2>1. rpc = "wait" /\ rpc' = "timeout" /\ UNCHANGED <<taken, spc, written, fin, reach>>
    BY <1>6 DEF RecvTimesOut, MayReceive, sendVars
  <2> QED
    BY <1>1, <1>2, <2>1 DEF SInv, Bytes2, Returned
<1>7. CASE RecvNoMemory
  <2>1. rpc = "body" /\ rpc' = "error" /\ UNCHANGED <<taken, spc, written, fin, reach>>
    BY <1>7 DEF RecvNoMemory, sendVars
  <2> QED
    BY <1>1, <1>2, <2>1 DEF SInv, Bytes2, Returned
<1>8. CASE Lost
  <2>1. reach' \in {taken, written} /\ UNCHANGED <<rpc, taken, spc, written, fin>>
    BY <1>8 DEF Lost, sendVars, recvVars
  <2> QED
    BY <1>1, <1>2, <2>1 DEF SInv, Bytes2
<1> QED
  BY <1>1, <1>2, <1>3, <1>4, <1>5, <1>6, <1>7, <1>8 DEF Fault

-----------------------------------------------------------------------------
(* The steps of the codecs.                                                *)
LEMMA ExchangeStep == ASSUME EInv, Exchange PROVE EInv'
<1>1. CInv /\ SInv /\ FInv /\ UNCHANGED <<clientVars, sendVars, recvVars, netVars>>
  BY DEF EInv, Exchange
<1>2. UNCHANGED <<conn, blocking, cpc, spc, written, fin, rpc, taken, reach, fault>>
  BY <1>1 DEF clientVars, sendVars, recvVars, netVars
<1>3. CASE Pack1 \/ Pack2
  <2>1. /\ pc = "pack" /\ wire' = WriteSequence(nodes).pData /\ type' = type
        /\ wire = << >> /\ nodes = Nodes1(Count) /\ ~Negative(Layout[1]) /\ Typed
    BY <1>1, <1>3 DEF Pack1, Pack2, Pack, sent, CInv, Writes
  <2>2. wire' \in Seq(Byte) /\ Len(wire') <= 504
    BY <2>1, SentIs
  <2>3. Bytes2'
    BY <2>2 DEF Bytes2
  <2>4. spc = "idle" /\ written = 0 /\ taken \in Nat /\ (rpc = "wait" \/ rpc = "timeout")
    BY <1>1, <2>1 DEF SInv
  <2>5. 0 <= 4 + Len(wire')
    <3>1. Len(wire') \in Nat
      BY <2>2, LenProperties
    <3> QED
      BY <3>1, SMT
  <2>6. SInv'
    BY <1>1, <1>2, <2>3, <2>4, <2>5 DEF SInv, Returned, Sent
  <2>7. FInv'
    BY <1>1, <1>2, <2>1, <2>4 DEF FInv, NoFalseError
  <2>8. CInv'
    BY <1>1, <1>3, PackStep
  <2> QED
    BY <2>6, <2>7, <2>8 DEF EInv
<1>4. ASSUME wire' = wire, type' = type PROVE SInv' /\ FInv'
  <2>1. SInv'
    BY <1>1, <1>4, SInvRests DEF netVars
  <2>2. FInv'
    BY <1>1, <1>2, <1>4 DEF FInv, NoFalseError
  <2> QED
    BY <2>1, <2>2
<1>5. CASE Create \/ WriteCrash \/ WriteHead1 \/ WriteNext1 \/ WriteHead2 \/ WriteNext2
  <2>1. wire' = wire /\ type' = type
    BY <1>5 DEF Create, WriteCrash, WriteHead1, WriteHead2, WriteHead, WriteNext1, WriteNext2,
       AfterWrite, sent
  <2>2. CInv'
    BY <1>1, <1>5, CreateStep, WriteCrashStep, WriteHeadStep, WriteNextStep
  <2> QED
    BY <1>4, <2>1, <2>2 DEF EInv
<1>6. CASE Unpack1 \/ (rpc = "ok" /\ Unpack2(SubSeq(Stream, 5, taken)))
  <2>1. rpc = "ok" => SubSeq(Stream, 5, taken) = wire
    BY <1>1, StreamIs DEF SInv
  <2>2. Unpack(1, wire) \/ Unpack(2, wire)
    BY <1>6, <2>1 DEF Unpack1, Unpack2
  <2>3. UnpackedAs(wire)
    BY <2>2 DEF Unpack, UnpackedAs
  <2>4. wire' = wire /\ type' = type
    BY <2>3 DEF UnpackedAs, sent
  <2> QED
    BY <1>1, <1>4, <2>3, <2>4, UnpackStep DEF EInv
<1>7. CASE Decode
  <2>1. wire' = wire /\ type' = type
    BY <1>7 DEF Decode, ReadInt1, ReadInt2, ReadString1, ReadString2, ReadCrash, AfterRead, sent
  <2>2. CInv'
    BY <1>1, <1>7, ReadStep, ReadCrashStep DEF Decode
  <2> QED
    BY <1>4, <2>1, <2>2 DEF EInv
<1> QED
  BY <1>3, <1>5, <1>6, <1>7 DEF Exchange, Encode

-----------------------------------------------------------------------------
(* The invariant and what follows from it.                                 *)
LEMMA ExchangeInitIs == ASSUME ExchangeInit PROVE EInv
<1>1. Typed
  <2>1. PICK m \in Message : generation = m.generation /\ type = m.type /\ msg = m.fields
    BY DEF ExchangeInit, Init
  <2>2. /\ m.generation \in {1, 2} /\ m.type \in {"request", "respond"}
        /\ m.fields \in IF m.type = "request" THEN RequestStruct ELSE RespondStruct
    BY MessageAssumption
  <2>3. pc = "create"
    BY DEF ExchangeInit, Init
  <2> QED
    BY <2>1, <2>2, <2>3 DEF Typed, Struct
<1>2. /\ pc = "create" /\ k = 1 /\ nodes = << >> /\ wire = << >>
      /\ out = [f \in DOMAIN msg |-> Garbage]
  BY DEF ExchangeInit, Init
<1>3. Writes
  BY <1>2 DEF Writes
<1>4. Reads
  <2>1. Garbage \in Seq(Byte)
    BY EmptySeq DEF Garbage
  <2> QED
    BY <1>2, <2>1 DEF Reads
<1>5. RoundTrip /\ WireIsDer /\ OnlyNegativeFails
  BY <1>2 DEF RoundTrip, WireIsDer, OnlyNegativeFails
<1>6. SInv
  <2>1. Bytes2 /\ 0 <= 4 + Len(wire)
    BY <1>2, EmptySeq DEF Bytes2
  <2>2. reach \in Nat
    BY EverythingIs DEF ExchangeInit
  <2>3. spc = "idle" /\ written = 0 /\ fin = FALSE /\ rpc = "wait" /\ taken = 0
    BY DEF ExchangeInit
  <2> QED
    BY <2>1, <2>2, <2>3 DEF SInv
<1>7. FInv
  BY DEF ExchangeInit, FInv, NoFalseError, Sent, Returned
<1> QED
  BY <1>1, <1>3, <1>4, <1>5, <1>6, <1>7 DEF EInv, CInv

LEMMA ExchangeNext == ASSUME EInv, [Progress \/ Fault]_evars PROVE EInv'
<1>1. CASE Exchange
  BY <1>1, ExchangeStep
<1>2. CASE Connect \/ Send \/ Recv \/ Fault
  <2>1. InSocket
    BY <1>2, FaultStep DEF Connect, ConnectNow, ConnectLater, ConnectReady, Established,
       Send, SendReady, Write, WriteWouldBlock, WriteBroken, SenderCloses,
       Recv, RecvReady, Read, ReadEnd, ReadWouldBlock
  <2>2. CInv'
    BY <2>1, SocketIs, CodecRests DEF EInv
  <2>3. SInv' /\ FInv'
    BY <1>2, ConnectStep, SendStep, RecvStep, FaultStep
  <2> QED
    BY <2>2, <2>3 DEF EInv
<1>3. CASE UNCHANGED evars
  <2>1. UNCHANGED <<vars, clientVars, sendVars, recvVars, netVars>>
    BY <1>3 DEF evars
  <2>2. CInv'
    BY <2>1, CodecRests DEF EInv
  <2>3. wire' = wire /\ type' = type
    BY <2>1 DEF vars
  <2>4. SInv'
    BY <2>1, <2>3, SInvRests DEF netVars, EInv
  <2>5. FInv'
    BY <2>1, <2>3 DEF clientVars, sendVars, recvVars, netVars, EInv, FInv, NoFalseError
  <2> QED
    BY <2>2, <2>4, <2>5 DEF EInv
<1> QED
  BY <1>1, <1>2, <1>3 DEF Progress

(* Codecs, socket and faults keep the invariant.                           *)
THEOREM ExchangeInvariant == ExchangeSpec => []EInv
<1>1. ExchangeInit => EInv
  BY ExchangeInitIs
<1>2. EInv /\ [Progress \/ Fault]_evars => EInv'
  BY ExchangeNext
<1> QED
  BY <1>1, <1>2, PTL DEF ExchangeSpec

(* Whatever the struct, the pieces its bytes travel in and what fails on   *)
(* the way: when msgDecode has read the last field, the receiver has the   *)
(* struct that was sent.                                                   *)
THEOREM MessageIsReadBack == ExchangeSpec => []RoundTrip
<1>1. EInv => RoundTrip
  BY DEF EInv, CInv
<1> QED
  BY <1>1, ExchangeInvariant, PTL

(* packSequence returns DER, and every node of the chain is DER.           *)
THEOREM WhatIsSentIsDer == ExchangeSpec => []WireIsDer
<1>1. EInv => WireIsDer
  BY DEF EInv, CInv
<1> QED
  BY <1>1, ExchangeInvariant, PTL

(* BaseASN1.cpp:184: no codec follows a missing node unless an int of the  *)
(* struct is negative.                                                     *)
THEOREM NegativeIntsCrash == ExchangeSpec => []OnlyNegativeFails
<1>1. EInv => OnlyNegativeFails
  BY DEF EInv, CInv
<1> QED
  BY <1>1, ExchangeInvariant, PTL

(* sendMsg, recvMsg and connectToHost return an error only if something    *)
(* outside of both programs failed.                                        *)
THEOREM ErrorsComeFromOutside == ExchangeSpec => []NoFalseError
<1>1. EInv /\ ~fault => NoFalseError
  BY DEF EInv, FInv
<1>2. fault => NoFalseError
  BY DEF NoFalseError
<1>3. EInv => NoFalseError
  BY <1>1, <1>2
<1> QED
  BY <1>3, ExchangeInvariant, PTL
=============================================================================
