------------------------------ MODULE MsgCodec ------------------------------
(***************************************************************************)
(* One message through RequestCodec or RespondCodec: one program copies a  *)
(* struct into a codec, which writes its fields into a chain of nodes      *)
(* (SequenceASN1.cpp) and packs it; the other program unpacks it with a    *)
(* codec of its own and reads the nodes back.  The client encodes requests *)
(* and decodes answers.  Nobody looks at a return code on the way.         *)
(*                                                                         *)
(* Generation 1 (clientop, serverop) writes strings as bit strings and     *)
(* reads an int through a pointer to the wider ITCAST_UINT32, which        *)
(* overwrites the four bytes that follow it; generation 2 (ClientSeckey,   *)
(* ServerSeckey) writes printable strings and reads an int through a local.*)
(***************************************************************************)
EXTENDS DerCodec

(* The structs.  A string has its final zero and fits in its array.         *)
CharArray(n) == {s \in Seq(Byte) : s # << >> /\ Len(s) <= n}

RequestStruct ==
  [cmdType : Int32, clientId : CharArray(12), authCode : CharArray(65),
   serverId : CharArray(12), r1 : CharArray(64)]
RespondStruct ==
  [rv : Int32, clientId : CharArray(12), serverId : CharArray(12),
   r2 : CharArray(64), seckeyid : Int32]

CONSTANT Message  \* what is sent: a generation, a type and a struct

ASSUME MessageAssumption ==
  \A m \in Message :
    /\ m.generation \in {1, 2} /\ m.type \in {"request", "respond"}
    /\ m.fields \in IF m.type = "request" THEN RequestStruct ELSE RespondStruct

VARIABLES
  generation, type,
  msg,     \* the struct that is sent: field -> bytes
  pc,      \* "create", "write", "pack", "sent", "read", "done", "crash"
  m_msg,   \* the struct in the codec of the sender
  k,       \* the field to write or to read next
  nodes,   \* the chain behind m_header
  m_next,  \* m_next points to a node
  wire,    \* what packSequence returns
  out      \* the struct in the codec of the receiver

vars == <<generation, type, msg, pc, m_msg, k, nodes, m_next, wire, out>>
sent == <<generation, type, msg>>

(* The fields of the structs, in the order of their addresses.             *)
RequestMsg == <<"cmdType", "clientId", "authCode", "serverId", "r1">>
RespondMsg == <<"rv", "clientId", "serverId", "r2", "seckeyid">>
Layout == IF type = "request" THEN RequestMsg ELSE RespondMsg

IsInt(f) == f \in {"cmdType", "rv", "seckeyid"}

\* A field that was not written since the struct was created, or overwritten.
\* An int has four bytes, a string its final zero.
Garbage == << >>

Init ==
  /\ \E m \in Message : generation = m.generation /\ type = m.type /\ msg = m.fields
  /\ pc = "create" /\ k = 1
  /\ m_msg = [f \in DOMAIN msg |-> Garbage]
  /\ nodes = << >> /\ m_next = FALSE
  /\ wire = << >>
  /\ out = [f \in DOMAIN msg |-> Garbage]

-----------------------------------------------------------------------------
(* The sender's codec                                                      *)

(* The fields that the constructors copy.                                  *)
RequestCopy1 == DOMAIN msg
RespondCopy1 == DOMAIN msg
RequestCopy2 == {"cmdType", "clientId", "authCode", "serverId", "r1"}
RespondCopy2 == {"rv", "seckeyid", "clientId", "serverId", "r2"}

(* createCodec of the factories of generation 2: a codec for a struct if   *)
(* the factory was made with one, an empty one if it was not.              *)
RequestFactory(m_flag) == IF m_flag THEN RequestCopy2 ELSE {}
RespondFactory(m_flag) == IF m_flag THEN RespondCopy2 ELSE {}

Copied == IF generation = 1
            THEN IF type = "request" THEN RequestCopy1 ELSE RespondCopy1
            ELSE IF type = "request" THEN RequestFactory(TRUE) ELSE RespondFactory(TRUE)

Create ==
  /\ pc = "create"
  /\ m_msg' = [f \in DOMAIN msg |-> IF f \in Copied THEN msg[f] ELSE Garbage]
  /\ pc' = "write"
  /\ UNCHANGED <<sent, k, nodes, m_next, wire, out>>

(* msgEncode: the fields in the order they are written.                    *)
RequestEncode1 == <<"cmdType", "clientId", "authCode", "serverId", "r1">>
RequestEncode2 == <<"cmdType", "clientId", "authCode", "serverId", "r1">>
\* Mutant of RespondEncode1: r2 before serverId.
RespondEncode1Swapped == <<"rv", "clientId", "r2", "serverId", "seckeyid">>
RespondEncode1 == <<"rv", "clientId", "serverId", "r2", "seckeyid">>
RespondEncode2 == <<"rv", "clientId", "serverId", "r2", "seckeyid">>

EncodeOrder == IF type = "request"
                 THEN <<RequestEncode1, RequestEncode2>>[generation]
                 ELSE <<RespondEncode1, RespondEncode2>>[generation]

AfterWrite == /\ k' = k + 1
              /\ pc' = IF k = Len(EncodeOrder) THEN "pack" ELSE "write"
              /\ UNCHANGED <<sent, m_msg, wire, out>>

Field == EncodeOrder[k]
Value == m_msg[Field]

Node1 == IF IsInt(Field) THEN WriteInteger(SignExtend(Value))
         ELSE WriteBitString(StringToAnyBuf(Value))

Node2 == IF IsInt(Field) THEN WriteInteger(SignExtend(Value)) ELSE EncodeChar(Value)

(* writeHeadNode: after an error m_header and m_next stay NULL.            *)
WriteHead(g, node) ==
  /\ pc = "write" /\ k = 1 /\ generation = g
  /\ nodes' = IF node = Failed THEN << >> ELSE <<node>>
  /\ m_next' = (node # Failed)
  /\ AfterWrite

WriteHead1 == WriteHead(1, Node1)
WriteHead2 == WriteHead(2, Node2)

(* writeNextNode: after an error generation 1 moves on to the NULL behind  *)
(* the last node, generation 2 stays at that node.                         *)
WriteNext1 ==
  /\ pc = "write" /\ k > 1 /\ m_next /\ generation = 1
  /\ nodes' = IF Node1 = Failed THEN nodes ELSE Append(nodes, Node1)
  /\ m_next' = (Node1 # Failed)
  /\ AfterWrite

WriteNext2 ==
  /\ pc = "write" /\ k > 1 /\ m_next /\ generation = 2
  /\ nodes' = IF Node2 = Failed THEN nodes ELSE Append(nodes, Node2)
  /\ AfterWrite /\ UNCHANGED m_next

WriteCrash ==
  /\ pc = "write" /\ k > 1 /\ ~m_next
  /\ pc' = "crash"
  /\ UNCHANGED <<sent, m_msg, k, nodes, m_next, wire, out>>

(* packSequence: generation 1 returns a copy of the bytes, generation 2 the*)
(* bytes of m_temp themselves, which the caller frees.                     *)
Pack(g) ==
  /\ pc = "pack" /\ generation = g
  /\ wire' = WriteSequence(nodes).pData
  /\ pc' = "sent"
  /\ UNCHANGED <<sent, m_msg, k, nodes, m_next, out>>

Pack1 == Pack(1)
Pack2 == Pack(2)

-----------------------------------------------------------------------------
(* The receiver's codec: an empty one                                      *)

Unpacked(bytes) == ReadSequence(StringToAnyBuf(bytes))

(* unpackSequence: after an error the chain of the new object is empty.    *)
Unpack(g, bytes) ==
  /\ pc = "sent" /\ generation = g
  /\ nodes' = Unpacked(bytes)
  /\ pc' = "read" /\ k' = 1
  /\ UNCHANGED <<sent, m_msg, m_next, wire, out>>

Unpack1 == Unpack(1, wire)
Unpack2(bytes) == Unpack(2, bytes)

(* msgDecode: the fields in the order they are read.                       *)
RequestDecode1 == <<"cmdType", "clientId", "authCode", "serverId", "r1">>
RequestDecode2 == <<"cmdType", "clientId", "authCode", "serverId", "r1">>
RespondDecode1 == <<"rv", "clientId", "serverId", "r2", "seckeyid">>
RespondDecode2 == <<"rv", "clientId", "serverId", "r2", "seckeyid">>

DecodeOrder == IF type = "request"
                 THEN <<RequestDecode1, RequestDecode2>>[generation]
                 ELSE <<RespondDecode1, RespondDecode2>>[generation]

IntOf(node) == LastBytes(ReadInteger(node), 4)

(* The fields whose bytes lie behind those of f.                           *)
Behind(f) == {Layout[i] : i \in {j \in 2 .. Len(Layout) : Layout[j - 1] = f}}

AfterRead == /\ k' = k + 1
             /\ pc' = IF k = Len(DecodeOrder) THEN "done" ELSE "read"
             /\ UNCHANGED <<sent, m_msg, nodes, m_next, wire>>

(* readHeadNode and readNextNode.                                          *)
ReadInt1 ==
  LET f == DecodeOrder[k] IN
  /\ pc = "read" /\ k <= Len(nodes) /\ generation = 1 /\ IsInt(f)
  /\ out' = [g \in DOMAIN out |-> IF g = f THEN IntOf(nodes[k])
                                  ELSE IF g \in Behind(f) THEN Garbage ELSE out[g]]
  /\ AfterRead

ReadInt2 ==
  LET f == DecodeOrder[k] IN
  /\ pc = "read" /\ k <= Len(nodes) /\ generation = 2 /\ IsInt(f)
  /\ out' = [out EXCEPT ![f] = IntOf(nodes[k])]
  /\ AfterRead

ReadString1 ==
  LET f == DecodeOrder[k] IN
  /\ pc = "read" /\ k <= Len(nodes) /\ generation = 1 /\ ~IsInt(f)
  /\ out' = [out EXCEPT ![f] = ReadBitString(nodes[k]).pData]
  /\ AfterRead

ReadString2 ==
  LET f == DecodeOrder[k] IN
  /\ pc = "read" /\ k <= Len(nodes) /\ generation = 2 /\ ~IsInt(f)
  /\ out' = [out EXCEPT ![f] = ReadPrintableString(nodes[k]).pData]
  /\ AfterRead

ReadCrash ==
  /\ pc = "read" /\ k > Len(nodes)
  /\ pc' = "crash"
  /\ UNCHANGED <<sent, m_msg, k, nodes, m_next, wire, out>>

Encode == \/ Create \/ WriteCrash
          \/ WriteHead1 \/ WriteNext1 \/ Pack1
          \/ WriteHead2 \/ WriteNext2 \/ Pack2

Decode == ReadInt1 \/ ReadString1 \/ ReadInt2 \/ ReadString2 \/ ReadCrash

-----------------------------------------------------------------------------
(* Properties                                                              *)

(* The struct that is decoded holds the fields of the struct that was      *)
(* encoded: the copies of the codecs agree about the order of the fields,  *)
(* and no length or sign is lost on the way.                               *)
RoundTrip == pc = "done" => out = msg

(* What goes over the wire is DER: lengths are exact and minimal, integers *)
(* are minimal and keep their sign.                                        *)
WireIsDer ==
  wire # << >> =>
    /\ IsDerLength(wire)
    /\ \A node \in {nodes[i] : i \in DOMAIN nodes} :
         /\ IsDerLength(node.pData)
         /\ node.dataType = INTEGER => IsDerInteger(node.pData)

(* BaseASN1.cpp:184: an integer is converted to bytes.  Every message can  *)
(* be sent and read back unless one of its ints is negative: the encoder   *)
(* refuses it, nobody looks at the error, and one side ends at a node that *)
(* does not exist.                                                         *)
OnlyNegativeFails ==
  pc = "crash" => \E f \in DOMAIN msg : IsInt(f) /\ msg[f][1] >= 128
=============================================================================
