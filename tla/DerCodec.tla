------------------------------ MODULE DerCodec ------------------------------
(***************************************************************************)
(* The DER codec of BaseASN1.cpp (one file in five directories): what its  *)
(* encoders and decoders compute, as operators on sequences of bytes.      *)
(*                                                                         *)
(* ITCAST_UINT32 is unsigned long: eight bytes in the 64-bit builds the    *)
(* repository holds.  An integer is here the sequence of its bytes, the    *)
(* most significant first, so that its width is what it is in the program. *)
(* Tags are in the short form, the only one the encoders write.            *)
(***************************************************************************)
EXTENDS Integers, SequencesExt

Byte  == 0 .. 255
Int32 == [1 .. 4 -> Byte]   \* an int of the program
UInt  == [1 .. 8 -> Byte]   \* an ITCAST_UINT32 of the program

(* ITCAST_ANYBUF, without the links of the chain it is a node of.          *)
AnyBuf(type, unused, bytes) ==
  [dataType |-> type, unusedBits |-> unused, pData |-> bytes]

\* What a function that fails leaves in its out parameter: no node.
Failed == AnyBuf(0, 0, << >>)

INTEGER == 2
BITSTRING == 3
NULL == 5
PRINTABLE == 19
BMP == 30
SEQUENCE == 48

Identifier(tag) == tag % 32

LastBytes(s, n) == SubSeq(s, Len(s) - n + 1, Len(s))

-----------------------------------------------------------------------------
(* Integers                                                                *)

(* An int passed as ITCAST_UINT32: the sign fills the upper half.          *)
SignExtend(i) == IF i[1] >= 128 THEN <<255, 255, 255, 255>> \o i
                                ELSE <<0, 0, 0, 0>> \o i

(* Bytes of n without the leading zeros, at least one.                     *)
Significant(n) ==
  LET size == IF n[5] # 0 THEN 4 ELSE IF n[6] # 0 THEN 3
              ELSE IF n[7] # 0 THEN 2 ELSE 1
  IN LastBytes(n, size)

\* Mutant of FitsIn32Bits: the limit is 0xFFFFFF.
FitsIn24Bits(n) == \A i \in 1 .. 5 : n[i] = 0
FitsIn32Bits(n) == \A i \in 1 .. 4 : n[i] = 0

(* A zero byte goes before a first byte that would read as a sign.         *)
Signed(b) == IF b[1] >= 128 THEN <<0>> \o b ELSE b

IntToChar(n) == IF FitsIn32Bits(n) THEN Signed(Significant(n)) ELSE << >>

(* Every byte is shifted in from the right; what leaves on the left is     *)
(* lost.  A leading zero is skipped.                                       *)
CharToInt(d) ==
  LET digits == IF d[1] = 0 /\ Len(d) > 1 THEN Tail(d) ELSE d
  IN LastBytes(<<0, 0, 0, 0, 0, 0, 0, 0>> \o digits, 8)

-----------------------------------------------------------------------------
(* Tag and length                                                          *)

\* Mutant of LengthOfSize: there is no form of two bytes.
LengthOfSizeWide(n) ==
  IF n <= 127 THEN 1 ELSE IF n < 65535 THEN 3 ELSE IF n <= 16777215 THEN 4 ELSE 5

LengthOfSize(n) ==
  IF n <= 127 THEN 1 ELSE IF n <= 255 THEN 2 ELSE IF n < 65535 THEN 3
  ELSE IF n <= 16777215 THEN 4 ELSE 5

\* The byte of n at place i, counted from the least significant one.
Digit(n, i) == (n \div 256 ^ i) % 256

Length(n) ==
  LET size == LengthOfSize(n) - 1
  IN IF size = 0 THEN <<n>>
     ELSE <<128 + size>> \o [i \in 1 .. size |-> Digit(n, size - i)]

(* The tag and the length at the head of d: the length it announces, or -1 *)
(* if it has more than four bytes, and the bytes that tag and length take. *)
TagOf(d) == IF d[1] >= 128 THEN d[1] ELSE Identifier(d[1])

AnnouncedBytes(d, n) ==
  LET f[i \in 0 .. n] == IF i = 0 THEN 0 ELSE f[i - 1] * 256 + d[2 + i]
  IN f[n]

LengthInfo(d) ==
  IF d[2] < 128 THEN [length |-> d[2], head |-> 2]
  ELSE IF d[2] - 128 > 4 THEN [length |-> -1, head |-> 2]
  ELSE [length |-> AnnouncedBytes(d, d[2] - 128), head |-> 2 + d[2] - 128]

-----------------------------------------------------------------------------
(* Nodes                                                                   *)

WriteInteger(n) ==
  LET d == IntToChar(n)
  IN IF d = << >> THEN Failed ELSE AnyBuf(INTEGER, 0, <<INTEGER, Len(d)>> \o d)

(* The bytes that the length announces; nobody compares it with the size   *)
(* of the node.                                                            *)
ReadInteger(node) ==
  LET d == node.pData
  IN CharToInt(SubSeq(d, LengthInfo(d).head + 1, LengthInfo(d).head + LengthInfo(d).length))

(* The unused bits of a string are counted as its length modulo 8.         *)
StringToAnyBuf(s) == AnyBuf(PRINTABLE, Len(s) % 8, s)

(* A bit string carries the number of its unused bits before its bytes.    *)
WriteTagAndLength(buf, tag) ==
  IF Identifier(tag) = BITSTRING
    THEN AnyBuf(tag, buf.unusedBits,
                <<tag>> \o Length(Len(buf.pData) + 1) \o <<buf.unusedBits>> \o buf.pData)
    ELSE AnyBuf(Identifier(tag), 0, <<tag>> \o Length(Len(buf.pData)) \o buf.pData)

(* The length must be that of the node.  Whether the first byte is a number*)
(* of unused bits is decided by the type of the node, not by its tag.      *)
ReadTagAndLength(node) ==
  LET d == node.pData
      content == SubSeq(d, LengthInfo(d).head + 1, Len(d))
  IN IF LengthInfo(d).head + LengthInfo(d).length # Len(d) THEN Failed
     ELSE IF node.dataType = BITSTRING
       THEN AnyBuf(TagOf(d), node.unusedBits, Tail(content))
       ELSE AnyBuf(TagOf(d), 0, content)

WriteBitString(buf) == WriteTagAndLength(buf, BITSTRING)
ReadBitString(node) == ReadTagAndLength(node)

WriteCharString(buf) == WriteTagAndLength(buf, PRINTABLE)
ReadCharString(node) == ReadTagAndLength(node)

WriteBmpString(buf) == WriteTagAndLength(buf, BMP)
ReadBmpString(node) == ReadTagAndLength(node)

WritePrintableString(buf) ==
  IF buf.dataType = BMP THEN WriteBmpString(buf) ELSE WriteCharString(buf)
ReadPrintableString(node) == ReadTagAndLength(node)

(* Text is encoded with its final zero.  No bytes stand for the NULL        *)
(* pointer with length 0, which is a string, too.                          *)
EncodeChar(s) == WritePrintableString(StringToAnyBuf(s))
DecodeChar(node) == ReadPrintableString(node).pData

EncodeUnsignedChar(s) == WriteBitString(StringToAnyBuf(s))
DecodeUnsignedChar(node) == ReadBitString(node).pData

WriteNull == AnyBuf(NULL, 0, <<NULL, 0>>)
ReadNull(node) == SubSeq(node.pData, 1, 2) = <<5, 0>>

-----------------------------------------------------------------------------
(* Sequences                                                               *)

WriteSequence(nodes) ==
  LET body == FlattenSeq([i \in DOMAIN nodes |-> nodes[i].pData])
  IN AnyBuf(Identifier(SEQUENCE), 0, <<SEQUENCE>> \o Length(Len(body)) \o body)

WriteNullSequence == WriteSequence(<<WriteNull>>)

NodeSize(b) == LengthInfo(b).head + LengthInfo(b).length

(* The nodes at the head of b, and whether they end where b ends.  A node  *)
(* that passes the end of b wraps lTotalLength around, and the loop runs   *)
(* out of b: that is the end of it, too.                                   *)
Nodes(b) ==
  LET from(p) == SubSeq(b, p, Len(b))
      f[p \in 1 .. Len(b) + 1] ==
        IF p = Len(b) + 1 THEN [chain |-> << >>, whole |-> TRUE]
        ELSE LET next == p + NodeSize(from(p))
             IN IF LengthInfo(from(p)).length < 0 \/ next \notin p + 1 .. Len(b) + 1
                THEN [chain |-> << >>, whole |-> FALSE]
                ELSE [f[next] EXCEPT !.chain =
                        <<AnyBuf(TagOf(from(p)), 0, SubSeq(b, p, next - 1))>> \o @]
  IN f[1]

(* After an error the caller's pointer keeps what it was: NULL, no chain.  *)
ReadSequence(buf) ==
  LET d == buf.pData
      nodes == Nodes(SubSeq(d, LengthInfo(d).head + 1, Len(d)))
  IN IF /\ TagOf(d) = Identifier(SEQUENCE)
        /\ LengthInfo(d).length >= 0
        /\ NodeSize(d) = Len(d)
        /\ nodes.whole
     THEN nodes.chain ELSE << >>

-----------------------------------------------------------------------------
(* Reference definitions: what DER requires.                               *)

(* Only the number says how large it is: no leading zero byte but one that *)
(* keeps the sign bit clear.                                               *)
IsDerInteger(d) ==
  LET c == SubSeq(d, LengthInfo(d).head + 1, Len(d))
  IN /\ c[1] < 128
     /\ Len(c) > 1 /\ c[1] = 0 => c[2] >= 128

(* The length is that of the bytes that follow, in as few bytes as it fits.*)
IsDerLength(d) ==
  /\ LengthInfo(d).head + LengthInfo(d).length = Len(d)
  /\ (d[2] < 128) = (LengthInfo(d).length < 128)
  /\ d[2] > 128 => d[3] # 0
=============================================================================
