--------------------------- MODULE DerCodecProofs ---------------------------
(***************************************************************************)
(* Theorems about the operators of DerCodec: what the encoders write is    *)
(* DER and is what the decoders read back, for every int that is not       *)
(* negative, for strings of up to 65533 bytes, and for a sequence of any   *)
(* such nodes whose length has one of the forms of up to two bytes.        *)
(*                                                                         *)
(* Nodes and FlattenSeq are recursive.  The least counterexample of what   *)
(* they compute would have a smaller one (Induction, from WFMin).  The     *)
(* other lemmas say what tag and length are read as if anything follows.   *)
(***************************************************************************)
EXTENDS DerCodec, SequenceTheorems, WellFoundedInduction, TLAPS

LEMMA AnnouncedOne ==
  ASSUME NEW d, d[3] \in Int
  PROVE  AnnouncedBytes(d, 1) = d[3]
<1> DEFINE e(g) == [i \in 0 .. 1 |-> IF i = 0 THEN 0 ELSE g[i - 1] * 256 + d[2 + i]]
           f == CHOOSE g : g = e(g)
<1>1. AnnouncedBytes(d, 1) = f[1]
  BY DEF AnnouncedBytes
<1>2. \E g : g = e(g)
  <2> DEFINE g == [i \in 0 .. 1 |-> IF i = 0 THEN 0 ELSE d[3]]
  <2>1. \A i \in 0 .. 1 : g[i] = e(g)[i]
    OBVIOUS
  <2>2. g = e(g)
    BY <2>1
  <2> QED
    BY <2>2
<1> HIDE DEF e
<1>3. f = e(f)
  BY <1>2
<1>4. f[0] = 0 /\ f[1] = f[0] * 256 + d[3]
  <2>1. e(f)[0] = 0 /\ e(f)[1] = f[0] * 256 + d[3]
    BY DEF e
  <2> HIDE DEF f
  <2> QED
    BY <1>3, <2>1
<1> QED
  BY <1>1, <1>4

LEMMA AnnouncedTwo ==
  ASSUME NEW d, d[3] \in Int, d[4] \in Int
  PROVE  AnnouncedBytes(d, 2) = d[3] * 256 + d[4]
<1> DEFINE e(g) == [i \in 0 .. 2 |-> IF i = 0 THEN 0 ELSE g[i - 1] * 256 + d[2 + i]]
           f == CHOOSE g : g = e(g)
<1>1. AnnouncedBytes(d, 2) = f[2]
  BY DEF AnnouncedBytes
<1>2. \E g : g = e(g)
  <2> DEFINE g == [i \in 0 .. 2 |-> IF i = 0 THEN 0 ELSE IF i = 1 THEN d[3] ELSE d[3] * 256 + d[4]]
  <2>1. \A i \in 0 .. 2 : g[i] = e(g)[i]
    OBVIOUS
  <2>2. g = e(g)
    BY <2>1
  <2> QED
    BY <2>2
<1> HIDE DEF e
<1>3. f = e(f)
  BY <1>2
<1>4. f[0] = 0 /\ f[1] = f[0] * 256 + d[3] /\ f[2] = f[1] * 256 + d[4]
  <2>1. e(f)[0] = 0 /\ e(f)[1] = f[0] * 256 + d[3] /\ e(f)[2] = f[1] * 256 + d[4]
    BY DEF e
  <2> HIDE DEF f
  <2> QED
    BY <1>3, <2>1
<1> QED
  BY <1>1, <1>4

(* Sequences written out.                                                  *)
LEMMA Pair ==
  ASSUME NEW a, NEW b PROVE <<a>> \o <<b>> = <<a, b>>
<1> DEFINE T == {a, b}
<1>1. <<a>> \in Seq(T) /\ <<b>> \in Seq(T) /\ <<a, b>> \in Seq(T)
  OBVIOUS
<1>2. Len(<<a>>) = 1 /\ Len(<<b>>) = 1 /\ Len(<<a, b>>) = 2
  OBVIOUS
<1> HIDE DEF T
<1>3. /\ <<a>> \o <<b>> \in Seq(T) /\ Len(<<a>> \o <<b>>) = 2
      /\ \A i \in 1 .. 2 : (<<a>> \o <<b>>)[i] = <<a, b>>[i]
  BY <1>1, <1>2, ConcatProperties
<1> QED
  BY <1>1, <1>2, <1>3, SeqEqual

LEMMA Triple ==
  ASSUME NEW a, NEW b, NEW c PROVE <<a>> \o <<b, c>> = <<a, b, c>>
<1> DEFINE T == {a, b, c}
<1>1. <<a>> \in Seq(T) /\ <<b, c>> \in Seq(T) /\ <<a, b, c>> \in Seq(T)
  OBVIOUS
<1>2. Len(<<a>>) = 1 /\ Len(<<b, c>>) = 2 /\ Len(<<a, b, c>>) = 3
  OBVIOUS
<1> HIDE DEF T
<1>3. /\ <<a>> \o <<b, c>> \in Seq(T) /\ Len(<<a>> \o <<b, c>>) = 3
      /\ \A i \in 1 .. 3 : (<<a>> \o <<b, c>>)[i] = <<a, b, c>>[i]
  BY <1>1, <1>2, ConcatProperties
<1> QED
  BY <1>1, <1>2, <1>3, SeqEqual

LEMMA FunctionIsSeq ==
  ASSUME NEW T, NEW k \in Nat, NEW f \in [1 .. k -> T] PROVE f \in Seq(T) /\ Len(f) = k
BY SMT

LEMMA SeqOfSubset ==
  ASSUME NEW S, NEW T, S \subseteq T, NEW s \in Seq(S) PROVE s \in Seq(T)
<1>1. s \in [1 .. Len(s) -> S] /\ Len(s) \in Nat
  BY LenProperties
<1>2. s \in [1 .. Len(s) -> T]
  BY <1>1
<1> QED
  BY <1>1, <1>2, FunctionIsSeq

LEMMA ByteIs == \A x : x \in Byte <=> x \in Nat /\ x < 256
BY SMT DEF Byte

LEMMA Joined ==
  ASSUME NEW s \in Seq(Byte), NEW t \in Seq(Byte)
  PROVE  /\ s \o t \in Seq(Byte) /\ Len(s) \in Nat /\ Len(t) \in Nat
         /\ Len(s \o t) = Len(s) + Len(t)
         /\ \A i \in 1 .. Len(s) : (s \o t)[i] = s[i]
         /\ \A i \in 1 .. Len(t) : (s \o t)[Len(s) + i] = t[i]
BY SMT

LEMMA Part ==
  ASSUME NEW s \in Seq(Byte), NEW m \in Nat, NEW n \in Nat, 1 <= m, m <= n + 1, n <= Len(s)
  PROVE  /\ SubSeq(s, m, n) \in Seq(Byte)
         /\ Len(SubSeq(s, m, n)) = n - m + 1
         /\ \A i \in 1 .. n - m + 1 : SubSeq(s, m, n)[i] = s[m + i - 1]
BY ElementOfSeq, SubSeqProperties, SMT

LEMMA Same ==
  ASSUME NEW s \in Seq(Byte), NEW t \in Seq(Byte), Len(s) = Len(t),
         \A i \in 1 .. Len(s) : s[i] = t[i]
  PROVE  s = t
BY SeqEqual, SMT

LEMMA SmallMod == ASSUME NEW x \in Nat, x < 256 PROVE x % 256 = x
BY SMT

(* The digits of a number to the base 256, of those with at most two.      *)
LEMMA DigitIs ==
  ASSUME NEW n \in Nat PROVE Digit(n, 0) = n % 256 /\ Digit(n, 1) = (n \div 256) % 256
<1>1. Digit(n, 0) = (n \div 1) % 256 /\ Digit(n, 1) = (n \div 256) % 256
  BY SMTT(10) DEF Digit
<1>2. n \div 1 = n
  BY SMTT(10)
<1> QED
  BY <1>1, <1>2, SMTT(10)

\* The sizes that the length of a node is proved about.
Sizes == {n \in Nat : n < 65535}

LEMMA Digits ==
  ASSUME NEW n \in Sizes
  PROVE  /\ Digit(n, 0) \in Byte /\ Digit(n, 1) \in Byte
         /\ Digit(n, 1) * 256 + Digit(n, 0) = n
         /\ n < 256 => Digit(n, 0) = n
         /\ n >= 256 => Digit(n, 1) # 0
<1> USE DEF Sizes
<1>1. PICK q, r : q = n \div 256 /\ r = n % 256
  BY SMTT(10)
<1>2. q \in Nat /\ q < 256 /\ r \in Nat /\ r < 256 /\ q * 256 + r = n
  BY <1>1, SMTT(10)
<1>3. q % 256 = q
  BY <1>2, SmallMod, SMTT(10)
<1>4. Digit(n, 0) = r /\ Digit(n, 1) = q
  BY <1>1, <1>3, DigitIs, SMTT(10)
<1>5. r \in Byte /\ q \in Byte
  BY <1>2, ByteIs, SMTT(10)
<1> QED
  BY <1>2, <1>4, <1>5, SMTT(10)

(* Length: the three forms that numbers below 65535 take.                  *)
LEMMA ShortLength == ASSUME NEW n \in Nat, n < 128 PROVE Length(n) = <<n>>
BY SMT DEF Length, LengthOfSize

LEMMA MediumLength ==
  ASSUME NEW n \in Nat, 128 <= n, n < 256 PROVE Length(n) = <<129, n>>
<1>1. LengthOfSize(n) - 1 = 1
  BY SMT DEF LengthOfSize
<1>2. Length(n) = <<129>> \o [i \in 1 .. 1 |-> Digit(n, 1 - i)]
  BY <1>1, SMT DEF Length
<1>3. Digit(n, 0) = n
  BY Digits, SMT DEF Sizes
<1>4. [i \in 1 .. 1 |-> Digit(n, 1 - i)] = <<n>>
  BY <1>3, SMT
<1> QED
  BY <1>2, <1>4, Pair, SMT

LEMMA LongLength ==
  ASSUME NEW n \in Nat, 256 <= n, n < 65535
  PROVE  Length(n) = <<130, Digit(n, 1), Digit(n, 0)>>
<1>1. LengthOfSize(n) - 1 = 2
  BY SMT DEF LengthOfSize
<1>2. Length(n) = <<130>> \o [i \in 1 .. 2 |-> Digit(n, 2 - i)]
  BY <1>1, SMT DEF Length
<1>3. [i \in 1 .. 2 |-> Digit(n, 2 - i)] = <<Digit(n, 1), Digit(n, 0)>>
  BY SMT
<1> QED
  BY <1>2, <1>3, Triple, SMT

(* What LengthInfo finds at the head of d if a tag and Length(n) are there.*)
LEMMA LengthIsRead ==
  ASSUME NEW n \in Sizes, NEW d \in Seq(Byte), d[2] \in Int,
         \A i \in DOMAIN Length(n) : d[i + 1] = Length(n)[i]
  PROVE  /\ LengthInfo(d) = [length |-> n, head |-> 1 + Len(Length(n))]
         /\ Length(n) \in Seq(Byte) /\ Len(Length(n)) \in {1, 2, 3}
         /\ n < 128 => Len(Length(n)) = 1
         /\ (d[2] < 128) = (n < 128)
         /\ d[2] > 128 => d[3] # 0
<1> USE DEF Sizes
<1>1. CASE n < 128
  <2>1. Length(n) = <<n>> /\ n \in Byte
    BY <1>1, ShortLength, ByteIs, SMT
  <2>2. Length(n) \in Seq(Byte) /\ Len(Length(n)) = 1 /\ DOMAIN Length(n) = 1 .. 1
        /\ Length(n)[1] = n
    BY <2>1, SMT
  <2>3. d[2] = n
    BY <2>2, SMT
  <2> QED
    BY <1>1, <2>2, <2>3, SMT DEF LengthInfo
<1>2. CASE 128 <= n /\ n < 256
  <2>1. Length(n) = <<129, n>> /\ n \in Byte /\ 129 \in Byte
    BY <1>2, MediumLength, ByteIs, SMT
  <2>2. Length(n) \in Seq(Byte) /\ Len(Length(n)) = 2 /\ DOMAIN Length(n) = 1 .. 2
        /\ Length(n)[1] = 129 /\ Length(n)[2] = n
    BY <2>1, SMT
  <2>3. d[2] = 129 /\ d[3] = n
    BY <2>2, SMT
  <2>4. AnnouncedBytes(d, 1) = n
    BY <2>3, AnnouncedOne, SMT
  <2> QED
    BY <1>2, <2>2, <2>3, <2>4, SMT DEF LengthInfo
<1>3. CASE 256 <= n
  <2>1. /\ Length(n) = <<130, Digit(n, 1), Digit(n, 0)>> /\ 130 \in Byte
        /\ Digit(n, 1) \in Byte /\ Digit(n, 0) \in Byte /\ Digit(n, 1) # 0
        /\ Digit(n, 1) * 256 + Digit(n, 0) = n
    <3>1. Length(n) = <<130, Digit(n, 1), Digit(n, 0)>>
      BY <1>3, LongLength, SMT
    <3>2. 130 \in Byte
      BY ByteIs, SMT
    <3> QED
      BY <1>3, <3>1, <3>2, Digits, SMT
  <2>2. Length(n) \in Seq(Byte) /\ Len(Length(n)) = 3 /\ DOMAIN Length(n) = 1 .. 3
        /\ Length(n)[1] = 130 /\ Length(n)[2] = Digit(n, 1) /\ Length(n)[3] = Digit(n, 0)
    BY <2>1, SMT
  <2>3. d[2] = 130 /\ d[3] = Digit(n, 1) /\ d[4] = Digit(n, 0)
    BY <2>2, SMT
  <2>4. AnnouncedBytes(d, 2) = n
    BY <2>1, <2>3, AnnouncedTwo, ByteIs, SMT
  <2> QED
    BY <1>3, <2>1, <2>2, <2>3, <2>4, SMT DEF LengthInfo
<1> QED
  BY <1>1, <1>2, <1>3, SMT

-----------------------------------------------------------------------------
(* Tag and length, and what follows them.                                  *)
Header(tag, n) == <<tag>> \o Length(n)
Encoded(tag, n, rest) == Header(tag, n) \o rest

LEMMA LengthIsBytes ==
  ASSUME NEW n \in Sizes
  PROVE  /\ Length(n) \in Seq(Byte) /\ Len(Length(n)) \in {1, 2, 3}
         /\ n < 128 => Len(Length(n)) = 1
<1> USE DEF Sizes
<1>1. CASE n < 128
  <2>1. Length(n) = <<n>> /\ n \in Byte
    BY <1>1, ShortLength, ByteIs, SMT
  <2> QED
    BY <2>1, SMT
<1>2. CASE 128 <= n /\ n < 256
  <2>1. Length(n) = <<129, n>> /\ n \in Byte /\ 129 \in Byte
    BY <1>2, MediumLength, ByteIs, SMT
  <2> QED
    BY <1>2, <2>1, SMT
<1>3. CASE 256 <= n
  <2>1. Length(n) = <<130, Digit(n, 1), Digit(n, 0)>>
    BY <1>3, LongLength, SMT
  <2>2. 130 \in Byte
    BY ByteIs, SMT
  <2> QED
    BY <1>3, <2>1, <2>2, Digits, SMT
<1> QED
  BY <1>1, <1>2, <1>3, SMT

LEMMA HeaderIsRead ==
  ASSUME NEW tag \in Byte, NEW n \in Sizes, NEW rest \in Seq(Byte),
         NEW d, d = Encoded(tag, n, rest)
  PROVE  /\ d \in Seq(Byte) /\ d[1] = tag
         /\ Len(d) = 1 + Len(Length(n)) + Len(rest)
         /\ LengthInfo(d) = [length |-> n, head |-> 1 + Len(Length(n))]
         /\ SubSeq(d, 2 + Len(Length(n)), Len(d)) = rest
         /\ (d[2] < 128) = (n < 128)
         /\ d[2] > 128 => d[3] # 0
<1>1. Length(n) \in Seq(Byte) /\ Len(Length(n)) \in {1, 2, 3} /\ <<tag>> \in Seq(Byte)
  BY LengthIsBytes, SMT
<1>2. /\ Header(tag, n) \in Seq(Byte) /\ Len(Header(tag, n)) = 1 + Len(Length(n))
      /\ Header(tag, n)[1] = tag
      /\ \A i \in 1 .. Len(Length(n)) : Header(tag, n)[i + 1] = Length(n)[i]
  <2> DEFINE t == <<tag>>
  <2>1. /\ t \o Length(n) \in Seq(Byte)
        /\ Len(t \o Length(n)) = Len(t) + Len(Length(n))
        /\ \A i \in 1 .. Len(t) : (t \o Length(n))[i] = t[i]
        /\ \A i \in 1 .. Len(Length(n)) : (t \o Length(n))[Len(t) + i] = Length(n)[i]
    <3> HIDE DEF t
    <3> QED
      BY <1>1, Joined, SMT DEF t
  <2>2. Len(<<tag>>) = 1 /\ <<tag>>[1] = tag
    BY SMT
  <2> QED
    BY <1>1, <2>1, <2>2, SMT DEF Header
<1> DEFINE l == Len(Length(n))
           h == Header(tag, n)
<1> HIDE DEF h
<1>3. /\ d \in Seq(Byte) /\ Len(d) = 1 + l + Len(rest)
      /\ \A i \in 1 .. 1 + l : d[i] = h[i]
      /\ \A i \in 1 .. Len(rest) : d[1 + l + i] = rest[i]
  <2>1. /\ h \o rest \in Seq(Byte)
        /\ Len(h \o rest) = Len(h) + Len(rest)
        /\ \A i \in 1 .. Len(h) : (h \o rest)[i] = h[i]
        /\ \A i \in 1 .. Len(rest) : (h \o rest)[Len(h) + i] = rest[i]
    <3>1. h \in Seq(Byte)
      BY <1>2 DEF h
    <3> QED
      BY <3>1, Joined, SMT
  <2>2. Len(h) = 1 + l /\ Len(rest) \in Nat /\ d = h \o rest
    BY <1>2, SMT DEF h, Encoded
  <2> QED
    BY <1>1, <2>1, <2>2, SMT
<1>4. d[1] = tag /\ \A i \in DOMAIN Length(n) : d[i + 1] = Length(n)[i]
  <2>1. DOMAIN Length(n) = 1 .. l /\ l \in Nat
    BY <1>1, SMT
  <2>2. h[1] = tag /\ \A i \in 1 .. l : h[i + 1] = Length(n)[i]
    BY <1>2, SMT DEF h
  <2>3. \A i \in 1 .. 1 + l : d[i] = h[i]
    BY <1>3
  <2> HIDE DEF l
  <2>4. d[1] = h[1] /\ \A i \in 1 .. l : d[i + 1] = h[i + 1]
    BY <2>1, <2>3, SMT
  <2> QED
    BY <2>1, <2>2, <2>4, SMT
<1>5. d[2] \in Int
  BY <1>1, <1>3, ByteIs, SMT
<1>6. SubSeq(d, 2 + l, Len(d)) = rest
  <2>1. Len(rest) \in Nat
    BY SMT
  <2>2. /\ SubSeq(d, 2 + l, Len(d)) \in Seq(Byte)
        /\ Len(SubSeq(d, 2 + l, Len(d))) = Len(rest)
        /\ \A i \in 1 .. Len(rest) : SubSeq(d, 2 + l, Len(d))[i] = d[1 + l + i]
    BY <1>1, <1>3, <2>1, Part, SMT
  <2> QED
    BY <1>3, <2>2, Same, SMT
<1>7. /\ LengthInfo(d) = [length |-> n, head |-> 1 + Len(Length(n))]
      /\ (d[2] < 128) = (n < 128)
      /\ d[2] > 128 => d[3] # 0
  BY <1>3, <1>4, <1>5, LengthIsRead
<1> QED
  BY <1>3, <1>4, <1>6, <1>7, SMT

LEMMA Continued ==
  ASSUME NEW tag \in Byte, NEW n \in Sizes, NEW rest \in Seq(Byte),
         NEW more \in Seq(Byte)
  PROVE  Encoded(tag, n, rest) \o more = Encoded(tag, n, rest \o more)
<1>1. <<tag>> \in Seq(Byte) /\ Length(n) \in Seq(Byte)
  BY LengthIsBytes, SMT
<1>2. Header(tag, n) \in Seq(Byte)
  BY <1>1, Joined DEF Header
<1> QED
  BY <1>2, ConcatAssociative DEF Encoded

-----------------------------------------------------------------------------
(* Integers: what is written for an int that is not negative is read back. *)
LEMMA FunctionIsBytes ==
  ASSUME NEW k \in Nat, NEW f \in [1 .. k -> Byte] PROVE f \in Seq(Byte) /\ Len(f) = k
BY SMT

LEMMA IntIsBytes ==
  ASSUME NEW i \in Int32
  PROVE  /\ i \in Seq(Byte) /\ Len(i) = 4
         /\ i[1] \in Byte /\ i[2] \in Byte /\ i[3] \in Byte /\ i[4] \in Byte
<1>1. PICK k \in Nat : k = 4
  OBVIOUS
<1>2. i \in [1 .. k -> Byte]
  BY <1>1 DEF Int32
<1>3. i \in Seq(Byte) /\ Len(i) = 4
  BY <1>1, <1>2, FunctionIsBytes
<1> QED
  BY <1>3, ElementOfSeq, SMT

LEMMA LastBytesAre ==
  ASSUME NEW s \in Seq(Byte), NEW n \in Nat, n <= Len(s)
  PROVE  /\ LastBytes(s, n) \in Seq(Byte) /\ Len(LastBytes(s, n)) = n
         /\ \A j \in 1 .. n : LastBytes(s, n)[j] = s[Len(s) - n + j]
<1>1. Len(s) \in Nat
  BY SMT
<1> QED
  BY <1>1, Part, SMT DEF LastBytes

\* How many bytes of an int are significant.
SizeOf(i) == IF i[1] # 0 THEN 4 ELSE IF i[2] # 0 THEN 3 ELSE IF i[3] # 0 THEN 2 ELSE 1

LEMMA Extended ==
  ASSUME NEW i \in Int32, i[1] < 128
  PROVE  /\ SignExtend(i) \in Seq(Byte) /\ Len(SignExtend(i)) = 8
         /\ \A j \in 1 .. 4 : SignExtend(i)[j] = 0 /\ SignExtend(i)[4 + j] = i[j]
<1> DEFINE z == <<0, 0, 0, 0>>
<1>1. z \in Seq(Byte) /\ Len(z) = 4 /\ \A j \in 1 .. 4 : z[j] = 0
  <2>1. 0 \in Byte
    BY ByteIs, SMT
  <2> QED
    BY <2>1, SMT
<1>2. SignExtend(i) = z \o i
  <2>1. ~(i[1] >= 128)
    BY IntIsBytes, ByteIs, SMT
  <2> QED
    BY <2>1 DEF SignExtend
<1> HIDE DEF z
<1>3. /\ z \o i \in Seq(Byte) /\ Len(z \o i) = 8
      /\ \A j \in 1 .. 4 : (z \o i)[j] = z[j] /\ (z \o i)[4 + j] = i[j]
  BY <1>1, IntIsBytes, Joined, SMT
<1> QED
  <2>1. \A j \in 1 .. 4 : z[j] = 0 /\ (z \o i)[j] = z[j] /\ (z \o i)[4 + j] = i[j]
    BY <1>1, <1>3
  <2>2. \A j \in 1 .. 4 : (z \o i)[j] = 0 /\ (z \o i)[4 + j] = i[j]
    BY <2>1
  <2> QED
    BY <1>2, <1>3, <2>2

LEMMA SignificantBytes ==
  ASSUME NEW i \in Int32, i[1] < 128
  PROVE  LET sig == Significant(SignExtend(i)) IN
         /\ SizeOf(i) \in 1 .. 4
         /\ sig \in Seq(Byte) /\ Len(sig) = SizeOf(i)
         /\ \A j \in 1 .. SizeOf(i) : sig[j] = i[4 - SizeOf(i) + j]
         /\ \A j \in 1 .. 4 - SizeOf(i) : i[j] = 0
         /\ SizeOf(i) > 1 => sig[1] # 0
         /\ FitsIn32Bits(SignExtend(i))
<1> DEFINE n == SignExtend(i)
           size == SizeOf(i)
<1>1. size \in 1 .. 4 /\ (\A j \in 1 .. 4 - size : i[j] = 0) /\ (size > 1 => i[5 - size] # 0)
  BY IntIsBytes, SMT DEF SizeOf
<1>2. /\ n \in Seq(Byte) /\ Len(n) = 8
      /\ \A j \in 1 .. 4 : n[j] = 0 /\ n[4 + j] = i[j]
  BY Extended, SMT
<1> HIDE DEF n
<1>3. n[5] = i[1] /\ n[6] = i[2] /\ n[7] = i[3]
  BY <1>2, SMT
<1>4. Significant(n) = LastBytes(n, size)
  BY <1>3, SMT DEF Significant, SizeOf
<1> HIDE DEF size
<1>5. /\ LastBytes(n, size) \in Seq(Byte) /\ Len(LastBytes(n, size)) = size
      /\ \A j \in 1 .. size : LastBytes(n, size)[j] = n[8 - size + j]
  <2>1. size \in Nat /\ size <= Len(n)
    BY <1>1, <1>2, SMT
  <2>2. /\ LastBytes(n, size) \in Seq(Byte) /\ Len(LastBytes(n, size)) = size
        /\ \A j \in 1 .. size : LastBytes(n, size)[j] = n[Len(n) - size + j]
    BY <1>2, <2>1, LastBytesAre
  <2> QED
    BY <1>2, <2>2
<1>6. \A j \in 1 .. size : n[8 - size + j] = i[4 - size + j]
  <2> SUFFICES ASSUME NEW j \in 1 .. size PROVE n[8 - size + j] = i[4 - size + j]
    OBVIOUS
  <2>1. PICK h \in 1 .. 4 : h = 4 - size + j
    BY <1>1, SMT
  <2>2. n[4 + h] = i[h]
    BY <1>2
  <2> QED
    BY <1>1, <2>1, <2>2, SMT
<1>7. FitsIn32Bits(n)
  BY <1>2, SMT DEF FitsIn32Bits
<1>8. size > 1 => LastBytes(n, size)[1] # 0
  BY <1>1, <1>5, <1>6, SMT
<1> QED
  BY <1>1, <1>4, <1>5, <1>6, <1>7, <1>8 DEF n, size

LEMMA CharOfInt ==
  ASSUME NEW i \in Int32, i[1] < 128
  PROVE  LET d == IntToChar(SignExtend(i))
             sig == Significant(SignExtend(i))
         IN /\ d \in Seq(Byte) /\ Len(d) \in 1 .. 5
            /\ d[1] < 128 /\ (Len(d) > 1 /\ d[1] = 0 => d[2] >= 128)
            /\ (IF d[1] = 0 /\ Len(d) > 1 THEN Tail(d) ELSE d) = sig
<1> DEFINE d == IntToChar(SignExtend(i))
           sig == Significant(SignExtend(i))
           size == SizeOf(i)
           z == <<0>>
<1>1. /\ size \in 1 .. 4 /\ sig \in Seq(Byte) /\ Len(sig) = size
      /\ (size > 1 => sig[1] # 0) /\ FitsIn32Bits(SignExtend(i))
  BY SignificantBytes
<1>2. d = IF sig[1] >= 128 THEN z \o sig ELSE sig
  BY <1>1 DEF IntToChar, Signed
<1>3. z \in Seq(Byte) /\ Len(z) = 1 /\ z[1] = 0
  <2>1. 0 \in Byte
    BY ByteIs, SMT
  <2> QED
    BY <2>1, SMT
<1> HIDE DEF d, sig, size, z
<1>4. 1 \in 1 .. Len(sig) /\ sig[1] \in Byte /\ size \in Nat
  BY <1>1, ElementOfSeq, SMT
<1>5. CASE sig[1] >= 128
  <2>1. /\ d \in Seq(Byte) /\ Len(d) = 1 + size
        /\ \A j \in 1 .. Len(z) : d[j] = z[j]
        /\ \A j \in 1 .. Len(sig) : d[Len(z) + j] = sig[j]
    <3>1. d = z \o sig
      BY <1>2, <1>5
    <3>2. /\ z \o sig \in Seq(Byte) /\ Len(z \o sig) = Len(z) + Len(sig)
          /\ \A j \in 1 .. Len(z) : (z \o sig)[j] = z[j]
          /\ \A j \in 1 .. Len(sig) : (z \o sig)[Len(z) + j] = sig[j]
      BY <1>1, <1>3, Joined
    <3> QED
      BY <1>1, <1>3, <3>1, <3>2
  <2>2. d[1] = 0 /\ \A j \in 1 .. size : d[1 + j] = sig[j]
    BY <1>1, <1>3, <2>1
  <2>3. /\ Tail(d) \in Seq(Byte) /\ Len(Tail(d)) = size
        /\ \A j \in 1 .. size : Tail(d)[j] = d[1 + j]
    BY <1>4, <2>1, SMT
  <2>4. Tail(d) = sig
    BY <1>1, <2>2, <2>3, Same
  <2>5. d[2] = sig[1]
    BY <1>1, <1>4, <2>2, SMT
  <2>6. Len(d) \in 1 .. 5 /\ Len(d) > 1
    BY <1>1, <2>1, SMT
  <2> QED
    BY <1>5, <2>1, <2>2, <2>4, <2>5, <2>6, SMT DEF d, sig
<1>6. CASE ~(sig[1] >= 128)
  <2>1. d = sig
    BY <1>2, <1>6
  <2>2. sig[1] < 128
    BY <1>4, <1>6, ByteIs, SMT
  <2>3. ~(d[1] = 0 /\ Len(d) > 1)
    BY <1>1, <2>1
  <2>4. Len(d) \in 1 .. 5
    BY <1>1, <2>1, SMT
  <2> QED
    BY <1>1, <2>1, <2>2, <2>3, <2>4 DEF d, sig
<1> QED
  BY <1>5, <1>6

LEMMA IntOfChar ==
  ASSUME NEW i \in Int32, i[1] < 128
  PROVE  LastBytes(CharToInt(IntToChar(SignExtend(i))), 4) = i
<1> DEFINE sig == Significant(SignExtend(i))
           size == SizeOf(i)
           z == <<0, 0, 0, 0, 0, 0, 0, 0>>
           x == z \o sig
           y == LastBytes(x, 8)
           r == LastBytes(y, 4)
<1>1. LastBytes(CharToInt(IntToChar(SignExtend(i))), 4) = r
  BY CharOfInt DEF CharToInt
<1>2. /\ size \in 1 .. 4 /\ sig \in Seq(Byte) /\ Len(sig) = size
      /\ \A j \in 1 .. size : sig[j] = i[4 - size + j]
      /\ \A j \in 1 .. 4 - size : i[j] = 0
  BY SignificantBytes
<1>3. z \in Seq(Byte) /\ Len(z) = 8 /\ \A j \in 1 .. 8 : z[j] = 0
  <2>1. 0 \in Byte
    BY ByteIs, SMT
  <2> QED
    BY <2>1, SMT
<1> HIDE DEF z, sig, size
<1>4. size \in Nat /\ 1 <= size /\ size <= 4
  BY <1>2, SMT
<1>5. /\ x \in Seq(Byte) /\ Len(x) = 8 + size
      /\ \A j \in 1 .. 8 : x[j] = 0
      /\ \A j \in 1 .. size : x[8 + j] = sig[j]
  <2>1. /\ x \in Seq(Byte) /\ Len(x) = Len(z) + Len(sig)
        /\ \A j \in 1 .. Len(z) : x[j] = z[j]
        /\ \A j \in 1 .. Len(sig) : x[Len(z) + j] = sig[j]
    BY <1>2, <1>3, Joined
  <2> QED
    BY <1>2, <1>3, <2>1
<1> HIDE DEF x
<1>6. /\ y \in Seq(Byte) /\ Len(y) = 8
      /\ \A j \in 1 .. 8 : y[j] = x[Len(x) - 8 + j]
  <2>1. 8 \in Nat /\ 8 <= Len(x)
    BY <1>4, <1>5, SMT
  <2> QED
    BY <1>5, <2>1, LastBytesAre
<1> HIDE DEF y
<1>7. /\ r \in Seq(Byte) /\ Len(r) = 4
      /\ \A j \in 1 .. 4 : r[j] = y[Len(y) - 4 + j]
  <2>1. 4 \in Nat /\ 4 <= Len(y)
    BY <1>6, SMT
  <2> QED
    BY <1>6, <2>1, LastBytesAre
<1> HIDE DEF r
<1>8. ASSUME NEW j \in 1 .. 4 PROVE r[j] = i[j]
  <2>1. r[j] = y[4 + j]
    <3>1. Len(y) - 4 + j = 4 + j
      BY <1>6, SMT
    <3> QED
      BY <1>7, <3>1
  <2>2. y[4 + j] = x[size + 4 + j]
    <3>1. 4 + j \in 1 .. 8
      BY SMT
    <3>2. y[4 + j] = x[Len(x) - 8 + (4 + j)]
      BY <1>6, <3>1
    <3>3. Len(x) - 8 + (4 + j) = size + 4 + j
      BY <1>4, <1>5, SMT
    <3> QED
      BY <3>2, <3>3
  <2>3. CASE j <= 4 - size
    <3>1. size + 4 + j \in 1 .. 8 /\ j \in 1 .. 4 - size
      BY <1>4, <2>3, SMT
    <3> QED
      BY <1>2, <1>5, <2>1, <2>2, <3>1
  <2>4. CASE j > 4 - size
    <3>1. PICK h \in 1 .. size : h = j + size - 4
      BY <1>4, <2>4, SMT
    <3>2. 8 + h = size + 4 + j /\ 4 - size + h = j
      BY <1>4, <3>1, SMT
    <3>3. x[8 + h] = sig[h] /\ sig[h] = i[4 - size + h]
      BY <1>2, <1>5, <3>1
    <3> QED
      BY <2>1, <2>2, <3>2, <3>3
  <2> QED
    BY <1>4, <2>3, <2>4, SMT
<1>9. i \in Seq(Byte) /\ Len(i) = 4
  BY IntIsBytes
<1>10. \A j \in 1 .. Len(r) : r[j] = i[j]
  BY <1>7, <1>8
<1> QED
  BY <1>1, <1>7, <1>9, <1>10, Same

-----------------------------------------------------------------------------
(* Nodes is defined: the recursion goes on at a later place each time.     *)
LEMMA Induction ==
  ASSUME NEW S, 0 \in S, \A n \in Nat : n \in S => n + 1 \in S
  PROVE  Nat \subseteq S
<1> DEFINE Less == OpToRel(<, Nat)
<1>1. IsWellFoundedOn(Less, Nat)
  BY NatLessThanWellFounded
<1>2. \A x, y \in Nat : <<x, y>> \in Less <=> x < y
  BY DEF OpToRel
<1> SUFFICES ASSUME Nat \ S # {} PROVE FALSE
  OBVIOUS
<1> DEFINE T == Nat \ S
<1> HIDE DEF Less
<1>3. PICK m \in T : \A y \in T : ~(<<y, m>> \in Less)
  <2>1. T \subseteq Nat /\ T # {}
    OBVIOUS
  <2> HIDE DEF T
  <2> QED
    BY <1>1, <2>1, WFMin
<1>4. m \in Nat /\ m # 0 /\ m - 1 \in Nat /\ m - 1 < m
  BY SMT
<1>5. m - 1 \in S
  BY <1>2, <1>3, <1>4
<1>6. m - 1 + 1 = m
  BY <1>4
<1> QED
  BY <1>4, <1>5, <1>6

Suffix(b, p) == SubSeq(b, p, Len(b))
NextNode(b, p) == p + NodeSize(Suffix(b, p))
StopsAt(b, p) == \/ LengthInfo(Suffix(b, p)).length < 0
              \/ NextNode(b, p) \notin p + 1 .. Len(b) + 1
NodeAt(b, p) == AnyBuf(TagOf(Suffix(b, p)), 0, SubSeq(b, p, NextNode(b, p) - 1))

\* What Nodes puts at place p, if f is what it puts at the later ones.
AtPlace(b, f, p) ==
  IF p = Len(b) + 1 THEN [chain |-> << >>, whole |-> TRUE]
  ELSE IF StopsAt(b, p) THEN [chain |-> << >>, whole |-> FALSE]
  ELSE [f[NextNode(b, p)] EXCEPT !.chain = <<NodeAt(b, p)>> \o @]

Computed(b, f) == f = [p \in 1 .. Len(b) + 1 |-> AtPlace(b, f, p)]

LEMMA NodesExist ==
  ASSUME NEW b \in Seq(Byte)
  PROVE  \E f : f = [p \in 1 .. Len(b) + 1 |-> AtPlace(b, f, p)]
<1> DEFINE L == Len(b)
           Right(f, q) == f = [p \in q .. L + 1 |-> AtPlace(b, f, p)]
           S == {m \in Nat : m <= L => \E f : Right(f, L + 1 - m)}
<1>1. L \in Nat
  BY SMT
<1> HIDE DEF L
<1>2. 0 \in S
  <2> DEFINE f == [p \in L + 1 .. L + 1 |-> [chain |-> << >>, whole |-> TRUE]]
  <2>1. Right(f, L + 1)
    BY <1>1, SMT DEF AtPlace, L
  <2> HIDE DEF Right
  <2>2. L + 1 - 0 = L + 1
    BY <1>1, SMT
  <2> QED
    BY <2>1, <2>2
<1>3. ASSUME NEW m \in Nat, m \in S PROVE m + 1 \in S
  <2> SUFFICES ASSUME m + 1 <= L PROVE \E f : Right(f, L + 1 - (m + 1))
    BY <1>1
  <2> DEFINE q == L + 1 - (m + 1)
  <2>1. q \in Nat /\ 1 <= q /\ q <= L /\ L + 1 - m = q + 1
    BY <1>1, SMT
  <2>2. PICK g : Right(g, q + 1)
    <3>1. m <= L
      BY <1>1, SMT
    <3> HIDE DEF Right
    <3> QED
      BY <1>3, <2>1, <3>1
  <2> HIDE DEF q
  <2> DEFINE f == [p \in q .. L + 1 |-> IF p = q THEN AtPlace(b, g, q) ELSE g[p]]
  <2>3. ASSUME NEW p \in q .. L + 1 PROVE AtPlace(b, f, p) = AtPlace(b, g, p)
    <3>1. CASE p = Len(b) + 1 \/ StopsAt(b, p)
      BY <3>1 DEF AtPlace
    <3>2. CASE ~(p = Len(b) + 1 \/ StopsAt(b, p))
      <4>1. NextNode(b, p) \in p + 1 .. L + 1
        BY <3>2 DEF StopsAt, L
      <4>2. f[NextNode(b, p)] = g[NextNode(b, p)]
        BY <1>1, <2>1, <4>1, SMT
      <4> HIDE DEF f
      <4> QED
        BY <3>2, <4>2 DEF AtPlace
    <3> QED
      BY <3>1, <3>2
  <2>4. DOMAIN f = q .. L + 1
    OBVIOUS
  <2>5. ASSUME NEW p \in q .. L + 1 PROVE f[p] = AtPlace(b, g, p)
    <3>1. CASE p = q
      BY <3>1
    <3>2. CASE p # q
      <4>1. p \in q + 1 .. L + 1
        BY <1>1, <2>1, <3>2, SMT
      <4> QED
        BY <2>2, <3>2, <4>1
    <3> QED
      BY <3>1, <3>2
  <2>6. f = [p \in q .. L + 1 |-> f[p]]
    OBVIOUS
  <2> HIDE DEF f
  <2>7. [p \in q .. L + 1 |-> f[p]] = [p \in q .. L + 1 |-> AtPlace(b, f, p)]
    <3>1. \A p \in q .. L + 1 : f[p] = AtPlace(b, f, p)
      BY <2>3, <2>5
    <3> HIDE DEF AtPlace
    <3> QED
      BY <3>1
  <2>8. Right(f, q)
    BY <2>6, <2>7
  <2> HIDE DEF Right
  <2> QED
    BY <2>8 DEF q
<1>4. L \in S
  <2> HIDE DEF S
  <2> QED
    BY <1>1, <1>2, <1>3, Induction
<1>5. PICK f : Right(f, 1)
  <2>1. L + 1 - L = 1 /\ L <= L
    BY <1>1, SMT
  <2> HIDE DEF Right
  <2> QED
    BY <1>4, <2>1
<1>6. f = [p \in 1 .. L + 1 |-> AtPlace(b, f, p)]
  BY <1>5
<1> QED
  BY <1>6 DEF L

LEMMA NodesAre ==
  ASSUME NEW b \in Seq(Byte)
  PROVE  \E f : f = [p \in 1 .. Len(b) + 1 |-> AtPlace(b, f, p)] /\ Nodes(b) = f[1]
<1> DEFINE F == CHOOSE f : f = [p \in 1 .. Len(b) + 1 |-> AtPlace(b, f, p)]
<1>1. Nodes(b) = F[1]
  BY DEF Nodes, AtPlace, StopsAt, NextNode, NodeAt, Suffix
<1>2. F = [p \in 1 .. Len(b) + 1 |-> AtPlace(b, F, p)]
  BY NodesExist
<1> HIDE DEF F
<1> QED
  BY <1>1, <1>2

-----------------------------------------------------------------------------
(* The nodes of a sequence are found again.                                *)
Tags == {INTEGER, BITSTRING, PRINTABLE, SEQUENCE}
Pieces == {Encoded(tag, Len(rest), rest) : tag \in Tags, rest \in {r \in Seq(Byte) : Len(r) \in Sizes}}

LEMMA TagIs == \A tag \in Tags : tag \in Byte /\ tag < 128 /\ TagOf(<<tag>>) = Identifier(tag)
<1>1. INTEGER \in Byte /\ BITSTRING \in Byte /\ PRINTABLE \in Byte /\ SEQUENCE \in Byte
  BY ByteIs, SMT DEF INTEGER, BITSTRING, PRINTABLE, SEQUENCE
<1>2. \A tag \in Tags : tag < 128
  BY SMT DEF Tags, INTEGER, BITSTRING, PRINTABLE, SEQUENCE
<1>3. \A tag \in Tags : TagOf(<<tag>>) = Identifier(tag)
  BY <1>2, SMT DEF TagOf, Tags, INTEGER, BITSTRING, PRINTABLE, SEQUENCE
<1> QED
  BY <1>1, <1>2, <1>3 DEF Tags

LEMMA PieceIsRead ==
  ASSUME NEW d \in Pieces, NEW more \in Seq(Byte)
  PROVE  /\ d \in Seq(Byte) /\ Len(d) \in Nat \ {0}
         /\ d \o more \in Seq(Byte)
         /\ ~(LengthInfo(d \o more).length < 0)
         /\ NodeSize(d \o more) = Len(d)
         /\ TagOf(d \o more) = TagOf(d)
         /\ IsDerLength(d)
<1>1. PICK tag \in Tags, rest \in Seq(Byte) : Len(rest) \in Sizes /\ d = Encoded(tag, Len(rest), rest)
  BY DEF Pieces
<1> DEFINE n == Len(rest)
<1>2. tag \in Byte /\ n \in Sizes /\ n \in Nat
  BY <1>1, TagIs, LenProperties
<1> HIDE DEF n
<1>3. d = Encoded(tag, n, rest)
  BY <1>1 DEF n
<1>4. /\ d \in Seq(Byte) /\ d[1] = tag
      /\ Len(d) = 1 + Len(Length(n)) + Len(rest)
      /\ LengthInfo(d) = [length |-> n, head |-> 1 + Len(Length(n))]
      /\ (d[2] < 128) = (n < 128)
      /\ d[2] > 128 => d[3] # 0
  BY <1>2, <1>3, HeaderIsRead
<1>5. rest \o more \in Seq(Byte)
  BY Joined
<1> DEFINE e == d \o more
<1>6. e = Encoded(tag, n, rest \o more)
  <2>1. Encoded(tag, n, rest) \o more = Encoded(tag, n, rest \o more)
    BY <1>2, Continued
  <2> QED
    BY <1>3, <2>1
<1> HIDE DEF e
<1> DEFINE r == rest \o more
<1> HIDE DEF r
<1>7. /\ e \in Seq(Byte) /\ e[1] = tag
      /\ LengthInfo(e) = [length |-> n, head |-> 1 + Len(Length(n))]
  <2>1. r \in Seq(Byte) /\ e = Encoded(tag, n, r)
    BY <1>5, <1>6 DEF r
  <2> QED
    BY <1>2, <2>1, HeaderIsRead
<1>8. Len(Length(n)) \in Nat /\ Len(rest) = n /\ 1 + Len(Length(n)) \in Nat
  BY <1>2, LengthIsBytes, SMT DEF n
<1>9. TagOf(e) = TagOf(d)
  BY <1>4, <1>7 DEF TagOf
<1>10. NodeSize(e) = Len(d) /\ ~(LengthInfo(e).length < 0)
  BY <1>2, <1>4, <1>7, <1>8, SMT DEF NodeSize
<1>11. IsDerLength(d)
  BY <1>2, <1>4, <1>8, SMT DEF IsDerLength
<1>12. Len(d) \in Nat \ {0}
  BY <1>2, <1>4, <1>8, SMT
<1> QED
  BY <1>4, <1>7, <1>9, <1>10, <1>11, <1>12 DEF e

\* The node that the bytes of one are read as.
NodeOf(d) == AnyBuf(TagOf(d), 0, d)

WithNode(d, found) == [found EXCEPT !.chain = <<NodeOf(d)>> \o @]

Parts(b, g, d, t) == b = g \o (d \o t)
Found(f, p, c) == f[p] = [chain |-> c, whole |-> TRUE]
Halves(b, g, d, t) == b = (g \o d) \o t

LEMMA OneNode ==
  ASSUME NEW g \in Seq(Byte), NEW d \in Pieces, NEW t \in Seq(Byte),
         NEW b \in Seq(Byte), Parts(b, g, d, t), NEW f, Computed(b, f)
  PROVE  f[Len(g) + 1] = WithNode(d, f[Len(g \o d) + 1])
<1> DEFINE e == d \o t
           p == Len(g) + 1
<1>1. /\ d \in Seq(Byte) /\ Len(d) \in Nat \ {0} /\ e \in Seq(Byte)
      /\ ~(LengthInfo(e).length < 0) /\ NodeSize(e) = Len(d) /\ TagOf(e) = TagOf(d)
  BY PieceIsRead
<1>2. /\ Len(e) = Len(d) + Len(t) /\ Len(t) \in Nat
      /\ \A i \in 1 .. Len(d) : e[i] = d[i]
  BY <1>1, Joined
<1>3. /\ Len(b) = Len(g) + Len(e) /\ Len(g) \in Nat
      /\ \A i \in 1 .. Len(e) : b[Len(g) + i] = e[i]
  <2>1. b = g \o e
    BY DEF Parts
  <2> HIDE DEF e
  <2> QED
    BY <1>1, <2>1, Joined
<1>4. Len(g \o d) = Len(g) + Len(d)
  BY <1>1, Joined
<1> HIDE DEF e
<1>5. p \in Nat /\ 1 <= p /\ p <= Len(b) /\ Len(b) \in Nat
  BY <1>1, <1>2, <1>3, SMT
<1>6. Suffix(b, p) = e
  <2> DEFINE u == SubSeq(b, p, Len(b))
  <2>1. /\ u \in Seq(Byte) /\ Len(u) = Len(b) - p + 1
        /\ \A i \in 1 .. Len(b) - p + 1 : u[i] = b[p + i - 1]
    <3>1. p <= Len(b) + 1 /\ Len(b) <= Len(b)
      BY <1>5, SMT
    <3> QED
      BY <1>5, <3>1, Part
  <2> HIDE DEF u
  <2>2. Len(u) = Len(e)
    BY <1>1, <1>2, <1>3, <2>1, SMT
  <2>3. ASSUME NEW i \in 1 .. Len(u) PROVE u[i] = e[i]
    <3>1. p + i - 1 = Len(g) + i /\ i \in 1 .. Len(e)
      BY <1>3, <2>2, SMT
    <3> QED
      BY <1>3, <2>1, <3>1
  <2>4. u = e
    BY <1>1, <2>1, <2>2, <2>3, Same
  <2> QED
    BY <2>4 DEF u, Suffix
<1>7. NextNode(b, p) = p + Len(d)
  BY <1>1, <1>6 DEF NextNode
<1>8. SubSeq(b, p, p + Len(d) - 1) = d
  <2> DEFINE u == SubSeq(b, p, p + Len(d) - 1)
  <2>1. /\ u \in Seq(Byte) /\ Len(u) = Len(d)
        /\ \A i \in 1 .. Len(d) : u[i] = b[p + i - 1]
    <3>1. p + Len(d) - 1 \in Nat /\ p <= p + Len(d) - 1 + 1 /\ p + Len(d) - 1 <= Len(b)
          /\ p + Len(d) - 1 - p + 1 = Len(d)
      BY <1>1, <1>2, <1>3, <1>5, SMT
    <3> QED
      BY <1>5, <3>1, Part
  <2> HIDE DEF u
  <2>2. ASSUME NEW i \in 1 .. Len(u) PROVE u[i] = d[i]
    <3>1. p + i - 1 = Len(g) + i /\ i \in 1 .. Len(d) /\ i \in 1 .. Len(e)
      BY <1>1, <1>2, <1>3, <2>1, SMT
    <3> QED
      BY <1>2, <1>3, <2>1, <3>1
  <2>3. u = d
    BY <1>1, <2>1, <2>2, Same
  <2> QED
    BY <2>3 DEF u
<1>9. ~StopsAt(b, p)
  <2>1. p + Len(d) \in p + 1 .. Len(b) + 1
    BY <1>1, <1>2, <1>3, <1>5, SMT
  <2> QED
    BY <1>1, <1>6, <1>7, <2>1 DEF StopsAt
<1>10. NodeAt(b, p) = NodeOf(d)
  <2>1. TagOf(Suffix(b, p)) = TagOf(d)
    BY <1>1, <1>6
  <2>2. SubSeq(b, p, NextNode(b, p) - 1) = d
    BY <1>7, <1>8
  <2> QED
    BY <2>1, <2>2 DEF NodeAt, NodeOf
<1>11. f[p] = AtPlace(b, f, p)
  <2>1. p \in 1 .. Len(b) + 1
    BY <1>5, SMT
  <2> HIDE DEF p
  <2> QED
    BY <2>1 DEF Computed
<1>12. AtPlace(b, f, p) = [f[p + Len(d)] EXCEPT !.chain = <<NodeOf(d)>> \o @]
  <2>1. p # Len(b) + 1
    BY <1>5, SMT
  <2> QED
    BY <1>7, <1>9, <1>10, <2>1 DEF AtPlace
<1>13. p + Len(d) = Len(g \o d) + 1
  BY <1>1, <1>3, <1>4, SMT
<1> QED
  BY <1>11, <1>12, <1>13 DEF WithNode

-----------------------------------------------------------------------------
(* FlattenSeq: its recursion is defined, and what it returns grows from    *)
(* << >> by one sequence after the other.                                  *)
LEMMA FlattenExists ==
  ASSUME NEW ps, NEW n \in Nat
  PROVE  \E f : f = [i \in 1 .. n |-> IF i = 1 THEN ps[i] ELSE f[i - 1] \o ps[i]]
<1> DEFINE e(f, i) == IF i = 1 THEN ps[i] ELSE f[i - 1] \o ps[i]
           Right(f, m) == f = [i \in 1 .. m |-> e(f, i)]
           S == {m \in Nat : \E f : Right(f, m)}
<1>1. 0 \in S
  <2> DEFINE f == [i \in 1 .. 0 |-> << >>]
  <2>1. [i \in 1 .. 0 |-> << >>] = [i \in 1 .. 0 |-> e(f, i)]
    <3>1. \A i \in 1 .. 0 : FALSE
      BY SMT
    <3> HIDE DEF e
    <3> QED
      BY <3>1
  <2>2. Right(f, 0)
    BY <2>1
  <2> HIDE DEF Right
  <2> QED
    BY <2>2
<1>2. ASSUME NEW m \in Nat, m \in S PROVE m + 1 \in S
  <2>1. PICK g : Right(g, m)
    BY <1>2
  <2> DEFINE f == [i \in 1 .. m + 1 |-> IF i = m + 1 THEN e(g, i) ELSE g[i]]
  <2>2. ASSUME NEW i \in 1 .. m + 1 PROVE e(f, i) = e(g, i)
    <3>1. CASE i = 1
      BY <3>1
    <3>2. CASE i # 1
      <4>1. i - 1 \in 1 .. m + 1 /\ i - 1 # m + 1
        BY <3>2, SMT
      <4>2. f[i - 1] = g[i - 1]
        BY <4>1
      <4> HIDE DEF f
      <4> QED
        BY <3>2, <4>2
    <3> QED
      BY <3>1, <3>2
  <2>3. ASSUME NEW i \in 1 .. m + 1 PROVE f[i] = e(g, i)
    <3>1. CASE i = m + 1
      BY <3>1
    <3>2. CASE i # m + 1
      <4>1. i \in 1 .. m
        BY <3>2, SMT
      <4>2. g[i] = e(g, i)
        <5> HIDE DEF e
        <5> QED
          BY <2>1, <4>1
      <4> QED
        BY <3>2, <4>2
    <3> QED
      BY <3>1, <3>2
  <2>4. f = [i \in 1 .. m + 1 |-> f[i]]
    OBVIOUS
  <2> HIDE DEF f
  <2>5. [i \in 1 .. m + 1 |-> f[i]] = [i \in 1 .. m + 1 |-> e(f, i)]
    <3>1. \A i \in 1 .. m + 1 : f[i] = e(f, i)
      BY <2>2, <2>3
    <3> HIDE DEF e
    <3> QED
      BY <3>1
  <2>6. Right(f, m + 1)
    BY <2>4, <2>5
  <2> HIDE DEF Right
  <2>7. m + 1 \in Nat
    BY SMT
  <2> QED
    BY <2>6, <2>7
<1>3. n \in S
  <2> HIDE DEF S
  <2> QED
    BY <1>1, <1>2, Induction
<1> QED
  BY <1>3

LEMMA FlattenIs ==
  ASSUME NEW ps \in Seq(Seq(Byte)), NEW n \in Nat, n = Len(ps)
  PROVE  \E P : /\ P[0] = << >>
                /\ \A i \in 1 .. n : P[i] = P[i - 1] \o ps[i]
                /\ \A i \in 0 .. n : P[i] \in Seq(Byte)
                /\ FlattenSeq(ps) = P[n]
<1> DEFINE e(f, i) == IF i = 1 THEN ps[i] ELSE f[i - 1] \o ps[i]
           F == CHOOSE f : f = [i \in 1 .. n |-> IF i = 1 THEN ps[i] ELSE f[i - 1] \o ps[i]]
           P == [i \in 0 .. n |-> IF i = 0 THEN << >> ELSE F[i]]
<1>1. F = [i \in 1 .. n |-> IF i = 1 THEN ps[i] ELSE F[i - 1] \o ps[i]]
  BY FlattenExists
<1>2. FlattenSeq(ps) = IF n = 0 THEN ps ELSE F[n]
  BY DEF FlattenSeq
<1> HIDE DEF F
<1>3. \A i \in 1 .. n : F[i] = IF i = 1 THEN ps[i] ELSE F[i - 1] \o ps[i]
  BY <1>1
<1>4. \A i \in 1 .. n : ps[i] \in Seq(Byte)
  BY ElementOfSeq
<1>5. << >> \in Seq(Byte)
  BY EmptySeq
<1>6. P[0] = << >> /\ \A i \in 1 .. n : P[i] = F[i]
  <2>1. 0 \in 0 .. n /\ \A i \in 1 .. n : i \in 0 .. n /\ i # 0
    BY SMT
  <2> QED
    BY <2>1
<1>7. FlattenSeq(ps) = P[n]
  <2>1. CASE n = 0
    <3>1. ps = << >>
      BY <2>1, EmptySeq
    <3> QED
      BY <1>2, <1>6, <2>1, <3>1
  <2>2. CASE n # 0
    <3>1. n \in 1 .. n
      BY <2>2, SMT
    <3> QED
      BY <1>2, <1>6, <2>2, <3>1
  <2> QED
    BY <2>1, <2>2
<1> HIDE DEF P
<1>8. ASSUME NEW i \in 1 .. n PROVE P[i] = P[i - 1] \o ps[i]
  <2>1. CASE i = 1
    <3>1. P[i - 1] = << >>
      BY <1>6, <2>1
    <3>2. << >> \o ps[i] = ps[i]
      BY <1>4, ConcatEmptySeq
    <3> QED
      BY <1>3, <1>6, <2>1, <3>1, <3>2
  <2>2. CASE i # 1
    <3>1. i - 1 \in 1 .. n
      BY <2>2, SMT
    <3> QED
      BY <1>3, <1>6, <2>2, <3>1
  <2> QED
    BY <2>1, <2>2
<1>9. \A i \in 0 .. n : P[i] \in Seq(Byte)
  <2> DEFINE S == {m \in Nat : m <= n => P[m] \in Seq(Byte)}
  <2>1. 0 \in S
    BY <1>5, <1>6
  <2>2. ASSUME NEW m \in Nat, m \in S PROVE m + 1 \in S
    <3> SUFFICES ASSUME m + 1 <= n PROVE P[m + 1] \in Seq(Byte)
      BY SMT
    <3>1. m <= n /\ m + 1 \in 1 .. n /\ m + 1 - 1 = m
      BY SMT
    <3>2. P[m] \in Seq(Byte) /\ ps[m + 1] \in Seq(Byte) /\ P[m + 1] = P[m] \o ps[m + 1]
      <4> DEFINE k == m + 1
      <4>1. k \in 1 .. n /\ k - 1 = m
        BY <3>1
      <4>2. P[m] \in Seq(Byte)
        BY <2>2, <3>1
      <4> HIDE DEF k
      <4>3. P[k] = P[k - 1] \o ps[k] /\ ps[k] \in Seq(Byte)
        BY <1>4, <1>8, <4>1
      <4>4. P[k] = P[m] \o ps[k]
        BY <4>1, <4>3
      <4> QED
        BY <4>2, <4>3, <4>4 DEF k
    <3> QED
      BY <3>2, Joined
  <2>3. Nat \subseteq S
    <3> HIDE DEF S
    <3> QED
      BY <2>1, <2>2, Induction
  <2>4. \A i \in 0 .. n : i \in Nat /\ i <= n
    BY SMT
  <2> QED
    BY <2>3, <2>4
<1> QED
  BY <1>6, <1>7, <1>8, <1>9

\* The nodes that the sequences of ps are read as, from the one behind i on.
Chain(ps, i) == [j \in 1 .. Len(ps) - i |-> NodeOf(ps[i + j])]

LEMMA ChainGrows ==
  ASSUME NEW ps \in Seq(Seq(Byte)), NEW i \in 1 .. Len(ps)
  PROVE  Chain(ps, i - 1) = <<NodeOf(ps[i])>> \o Chain(ps, i)
<1> DEFINE T == {NodeOf(ps[j]) : j \in 1 .. Len(ps)}
           n == Len(ps) - i
           s == <<NodeOf(ps[i])>>
           t == Chain(ps, i)
           u == Chain(ps, i - 1)
<1>1. n \in Nat /\ Len(ps) - (i - 1) = n + 1 /\ Len(ps) \in Nat
  BY SMT
<1>2. s \in Seq(T) /\ Len(s) = 1 /\ s[1] = NodeOf(ps[i])
  <2>1. NodeOf(ps[i]) \in T
    OBVIOUS
  <2> HIDE DEF T
  <2> QED
    BY <2>1, SMT
<1>3. t \in Seq(T) /\ Len(t) = n /\ \A j \in 1 .. n : t[j] = NodeOf(ps[i + j])
  <2>1. \A j \in 1 .. n : i + j \in 1 .. Len(ps)
    BY <1>1, SMT
  <2>2. t = [j \in 1 .. n |-> NodeOf(ps[i + j])]
    BY DEF Chain
  <2>3. \A j \in 1 .. n : NodeOf(ps[i + j]) \in T
    BY <2>1
  <2> HIDE DEF T, n, t
  <2>4. t \in [1 .. n -> T]
    BY <2>2, <2>3
  <2> QED
    BY <1>1, <2>2, <2>4, FunctionIsSeq
<1>4. u \in Seq(T) /\ Len(u) = n + 1 /\ \A j \in 1 .. n + 1 : u[j] = NodeOf(ps[i - 1 + j])
  <2>1. \A j \in 1 .. n + 1 : i - 1 + j \in 1 .. Len(ps)
    BY <1>1, SMT
  <2>2. u = [j \in 1 .. n + 1 |-> NodeOf(ps[i - 1 + j])]
    BY <1>1 DEF Chain
  <2>3. \A j \in 1 .. n + 1 : NodeOf(ps[i - 1 + j]) \in T
    BY <2>1
  <2> HIDE DEF T, n, u
  <2>4. u \in [1 .. n + 1 -> T]
    BY <2>2, <2>3
  <2>5. n + 1 \in Nat
    BY <1>1, SMT
  <2> QED
    BY <2>2, <2>4, <2>5, FunctionIsSeq
<1> HIDE DEF T, n, s, t, u
<1>5. /\ s \o t \in Seq(T) /\ Len(s \o t) = n + 1
      /\ \A j \in 1 .. n + 1 : (s \o t)[j] = IF j <= 1 THEN s[j] ELSE t[j - 1]
  <2>1. Len(s) + Len(t) = n + 1
    BY <1>1, <1>2, <1>3, SMT
  <2>2. /\ s \o t \in Seq(T) /\ Len(s \o t) = Len(s) + Len(t)
        /\ \A j \in 1 .. Len(s) + Len(t) : (s \o t)[j] = IF j <= Len(s) THEN s[j] ELSE t[j - Len(s)]
    BY <1>2, <1>3, ConcatProperties
  <2> QED
    BY <1>2, <2>1, <2>2
<1>6. ASSUME NEW j \in 1 .. n + 1 PROVE u[j] = (s \o t)[j]
  <2>1. CASE j = 1
    <3>1. i - 1 + j = i /\ j <= 1
      BY <2>1, SMT
    <3>2. (s \o t)[j] = s[1]
      BY <1>5, <2>1, <3>1
    <3> QED
      BY <1>2, <1>4, <3>1, <3>2
  <2>2. CASE j # 1
    <3>1. j - 1 \in 1 .. n /\ i + (j - 1) = i - 1 + j /\ ~(j <= 1)
      BY <1>1, <2>2, SMT
    <3>2. (s \o t)[j] = t[j - 1]
      BY <1>5, <3>1
    <3>3. t[j - 1] = NodeOf(ps[i + (j - 1)])
      BY <1>3, <3>1
    <3> QED
      BY <1>4, <3>1, <3>2, <3>3
  <2> QED
    BY <2>1, <2>2
<1>7. u = s \o t
  BY <1>4, <1>5, <1>6, SeqEqual
<1> QED
  BY <1>7 DEF s, t, u

LEMMA Associated ==
  ASSUME NEW s \in Seq(Byte), NEW t \in Seq(Byte), NEW u \in Seq(Byte)
  PROVE  (s \o t) \o u = s \o (t \o u) /\ t \o u \in Seq(Byte)
BY ConcatAssociative, Joined

LEMMA ChainSet ==
  ASSUME NEW c, NEW v, NEW w
  PROVE  [[chain |-> c, whole |-> w] EXCEPT !.chain = v] = [chain |-> v, whole |-> w]
BY SMT

LEMMA NodeAdded ==
  ASSUME NEW d, NEW c, NEW w
  PROVE  WithNode(d, [chain |-> c, whole |-> w]) = [chain |-> <<NodeOf(d)>> \o c, whole |-> w]
<1> DEFINE r == [chain |-> c, whole |-> w]
           v == <<NodeOf(d)>> \o c
<1>1. r.chain = c
  OBVIOUS
<1> HIDE DEF r
<1>2. WithNode(d, r) = [r EXCEPT !.chain = v]
  BY <1>1 DEF WithNode
<1> HIDE DEF v
<1>3. [r EXCEPT !.chain = v] = [chain |-> v, whole |-> w]
  BY ChainSet DEF r
<1> QED
  BY <1>2, <1>3 DEF r, v

LEMMA OneNodeMore ==
  ASSUME NEW b \in Seq(Byte), NEW f, Computed(b, f), NEW c,
         NEW g \in Seq(Byte), NEW d \in Pieces, NEW t \in Seq(Byte),
         Halves(b, g, d, t),
         Found(f, Len(g \o d) + 1, c)
  PROVE  /\ d \o t \in Seq(Byte) /\ b = g \o (d \o t)
         /\ Found(f, Len(g) + 1, <<NodeOf(d)>> \o c)
<1>1. d \in Seq(Byte)
  BY PieceIsRead
<1>2. (g \o d) \o t = g \o (d \o t) /\ d \o t \in Seq(Byte)
  BY <1>1, Associated
<1>3. Parts(b, g, d, t)
  BY <1>2 DEF Parts, Halves
<1>4. f[Len(g) + 1] = WithNode(d, f[Len(g \o d) + 1])
  BY <1>3, OneNode
<1>5. WithNode(d, [chain |-> c, whole |-> TRUE]) = [chain |-> <<NodeOf(d)>> \o c, whole |-> TRUE]
  BY NodeAdded
<1>6. b = g \o (d \o t)
  BY <1>3 DEF Parts
<1> QED
  BY <1>2, <1>4, <1>5, <1>6 DEF Found

\* The nodes of a sequence are its pieces.
LEMMA NodesOfPieces ==
  ASSUME NEW ps \in Seq(Pieces)
  PROVE  /\ FlattenSeq(ps) \in Seq(Byte)
         /\ Nodes(FlattenSeq(ps)) = [chain |-> Chain(ps, 0), whole |-> TRUE]
<1> DEFINE n == Len(ps)
           b == FlattenSeq(ps)
<1>1. n \in Nat
  BY LenProperties
<1>2. ps \in Seq(Seq(Byte)) /\ \A i \in 1 .. n : ps[i] \in Pieces /\ ps[i] \in Seq(Byte)
  <2>1. << >> \in Seq(Byte)
    BY EmptySeq
  <2>2. Pieces \subseteq Seq(Byte)
    BY <2>1, PieceIsRead
  <2> QED
    BY <2>2, ElementOfSeq, SeqOfSubset
<1>3. PICK P : /\ P[0] = << >>
               /\ \A i \in 1 .. n : P[i] = P[i - 1] \o ps[i]
               /\ \A i \in 0 .. n : P[i] \in Seq(Byte)
               /\ b = P[n]
  BY <1>1, <1>2, FlattenIs
<1>4. b \in Seq(Byte)
  <2>1. n \in 0 .. n
    BY <1>1, SMT
  <2> QED
    BY <1>3, <2>1
<1>5. PICK f : Computed(b, f) /\ Nodes(b) = f[1]
  BY <1>4, NodesAre DEF Computed
<1> HIDE DEF b, n
<1> DEFINE S == {m \in Nat : m <= n =>
                   \E t \in Seq(Byte) :
                     /\ b = P[n - m] \o t
                     /\ f[Len(P[n - m]) + 1] = [chain |-> Chain(ps, n - m), whole |-> TRUE]}
<1>6. 0 \in S
  <2>1. << >> \in Seq(Byte) /\ b = b \o << >>
    BY <1>4, EmptySeq, ConcatEmptySeq
  <2>2. n - 0 = n
    BY <1>1, SMT
  <2>3. f[Len(b) + 1] = [chain |-> << >>, whole |-> TRUE]
    <3>1. Len(b) + 1 \in 1 .. Len(b) + 1
      BY <1>4, LenProperties, SMT
    <3>2. f[Len(b) + 1] = AtPlace(b, f, Len(b) + 1)
      BY <1>5, <3>1 DEF Computed
    <3> QED
      BY <3>2 DEF AtPlace
  <2>4. Chain(ps, n) = << >>
    <3>1. Len(ps) - n = 0 /\ \A j \in 1 .. 0 : FALSE
      BY <1>1, SMT DEF n
    <3> QED
      BY <3>1, SMT DEF Chain
  <2> QED
    BY <1>3, <2>1, <2>2, <2>3, <2>4
<1>7. ASSUME NEW m \in Nat, m \in S PROVE m + 1 \in S
  <2>0. m + 1 \in Nat
    BY SMT
  <2> SUFFICES ASSUME m + 1 <= n
               PROVE  \E t \in Seq(Byte) :
                        /\ b = P[n - (m + 1)] \o t
                        /\ f[Len(P[n - (m + 1)]) + 1]
                             = [chain |-> Chain(ps, n - (m + 1)), whole |-> TRUE]
    BY <2>0
  <2> DEFINE i == n - m
             g == P[i - 1]
             d == ps[i]
  <2>1. i \in 1 .. n /\ n - (m + 1) = i - 1 /\ m <= n /\ i - 1 \in 0 .. n
    BY <1>1, SMT
  <2>2. PICK t \in Seq(Byte) : /\ b = P[i] \o t
                               /\ f[Len(P[i]) + 1] = [chain |-> Chain(ps, i), whole |-> TRUE]
    BY <1>7, <2>1
  <2>3. P[i] = g \o d
    BY <1>3, <2>1
  <2>a. g \in Seq(Byte) /\ d \in Pieces /\ d \in Seq(Byte)
    BY <1>2, <1>3, <2>1
  <2>4. Halves(b, g, d, t) /\ Found(f, Len(g \o d) + 1, Chain(ps, i))
    BY <2>2, <2>3 DEF Halves, Found
  <2> HIDE DEF g, d, S, i
  <2>5. /\ d \o t \in Seq(Byte) /\ b = g \o (d \o t)
        /\ Found(f, Len(g) + 1, <<NodeOf(d)>> \o Chain(ps, i))
    BY <1>4, <1>5, <2>a, <2>4, OneNodeMore
  <2>7. <<NodeOf(d)>> \o Chain(ps, i) = Chain(ps, i - 1)
    BY <1>2, <2>1, ChainGrows DEF d, n, i
  <2>8. /\ b = P[i - 1] \o (d \o t)
        /\ f[Len(P[i - 1]) + 1] = [chain |-> Chain(ps, i - 1), whole |-> TRUE]
    BY <2>5, <2>7 DEF g, Found
  <2> QED
    BY <2>1, <2>5, <2>8
<1>8. n \in S
  <2> HIDE DEF S
  <2> QED
    BY <1>1, <1>6, <1>7, Induction
<1>9. f[1] = [chain |-> Chain(ps, 0), whole |-> TRUE]
  <2>1. n - n = 0 /\ n <= n
    BY <1>1, SMT
  <2>2. f[Len(P[0]) + 1] = [chain |-> Chain(ps, 0), whole |-> TRUE]
    BY <1>8, <2>1
  <2>3. Len(P[0]) + 1 = 1
    BY <1>3, SMT
  <2> QED
    BY <2>2, <2>3
<1> QED
  BY <1>4, <1>5, <1>9 DEF b

LEMMA FlattenBound ==
  ASSUME NEW ps \in Seq(Seq(Byte)), NEW n \in Nat, n = Len(ps),
         \A i \in 1 .. n : Len(ps[i]) <= 100
  PROVE  Len(FlattenSeq(ps)) <= 100 * n
<1>1. PICK P : /\ P[0] = << >>
               /\ \A i \in 1 .. n : P[i] = P[i - 1] \o ps[i]
               /\ \A i \in 0 .. n : P[i] \in Seq(Byte)
               /\ FlattenSeq(ps) = P[n]
  BY FlattenIs
<1>2. \A i \in 1 .. n : ps[i] \in Seq(Byte)
  BY ElementOfSeq
<1> DEFINE S == {m \in Nat : m <= n => Len(P[m]) <= 100 * m}
<1>3. 0 \in S
  BY <1>1, SMT
<1>4. ASSUME NEW m \in Nat, m \in S PROVE m + 1 \in S
  <2>0. m + 1 \in Nat
    BY SMT
  <2> SUFFICES ASSUME m + 1 <= n PROVE Len(P[m + 1]) <= 100 * (m + 1)
    BY <2>0
  <2> DEFINE k == m + 1
  <2>1. k \in 1 .. n /\ k - 1 = m /\ m \in 0 .. n /\ m <= n
    BY SMT
  <2>2. Len(P[m]) <= 100 * m
    BY <1>4, <2>1
  <2> HIDE DEF k
  <2>3. P[k] = P[k - 1] \o ps[k] /\ ps[k] \in Seq(Byte) /\ Len(ps[k]) <= 100 /\ P[m] \in Seq(Byte)
    BY <1>1, <1>2, <2>1
  <2>4. P[k] = P[m] \o ps[k]
    BY <2>1, <2>3
  <2>5. Len(P[k]) = Len(P[m]) + Len(ps[k]) /\ Len(P[m]) \in Nat /\ Len(ps[k]) \in Nat
    BY <2>3, <2>4, Joined
  <2>6. Len(P[k]) <= 100 * (m + 1)
    <3> DEFINE x == Len(P[m])
               y == Len(ps[k])
               z == Len(P[k])
    <3>1. x \in Nat /\ y \in Nat /\ z = x + y /\ x <= 100 * m /\ y <= 100
      BY <2>2, <2>3, <2>5
    <3> HIDE DEF x, y, z
    <3>2. z <= 100 * (m + 1)
      BY <3>1, SMT
    <3> QED
      BY <3>2 DEF z
  <2> QED
    BY <2>6 DEF k
<1>5. n \in S
  <2> HIDE DEF S
  <2> QED
    BY <1>3, <1>4, Induction
<1> QED
  BY <1>1, <1>5

\* What the nodes of a chain contribute to the sequence.
Bytes(nodes) == [i \in DOMAIN nodes |-> nodes[i].pData]

\* What Nodes returns if b is nothing but the nodes of chain.
ReadAs(b, chain) == Nodes(b) = [chain |-> chain, whole |-> TRUE]

LEMMA ReadSequenceIs ==
  ASSUME NEW w, NEW c,
         TagOf(w) = Identifier(SEQUENCE), LengthInfo(w).length >= 0, NodeSize(w) = Len(w),
         ReadAs(SubSeq(w, LengthInfo(w).head + 1, Len(w)), c)
  PROVE  ReadSequence(StringToAnyBuf(w)) = c
<1>1. StringToAnyBuf(w).pData = w
  BY DEF StringToAnyBuf, AnyBuf
<1>2. [chain |-> c, whole |-> TRUE].whole = TRUE /\ [chain |-> c, whole |-> TRUE].chain = c
  OBVIOUS
<1> QED
  BY <1>1, <1>2 DEF ReadSequence, ReadAs

(* writeSequence and readSequenceElements: a chain of nodes, whatever they *)
(* are, is packed into DER, and the same nodes are unpacked from it.       *)
THEOREM SequenceIsRead ==
  ASSUME NEW nodes, Bytes(nodes) \in Seq(Pieces), Len(FlattenSeq(Bytes(nodes))) \in Sizes
  PROVE  LET w == WriteSequence(nodes).pData IN
         /\ w \in Seq(Byte) /\ IsDerLength(w)
         /\ Len(w) > 0 /\ Len(w) <= Len(FlattenSeq(Bytes(nodes))) + 4
         /\ ReadSequence(StringToAnyBuf(w)) = Chain(Bytes(nodes), 0)
<1> DEFINE body == FlattenSeq(Bytes(nodes))
           n == Len(body)
           w == WriteSequence(nodes).pData
<1>1. w = Encoded(SEQUENCE, n, body)
  BY DEF WriteSequence, AnyBuf, Encoded, Header, Bytes
<1>2. body \in Seq(Byte) /\ Nodes(body) = [chain |-> Chain(Bytes(nodes), 0), whole |-> TRUE]
  BY NodesOfPieces
<1> HIDE DEF w, body
<1>3. n \in Nat /\ n \in Sizes
  BY <1>2, LenProperties DEF body
<1>4. SEQUENCE \in Byte
  BY TagIs DEF Tags
<1>5. /\ w \in Seq(Byte) /\ w[1] = SEQUENCE
      /\ Len(w) = 1 + Len(Length(n)) + n
      /\ LengthInfo(w) = [length |-> n, head |-> 1 + Len(Length(n))]
      /\ SubSeq(w, 2 + Len(Length(n)), Len(w)) = body
      /\ (w[2] < 128) = (n < 128)
      /\ w[2] > 128 => w[3] # 0
  <2> HIDE DEF n
  <2>1. w = Encoded(SEQUENCE, n, body)
    BY <1>1
  <2>2. /\ w \in Seq(Byte) /\ w[1] = SEQUENCE
        /\ Len(w) = 1 + Len(Length(n)) + Len(body)
        /\ LengthInfo(w) = [length |-> n, head |-> 1 + Len(Length(n))]
        /\ SubSeq(w, 2 + Len(Length(n)), Len(w)) = body
        /\ (w[2] < 128) = (n < 128)
        /\ w[2] > 128 => w[3] # 0
    BY <1>2, <1>3, <1>4, <2>1, HeaderIsRead
  <2> QED
    BY <2>2 DEF n
<1> HIDE DEF n
<1>6. Len(Length(n)) \in {1, 2, 3}
  BY <1>3, LengthIsBytes
<1>7. IsDerLength(w)
  <2>1. 1 + Len(Length(n)) + n = Len(w)
    BY <1>5
  <2> QED
    BY <1>5, <2>1 DEF IsDerLength
<1>8. NodeSize(w) = Len(w) /\ ~(LengthInfo(w).length < 0)
  BY <1>3, <1>5, <1>6, SMT DEF NodeSize
<1>9. TagOf(w) = Identifier(SEQUENCE)
  BY <1>5, SMT DEF TagOf, SEQUENCE
<1>10. LengthInfo(w).head + 1 = 2 + Len(Length(n))
  BY <1>5, <1>6, SMT
<1>11. LengthInfo(w).length >= 0
  BY <1>3, <1>5, SMT
<1>12. ReadSequence(StringToAnyBuf(w)) = Chain(Bytes(nodes), 0)
  <2>1. SubSeq(w, LengthInfo(w).head + 1, Len(w)) = body
    BY <1>5, <1>10
  <2>2. ReadAs(body, Chain(Bytes(nodes), 0))
    BY <1>2 DEF ReadAs
  <2>3. ReadAs(SubSeq(w, LengthInfo(w).head + 1, Len(w)), Chain(Bytes(nodes), 0))
    BY <2>1, <2>2
  <2> QED
    BY <1>8, <1>9, <1>11, <2>3, ReadSequenceIs
<1>13. Len(w) > 0 /\ Len(w) <= n + 4
  <2>a. PICK l \in {1, 2, 3} : l = Len(Length(n))
    BY <1>6
  <2>1. l \in Nat /\ l <= 3
    OBVIOUS
  <2>2. Len(w) = 1 + l + n
    BY <1>5, <2>a
  <2> QED
    BY <1>3, <2>1, <2>2, SMT
<1> QED
  BY <1>5, <1>7, <1>12, <1>13 DEF w, n, body

-----------------------------------------------------------------------------
(* One node: what is written is read back.                                 *)
LEMMA ContentIsRead ==
  ASSUME NEW tag \in Byte, NEW rest \in Seq(Byte), Len(rest) \in Sizes
  PROVE  LET d == Encoded(tag, Len(rest), rest) IN
         /\ LengthInfo(d).head + LengthInfo(d).length = Len(d)
         /\ SubSeq(d, LengthInfo(d).head + 1, Len(d)) = rest
         /\ d[1] = tag
<1> DEFINE n == Len(rest)
           d == Encoded(tag, n, rest)
           l == Len(Length(n))
<1>1. n \in Nat /\ n \in Sizes
  BY LenProperties
<1> HIDE DEF d
<1>2. /\ d[1] = tag
      /\ Len(d) = 1 + l + Len(rest)
      /\ LengthInfo(d) = [length |-> n, head |-> 1 + l]
      /\ SubSeq(d, 2 + l, Len(d)) = rest
  <2> HIDE DEF n
  <2>1. d = Encoded(tag, n, rest)
    BY DEF d
  <2> QED
    BY <1>1, <2>1, HeaderIsRead
<1>3. l \in Nat
  BY <1>1, LengthIsBytes
<1> HIDE DEF n, l
<1>4. LengthInfo(d).head + 1 = 2 + l /\ LengthInfo(d).head + LengthInfo(d).length = 1 + l + n
  BY <1>1, <1>2, <1>3
<1>5. Len(d) = 1 + l + n
  BY <1>2 DEF n
<1>6. SubSeq(d, LengthInfo(d).head + 1, Len(d)) = rest
  BY <1>2, <1>4
<1> QED
  BY <1>2, <1>4, <1>5, <1>6 DEF d, n

\* The bytes of node are a tag, a length and rest.
Holds(node, tag, rest) == node.pData = Encoded(tag, Len(rest), rest)

LEMMA NodeIsRead ==
  ASSUME NEW tag \in Byte, NEW rest \in Seq(Byte), Len(rest) \in Sizes,
         NEW node, Holds(node, tag, rest)
  PROVE  ReadTagAndLength(node).pData
           = IF node.dataType = BITSTRING THEN Tail(rest) ELSE rest
<1>1. LET d == node.pData IN
      /\ LengthInfo(d).head + LengthInfo(d).length = Len(d)
      /\ SubSeq(d, LengthInfo(d).head + 1, Len(d)) = rest
  BY ContentIsRead DEF Holds
<1> QED
  BY <1>1 DEF ReadTagAndLength, AnyBuf

LEMMA PieceIs ==
  ASSUME NEW tag \in Tags, NEW rest \in Seq(Byte), Len(rest) \in Sizes
  PROVE  /\ Encoded(tag, Len(rest), rest) \in Pieces
         /\ Len(Encoded(tag, Len(rest), rest)) <= Len(rest) + 4
         /\ TagOf(Encoded(tag, Len(rest), rest)) = tag % 32
<1> DEFINE n == Len(rest)
           d == Encoded(tag, n, rest)
           l == Len(Length(n))
<1>1. n \in Nat /\ n \in Sizes /\ tag \in Byte
  BY LenProperties, TagIs
<1>2. d \in Pieces
  BY DEF Pieces
<1> HIDE DEF d
<1>3. d[1] = tag /\ Len(d) = 1 + l + Len(rest)
  <2> HIDE DEF n
  <2>1. d = Encoded(tag, n, rest)
    BY DEF d
  <2> QED
    BY <1>1, <2>1, HeaderIsRead
<1>4. Len(d) = 1 + l + n
  BY <1>3 DEF n
<1>5. l \in {1, 2, 3}
  BY <1>1, LengthIsBytes
<1> HIDE DEF n, l
<1>6. l \in Nat /\ l <= 3
  BY <1>5
<1>7. Len(d) <= n + 4
  BY <1>1, <1>4, <1>6, SMT
<1>8. TagOf(d) = tag % 32
  <2>1. tag \in Nat
    BY <1>1, ByteIs
  <2>a. tag < 128
    BY TagIs
  <2>2. ~(d[1] >= 128)
    BY <1>3, <2>1, <2>a, SMT
  <2> QED
    BY <1>3, <2>2 DEF TagOf, Identifier
<1> QED
  BY <1>2, <1>7, <1>8 DEF d, n

-----------------------------------------------------------------------------
(* Strings.                                                                *)
LEMMA UnusedIsByte == \A n \in Nat : n % 8 \in Byte
<1>1. \A n \in Nat : n % 8 \in Nat /\ n % 8 < 256
  BY SMT
<1> QED
  BY <1>1, ByteIs

LEMMA BitStringIs ==
  ASSUME NEW s \in Seq(Byte), Len(s) + 1 \in Sizes
  PROVE  LET u == <<Len(s) % 8>>
             node == WriteBitString(StringToAnyBuf(s))
         IN /\ u \in Seq(Byte) /\ u \o s \in Seq(Byte) /\ Len(u \o s) = Len(s) + 1
            /\ Tail(u \o s) = s
            /\ node = AnyBuf(BITSTRING, Len(s) % 8, Encoded(BITSTRING, Len(s) + 1, u \o s))
<1> DEFINE n == Len(s)
           u == <<n % 8>>
           node == WriteBitString(StringToAnyBuf(s))
<1>1. n \in Nat /\ n % 8 \in Byte
  BY LenProperties, UnusedIsByte
<1>2. u \in Seq(Byte) /\ Len(u) = 1
  <2> HIDE DEF n
  <2> QED
    BY <1>1, SMT
<1>3. Identifier(BITSTRING) = BITSTRING /\ BITSTRING \in Byte
  BY ByteIs, SMT DEF Identifier, BITSTRING
<1>4. StringToAnyBuf(s).pData = s /\ StringToAnyBuf(s).unusedBits = n % 8
  BY DEF StringToAnyBuf, AnyBuf
<1>5. node = AnyBuf(BITSTRING, n % 8, <<BITSTRING>> \o Length(n + 1) \o u \o s)
  BY <1>3, <1>4 DEF WriteBitString, WriteTagAndLength
<1> HIDE DEF u
<1>6. (<<BITSTRING>> \o Length(n + 1) \o u) \o s = (<<BITSTRING>> \o Length(n + 1)) \o (u \o s)
  <2> DEFINE h == <<BITSTRING>> \o Length(n + 1)
  <2>1. h \in Seq(Byte)
    <3> DEFINE t == <<BITSTRING>>
    <3>1. t \in Seq(Byte)
      BY <1>3, SMT
    <3>2. Length(n + 1) \in Seq(Byte)
      BY LengthIsBytes
    <3> HIDE DEF t
    <3>3. t \o Length(n + 1) \in Seq(Byte)
      BY <3>1, <3>2, Joined
    <3> QED
      BY <3>3 DEF t
  <2> HIDE DEF h
  <2>2. (h \o u) \o s = h \o (u \o s)
    BY <1>2, <2>1, Associated
  <2> QED
    BY <2>2 DEF h
<1>7. node = AnyBuf(BITSTRING, n % 8, Encoded(BITSTRING, n + 1, u \o s))
  BY <1>5, <1>6 DEF Encoded, Header
<1>8. /\ u \o s \in Seq(Byte) /\ Len(u \o s) = Len(u) + n
      /\ \A i \in 1 .. n : (u \o s)[Len(u) + i] = s[i]
  BY <1>2, Joined
<1> DEFINE v == u \o s
<1> HIDE DEF v, node
<1>9. v \in Seq(Byte) /\ Len(v) = n + 1 /\ \A i \in 1 .. n : v[1 + i] = s[i]
  BY <1>1, <1>2, <1>8 DEF v
<1>10. Tail(v) = s
  <2>1. /\ Tail(v) \in Seq(Byte) /\ Len(Tail(v)) = n
        /\ \A i \in 1 .. n : Tail(v)[i] = v[1 + i]
    BY <1>1, <1>9, SMT
  <2> QED
    BY <1>9, <2>1, Same
<1> QED
  BY <1>2, <1>7, <1>9, <1>10 DEF u, v, node

LEMMA CharStringIs ==
  ASSUME NEW s \in Seq(Byte)
  PROVE  EncodeChar(s) = AnyBuf(PRINTABLE, 0, Encoded(PRINTABLE, Len(s), s))
<1>1. Identifier(PRINTABLE) = PRINTABLE /\ PRINTABLE # BITSTRING /\ PRINTABLE # BMP
  BY SMT DEF Identifier, PRINTABLE, BITSTRING, BMP
<1>2. StringToAnyBuf(s).pData = s /\ StringToAnyBuf(s).dataType = PRINTABLE
  BY DEF StringToAnyBuf, AnyBuf
<1> QED
  BY <1>1, <1>2 DEF EncodeChar, WritePrintableString, WriteCharString, WriteTagAndLength, Encoded, Header

-----------------------------------------------------------------------------
(* Integers: a node for each that is not negative, none for the others.    *)
(* DER_ItAsn1_WriteInteger fails for an int that is negative: its sign     *)
(* extension does not fit in 32 bits.                                      *)
THEOREM NegativeIsRefused ==
  ASSUME NEW i \in Int32, ~(i[1] < 128)
  PROVE  WriteInteger(SignExtend(i)) = Failed
<1> DEFINE n == SignExtend(i)
           z == <<255, 255, 255, 255>>
<1>1. z \in Seq(Byte) /\ Len(z) = 4 /\ z[1] = 255
  <2>1. 255 \in Byte
    BY ByteIs, SMT
  <2> QED
    BY <2>1, SMT
<1>2. n = z \o i
  <2>1. i[1] >= 128
    BY IntIsBytes, ByteIs, SMT
  <2> QED
    BY <2>1 DEF SignExtend
<1> HIDE DEF n, z
<1>3. n[1] = 255
  <2>1. (z \o i)[1] = z[1]
    <3>1. \A j \in 1 .. Len(z) : (z \o i)[j] = z[j]
      BY <1>1, IntIsBytes, Joined
    <3>2. 1 \in 1 .. Len(z)
      BY <1>1, SMT
    <3> QED
      BY <3>1, <3>2
  <2> QED
    BY <1>1, <1>2, <2>1
<1>4. ~FitsIn32Bits(n)
  BY <1>3, SMT DEF FitsIn32Bits
<1>5. IntToChar(n) = << >>
  BY <1>4 DEF IntToChar
<1> QED
  BY <1>5 DEF WriteInteger, n

LEMMA IntegerIs ==
  ASSUME NEW i \in Int32, i[1] < 128
  PROVE  LET c == IntToChar(SignExtend(i)) IN
         /\ c \in Seq(Byte) /\ Len(c) \in Sizes /\ Len(c) <= 5
         /\ c[1] < 128 /\ (Len(c) > 1 /\ c[1] = 0 => c[2] >= 128)
         /\ LastBytes(CharToInt(c), 4) = i
         /\ WriteInteger(SignExtend(i)) = AnyBuf(INTEGER, 0, Encoded(INTEGER, Len(c), c))
<1> DEFINE c == IntToChar(SignExtend(i))
           n == Len(c)
<1>1. /\ c \in Seq(Byte) /\ n \in 1 .. 5
      /\ c[1] < 128 /\ (Len(c) > 1 /\ c[1] = 0 => c[2] >= 128)
      /\ LastBytes(CharToInt(c), 4) = i
  BY CharOfInt, IntOfChar
<1> HIDE DEF c
<1>2. n \in Nat /\ n <= 5 /\ n # 0
  <2>1. n \in 1 .. 5
    BY <1>1
  <2>2. \A k \in 1 .. 5 : k \in Nat /\ k <= 5 /\ k # 0
    BY SMT
  <2> QED
    BY <2>1, <2>2
<1>3. n \in Sizes
  BY <1>2, SMT DEF Sizes
<1>4. Length(n) = <<n>>
  BY <1>2, ShortLength, SMT
<1>5. c # << >>
  BY <1>2, EmptySeq
<1>6. WriteInteger(SignExtend(i)) = AnyBuf(INTEGER, 0, <<INTEGER, n>> \o c)
  BY <1>5 DEF WriteInteger, c
<1>7. <<INTEGER, n>> = <<INTEGER>> \o <<n>>
  BY Pair
<1>8. <<INTEGER, n>> \o c = Encoded(INTEGER, n, c)
  BY <1>4, <1>7 DEF Encoded, Header
<1> QED
  BY <1>1, <1>2, <1>3, <1>6, <1>8 DEF c, n

LEMMA IntegerIsRead ==
  ASSUME NEW c \in Seq(Byte), Len(c) \in Sizes, NEW node, Holds(node, INTEGER, c)
  PROVE  ReadInteger(node) = CharToInt(c)
<1> DEFINE d == Encoded(INTEGER, Len(c), c)
<1>1. INTEGER \in Byte
  BY TagIs DEF Tags
<1>2. /\ LengthInfo(d).head + LengthInfo(d).length = Len(d)
      /\ SubSeq(d, LengthInfo(d).head + 1, Len(d)) = c
  BY <1>1, ContentIsRead
<1>3. node.pData = d
  BY DEF Holds
<1> HIDE DEF d
<1>4. SubSeq(d, LengthInfo(d).head + 1, LengthInfo(d).head + LengthInfo(d).length) = c
  BY <1>2
<1> QED
  BY <1>3, <1>4 DEF ReadInteger

-----------------------------------------------------------------------------
(* The nodes of the codecs.                                                *)
(* DER_ItAsn1_WriteInteger and DER_ItAsn1_ReadInteger: an int that is not  *)
(* negative is written as DER and read back, from the node itself or from  *)
(* the one that a sequence is unpacked into.                               *)
THEOREM IntegerNode ==
  ASSUME NEW i \in Int32, i[1] < 128
  PROVE  LET node == WriteInteger(SignExtend(i)) IN
         /\ node # Failed /\ node.pData \in Pieces /\ Len(node.pData) <= 100
         /\ IsDerInteger(node.pData)
         /\ LastBytes(ReadInteger(node), 4) = i
         /\ LastBytes(ReadInteger(NodeOf(node.pData)), 4) = i
<1> DEFINE c == IntToChar(SignExtend(i))
           d == Encoded(INTEGER, Len(c), c)
           node == WriteInteger(SignExtend(i))
<1>1. /\ c \in Seq(Byte) /\ Len(c) \in Sizes
      /\ LastBytes(CharToInt(c), 4) = i
      /\ node = AnyBuf(INTEGER, 0, d)
  BY IntegerIs
<1>2. Len(c) <= 5 /\ c[1] < 128 /\ (Len(c) > 1 /\ c[1] = 0 => c[2] >= 128)
  BY IntegerIs
<1> HIDE DEF c
<1>3. INTEGER \in Tags /\ INTEGER \in Byte
  BY TagIs DEF Tags
<1>4. d \in Pieces /\ Len(d) <= Len(c) + 4
  BY <1>1, <1>3, PieceIs
<1>5. SubSeq(d, LengthInfo(d).head + 1, Len(d)) = c
  BY <1>1, <1>3, ContentIsRead
<1>6. Holds(node, INTEGER, c) /\ Holds(NodeOf(d), INTEGER, c)
  BY <1>1 DEF Holds, AnyBuf, NodeOf
<1>7. ReadInteger(node) = CharToInt(c) /\ ReadInteger(NodeOf(d)) = CharToInt(c)
  BY <1>1, <1>6, IntegerIsRead
<1> HIDE DEF d, node
<1>8. node.pData = d /\ node.dataType = INTEGER
  BY <1>1 DEF AnyBuf
<1>9. node # Failed
  <2>1. Failed.dataType = 0 /\ INTEGER # 0
    BY SMT DEF Failed, AnyBuf, INTEGER
  <2> QED
    BY <1>8, <2>1
<1>10. IsDerInteger(d)
  BY <1>2, <1>5 DEF IsDerInteger
<1>11. Len(d) <= 100
  <2>1. Len(c) \in Nat /\ Len(d) \in Nat
    BY <1>1, <1>4, LenProperties, PieceIsRead, EmptySeq
  <2> QED
    BY <1>2, <1>4, <2>1, SMT
<1> QED
  BY <1>1, <1>4, <1>7, <1>8, <1>9, <1>10, <1>11 DEF node

(* DER_ItAsn1_WriteBitString and DER_ItAsn1_ReadBitString: every string is *)
(* read back, whatever the unused bits that its length is taken for.       *)
THEOREM BitStringNode ==
  ASSUME NEW s \in Seq(Byte), Len(s) + 1 \in Sizes
  PROVE  LET node == WriteBitString(StringToAnyBuf(s)) IN
         /\ node # Failed /\ node.dataType # INTEGER
         /\ node.pData \in Pieces /\ Len(node.pData) <= Len(s) + 5
         /\ NodeOf(node.pData).dataType # INTEGER
         /\ ReadBitString(node).pData = s
         /\ ReadBitString(NodeOf(node.pData)).pData = s
<1> DEFINE v == <<Len(s) % 8>> \o s
           d == Encoded(BITSTRING, Len(v), v)
           node == WriteBitString(StringToAnyBuf(s))
<1>1. v \in Seq(Byte) /\ Len(v) = Len(s) + 1 /\ Tail(v) = s
  BY BitStringIs
<1>2. node = AnyBuf(BITSTRING, Len(s) % 8, Encoded(BITSTRING, Len(s) + 1, v))
  BY BitStringIs
<1> HIDE DEF v
<1>3. node = AnyBuf(BITSTRING, Len(s) % 8, d) /\ Len(v) \in Sizes
  BY <1>1, <1>2
<1>4. BITSTRING \in Tags /\ BITSTRING \in Byte
  BY TagIs DEF Tags
<1>5. d \in Pieces /\ Len(d) <= Len(v) + 4 /\ TagOf(d) = BITSTRING % 32
  BY <1>1, <1>3, <1>4, PieceIs
<1>6. Holds(node, BITSTRING, v) /\ Holds(NodeOf(d), BITSTRING, v)
  BY <1>3 DEF Holds, AnyBuf, NodeOf
<1>7. BITSTRING % 32 = BITSTRING /\ BITSTRING # INTEGER /\ BITSTRING # 0
  BY SMT DEF BITSTRING, INTEGER
<1> HIDE DEF d, node
<1>8. node.pData = d /\ node.dataType = BITSTRING /\ NodeOf(d).dataType = BITSTRING
  BY <1>3, <1>5, <1>7 DEF AnyBuf, NodeOf
<1>9. ReadBitString(node).pData = s /\ ReadBitString(NodeOf(d)).pData = s
  <2>1. /\ ReadTagAndLength(node).pData = Tail(v)
        /\ ReadTagAndLength(NodeOf(d)).pData = Tail(v)
    <3>1. /\ ReadTagAndLength(node).pData = IF node.dataType = BITSTRING THEN Tail(v) ELSE v
          /\ ReadTagAndLength(NodeOf(d)).pData
               = IF NodeOf(d).dataType = BITSTRING THEN Tail(v) ELSE v
      BY <1>1, <1>3, <1>4, <1>6, NodeIsRead
    <3> QED
      BY <1>8, <3>1
  <2> QED
    BY <1>1, <2>1 DEF ReadBitString
<1>10. node # Failed
  <2>1. Failed.dataType = 0
    BY DEF Failed, AnyBuf
  <2> QED
    BY <1>7, <1>8, <2>1
<1>11. Len(d) <= Len(s) + 5
  <2>1. Len(s) \in Nat /\ Len(d) \in Nat
    BY <1>5, LenProperties, PieceIsRead, EmptySeq
  <2> QED
    BY <1>1, <1>5, <2>1, SMT
<1> QED
  BY <1>5, <1>7, <1>8, <1>9, <1>10, <1>11 DEF node

(* EncodeChar and DecodeChar: every string is read back, the empty one,    *)
(* which stands for a NULL pointer, too.                                   *)
THEOREM CharStringNode ==
  ASSUME NEW s \in Seq(Byte), Len(s) \in Sizes
  PROVE  LET node == EncodeChar(s) IN
         /\ node # Failed /\ node.dataType # INTEGER
         /\ node.pData \in Pieces /\ Len(node.pData) <= Len(s) + 4
         /\ NodeOf(node.pData).dataType # INTEGER
         /\ DecodeChar(node) = s
         /\ DecodeChar(NodeOf(node.pData)) = s
<1> DEFINE d == Encoded(PRINTABLE, Len(s), s)
           node == EncodeChar(s)
<1>1. node = AnyBuf(PRINTABLE, 0, d)
  BY CharStringIs
<1>2. PRINTABLE \in Tags /\ PRINTABLE \in Byte
  BY TagIs DEF Tags
<1>3. d \in Pieces /\ Len(d) <= Len(s) + 4 /\ TagOf(d) = PRINTABLE % 32
  BY <1>2, PieceIs
<1>4. Holds(node, PRINTABLE, s) /\ Holds(NodeOf(d), PRINTABLE, s)
  BY <1>1 DEF Holds, AnyBuf, NodeOf
<1>5. PRINTABLE % 32 = PRINTABLE /\ PRINTABLE # INTEGER /\ PRINTABLE # 0 /\ PRINTABLE # BITSTRING
  BY SMT DEF PRINTABLE, BITSTRING, INTEGER
<1> HIDE DEF d, node
<1>6. node.pData = d /\ node.dataType = PRINTABLE /\ NodeOf(d).dataType = PRINTABLE
  BY <1>1, <1>3, <1>5 DEF AnyBuf, NodeOf
<1>7. DecodeChar(node) = s /\ DecodeChar(NodeOf(d)) = s
  BY <1>2, <1>4, <1>5, <1>6, NodeIsRead DEF DecodeChar, ReadPrintableString
<1>8. node # Failed
  <2>1. Failed.dataType = 0
    BY DEF Failed, AnyBuf
  <2> QED
    BY <1>5, <1>6, <2>1
<1> QED
  BY <1>3, <1>5, <1>6, <1>7, <1>8 DEF node
=============================================================================
