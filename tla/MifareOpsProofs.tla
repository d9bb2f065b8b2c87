-------------------------- MODULE MifareOpsProofs --------------------------
(***************************************************************************)
(* Proofs about MifareCodec and MifareOps: for every value, choice of access *)
(* bits, UID and card, and any number of calls and exchanges of cards.       *)
(***************************************************************************)
EXTENDS MifareOps, FiniteSetTheorems, SequenceTheorems, TLAPS

\* The value a block was set to is the one the reader reads back, and the one the
\* card counts with, for every int32_t: MIFARE_SetValue and MIFARE_GetValue.
THEOREM ValueRoundTrip ==
  ASSUME NEW v \in Int32
  PROVE  /\ ValueBytes(v) \in [1 .. 4 -> Byte]
         /\ ReadValue(ValueBytes(v)) = v
<1> DEFINE a == v % 256
           b == (v \div 256) % 256
           c == (v \div 65536) % 256
           d == (v \div 16777216) % 256
<1>1. v \in Int /\ -2147483648 <= v /\ v <= 2147483647
  BY SMT DEF Int32
<1>2. a \in Byte /\ b \in Byte /\ c \in Byte /\ d \in Byte
  BY <1>1, SMT DEF Byte
<1>3. ValueBytes(v) = <<a, b, c, d>>
  BY SMT DEF ValueBytes
<1>4. (IF d >= 128 THEN d - 256 ELSE d) * 16777216 + c * 65536 + b * 256 + a = v
  BY <1>1, SMT
<1>5. ReadValue(<<a, b, c, d>>) = v
  BY <1>4, SMT DEF ReadValue
<1> QED
  BY <1>2, <1>3, <1>5, SMT

-----------------------------------------------------------------------------
\* Four bits, taken together and apart again.
LEMMA NibbleBits ==
  ASSUME NEW w \in 0 .. 1, NEW x \in 0 .. 1, NEW y \in 0 .. 1, NEW z \in 0 .. 1
  PROVE  LET n == w + 2 * x + 4 * y + 8 * z
         IN  /\ n \in 0 .. 15
             /\ Bit(n, 1) = w /\ Bit(n, 2) = x /\ Bit(n, 4) = y /\ Bit(n, 8) = z
  BY SMT DEF Bit

\* The three bits of a tuple.
LEMMA TupleBits ==
  ASSUME NEW t \in 0 .. 7
  PROVE  /\ Bit(t, 1) \in 0 .. 1 /\ Bit(t, 2) \in 0 .. 1 /\ Bit(t, 4) \in 0 .. 1
         /\ t = 4 * Bit(t, 4) + 2 * Bit(t, 2) + Bit(t, 1)
  BY SMT DEF Bit

\* Three nibbles and their complements in three bytes, taken apart again.
LEMMA Packing ==
  ASSUME NEW c1 \in 0 .. 15, NEW c2 \in 0 .. 15, NEW c3 \in 0 .. 15
  PROVE  LET b == <<(15 - c2) * 16 + (15 - c1), c1 * 16 + (15 - c3), c3 * 16 + c2>>
         IN  /\ b[1] \in Byte /\ b[2] \in Byte /\ b[3] \in Byte
             /\ b[2] \div 16 = c1 /\ b[3] % 16 = c2 /\ b[3] \div 16 = c3
             /\ b[1] % 16 = 15 - c1 /\ b[1] \div 16 = 15 - c2 /\ b[2] % 16 = 15 - c3
  BY SMT DEF Byte

\* The access bits that MIFARE_SetAccessBits makes of any four tuples are those the
\* dump shows, and pass its check of the inverted bits.
THEOREM AccessBitsRoundTrip ==
  ASSUME NEW g \in Access
  PROVE  /\ ParseAccessBits(SetAccessBits(g)) = g
         /\ ~InvertedError(SetAccessBits(g))
<1> DEFINE c1 == Nibble(g, 4)
           c2 == Nibble(g, 2)
           c3 == Nibble(g, 1)
           b  == SetAccessBits(g)
           mask(o) == <<1, 2, 4, 8>>[o + 1]
<1>1. \A o \in 0 .. 3 :
        /\ Bit(g[o], 1) \in 0 .. 1 /\ Bit(g[o], 2) \in 0 .. 1 /\ Bit(g[o], 4) \in 0 .. 1
        /\ g[o] = 4 * Bit(g[o], 4) + 2 * Bit(g[o], 2) + Bit(g[o], 1)
  BY TupleBits DEF Access
<1>2. c1 \in 0 .. 15 /\ c2 \in 0 .. 15 /\ c3 \in 0 .. 15
  BY <1>1, NibbleBits DEF Nibble
<1>3. \A o \in 0 .. 3 :
        Bit(c1, mask(o)) = Bit(g[o], 4) /\ Bit(c2, mask(o)) = Bit(g[o], 2)
          /\ Bit(c3, mask(o)) = Bit(g[o], 1)
  <2>1. /\ Bit(c1, 1) = Bit(g[0], 4) /\ Bit(c1, 2) = Bit(g[1], 4)
        /\ Bit(c1, 4) = Bit(g[2], 4) /\ Bit(c1, 8) = Bit(g[3], 4)
    BY <1>1, NibbleBits DEF Nibble
  <2>2. /\ Bit(c2, 1) = Bit(g[0], 2) /\ Bit(c2, 2) = Bit(g[1], 2)
        /\ Bit(c2, 4) = Bit(g[2], 2) /\ Bit(c2, 8) = Bit(g[3], 2)
    BY <1>1, NibbleBits DEF Nibble
  <2>3. /\ Bit(c3, 1) = Bit(g[0], 1) /\ Bit(c3, 2) = Bit(g[1], 1)
        /\ Bit(c3, 4) = Bit(g[2], 1) /\ Bit(c3, 8) = Bit(g[3], 1)
    BY <1>1, NibbleBits DEF Nibble
  <2>4. mask(0) = 1 /\ mask(1) = 2 /\ mask(2) = 4 /\ mask(3) = 8
    BY SMT
  <2> HIDE DEF c1, c2, c3, mask
  <2> QED
    BY <2>1, <2>2, <2>3, <2>4, \A o \in 0 .. 3 : o \in {0, 1, 2, 3}
<1>4. /\ b[2] \div 16 = c1 /\ b[3] % 16 = c2 /\ b[3] \div 16 = c3
      /\ b[1] % 16 = 15 - c1 /\ b[1] \div 16 = 15 - c2 /\ b[2] % 16 = 15 - c3
  <2>1. b = <<(15 - c2) * 16 + (15 - c1), c1 * 16 + (15 - c3), c3 * 16 + c2>>
    BY DEF SetAccessBits
  <2> HIDE DEF b, c1, c2, c3
  <2> QED
    BY <1>2, <2>1, Packing
<1>5. ~InvertedError(b)
  <2> HIDE DEF b, c1, c2, c3
  <2> QED
    BY <1>2, <1>4, SMT DEF InvertedError
<1>6. ParseAccessBits(b) = [o \in 0 .. 3 |-> g[o]]
  <2>1. \A o \in 0 .. 3 : 4 * Bit(b[2] \div 16, mask(o)) + 2 * Bit(b[3] % 16, mask(o))
                            + Bit(b[3] \div 16, mask(o)) = g[o]
    <3> HIDE DEF b, c1, c2, c3, mask
    <3> QED
      BY <1>1, <1>3, <1>4
  <2> HIDE DEF b
  <2> QED
    BY <2>1 DEF ParseAccessBits
<1> QED
  BY <1>5, <1>6 DEF Access

\* In every sector only the last block, its trailer, is in the group 3 of a
\* trailer's access bits, and sectors lie one behind the other.
THEOREM SectorGeometry ==
  ASSUME NEW s \in 0 .. 39
  PROVE  LET n == NoOfBlocks(s)
         IN  /\ \A o \in 0 .. (n - 1) : Group(n, o) \in 0 .. 3
             /\ \A o \in 0 .. (n - 1) : Group(n, o) = 3 <=> o = n - 1
             /\ FirstBlock(s + 1) = FirstBlock(s) + n
             /\ FirstBlock(s) + n - 1 \in Byte
  BY SMT DEF NoOfBlocks, FirstBlock, Group, Byte

-----------------------------------------------------------------------------
(* Blocks *)

Bytes16 == [1 .. 16 -> Byte]

\* A block as a sequence of bytes.
LEMMA TupleOf16 ==
  ASSUME NEW b \in Bytes16
  PROVE  b \in Seq(Byte) /\ Len(b) = 16 /\ DOMAIN b = 1 .. 16
<1>1. b \in [1 .. 16 -> Byte] /\ 16 \in Nat
  BY DEF Bytes16
<1>2. b \in Seq(Byte)
  BY <1>1, SeqDef
<1> QED
  BY <1>1, <1>2, LenProperties

\* A sequence of sixteen bytes as a block.
LEMMA SixteenOf ==
  ASSUME NEW s \in Seq(Byte), Len(s) = 16
  PROVE  s \in Bytes16
BY LenProperties DEF Bytes16

\* Two sequences of bytes, one behind the other.
LEMMA BytesBehind ==
  ASSUME NEW s \in Seq(Byte), NEW t \in Seq(Byte), NEW m, NEW n, NEW k,
         Len(s) = m, Len(t) = n, k = m + n
  PROVE  /\ s \o t \in Seq(Byte) /\ Len(s \o t) = k
         /\ \A i \in 1 .. m : (s \o t)[i] = s[i]
<1>1. m \in Nat /\ n \in Nat
  BY LenProperties
<1>2. /\ s \o t \in Seq(Byte) /\ Len(s \o t) = m + n
      /\ \A j \in 1 .. m + n : (s \o t)[j] = IF j <= m THEN s[j] ELSE t[j - m]
  BY ConcatProperties
<1>3. ASSUME NEW i \in 1 .. m PROVE (s \o t)[i] = s[i]
  <2>1. i \in 1 .. m + n /\ i <= m
    BY <1>1
  <2> QED
    BY <1>2, <2>1
<1> QED
  BY <1>2, <1>3

\* The bytes of the second.
LEMMA SecondBehind ==
  ASSUME NEW s \in Seq(Byte), NEW t \in Seq(Byte), NEW m, NEW n, NEW i \in 1 .. n,
         Len(s) = m, Len(t) = n
  PROVE  (s \o t)[m + i] = t[i]
<1>1. m \in Nat /\ n \in Nat
  BY LenProperties
<1>2. m + i \in 1 .. m + n /\ ~ m + i <= m /\ (m + i) - m = i
  BY <1>1
<1>3. \A j \in 1 .. m + n : (s \o t)[j] = IF j <= m THEN s[j] ELSE t[j - m]
  BY ConcatProperties
<1> QED
  BY <1>2, <1>3

\* Where the bytes of a value block are.
LEMMA ValueBlockIs ==
  ASSUME NEW v \in Int32, NEW a \in Byte
  PROVE  LET b == ValueBlock(v, a)
             w == ValueBytes(v)
         IN  /\ b \in Bytes16
             /\ b[1] = w[1] /\ b[2] = w[2] /\ b[3] = w[3] /\ b[4] = w[4]
             /\ b[5] = 255 - w[1] /\ b[6] = 255 - w[2] /\ b[7] = 255 - w[3] /\ b[8] = 255 - w[4]
             /\ b[9] = w[1] /\ b[10] = w[2] /\ b[11] = w[3] /\ b[12] = w[4]
             /\ b[13] = a /\ b[14] = 255 - a /\ b[15] = a /\ b[16] = 255 - a
<1> DEFINE w == ValueBytes(v)
           u == Inverted(w)
           t == <<a, 255 - a, a, 255 - a>>
<1>1. w \in [1 .. 4 -> Byte]
  BY ValueRoundTrip
<1>2. u = [i \in 1 .. 4 |-> 255 - w[i]] /\ u \in [1 .. 4 -> Byte]
  BY <1>1 DEF Inverted, Byte
<1>3. t \in [1 .. 4 -> Byte]
  BY DEF Byte
<1> HIDE DEF w, u, t
<1>4. \A s \in [1 .. 4 -> Byte] : s \in Seq(Byte) /\ Len(s) = 4
  <2> SUFFICES ASSUME NEW s \in [1 .. 4 -> Byte] PROVE s \in Seq(Byte) /\ Len(s) = 4
    OBVIOUS
  <2>1. s \in Seq(Byte) /\ 4 \in Nat
    BY SeqDef
  <2> QED
    BY <2>1, LenProperties
<1>5. /\ w \o u \in Seq(Byte) /\ Len(w \o u) = 8
      /\ \A i \in 1 .. 4 : (w \o u)[i] = w[i]
      /\ \A i \in 1 .. 4 : (w \o u)[4 + i] = u[i]
  <2> DEFINE m == 4
             n == 4
             k == 8
  <2>1. w \in Seq(Byte) /\ u \in Seq(Byte) /\ Len(w) = m /\ Len(u) = n
    BY <1>1, <1>2, <1>4
  <2>2. k = m + n
    OBVIOUS
  <2> HIDE DEF m, n, k
  <2>3. w \o u \in Seq(Byte)
    BY <2>1, <2>2, BytesBehind
  <2>4. Len(w \o u) = k
    BY <2>1, <2>2, BytesBehind
  <2>5. \A i \in 1 .. m : (w \o u)[i] = w[i]
    BY <2>1, <2>2, BytesBehind
  <2>6. \A i \in 1 .. n : (w \o u)[m + i] = u[i]
    BY <2>1, SecondBehind
  <2> QED
    BY <2>3, <2>4, <2>5, <2>6 DEF m, n, k
<1>6. /\ (w \o u) \o w \in Seq(Byte) /\ Len((w \o u) \o w) = 12
      /\ \A i \in 1 .. 8 : ((w \o u) \o w)[i] = (w \o u)[i]
      /\ \A i \in 1 .. 4 : ((w \o u) \o w)[8 + i] = w[i]
  <2> DEFINE p == w \o u
             m == 8
             n == 4
             k == 12
  <2>1. p \in Seq(Byte) /\ w \in Seq(Byte) /\ Len(p) = m /\ Len(w) = n
    BY <1>1, <1>4, <1>5
  <2>2. k = m + n
    OBVIOUS
  <2> HIDE DEF p, m, n, k
  <2>3. p \o w \in Seq(Byte)
    BY <2>1, <2>2, BytesBehind
  <2>4. Len(p \o w) = k
    BY <2>1, <2>2, BytesBehind
  <2>5. \A i \in 1 .. m : (p \o w)[i] = p[i]
    BY <2>1, <2>2, BytesBehind
  <2>6. \A i \in 1 .. n : (p \o w)[m + i] = w[i]
    BY <2>1, SecondBehind
  <2> QED
    BY <2>3, <2>4, <2>5, <2>6 DEF p, m, n, k
<1>7. /\ ((w \o u) \o w) \o t \in Seq(Byte) /\ Len(((w \o u) \o w) \o t) = 16
      /\ \A i \in 1 .. 12 : (((w \o u) \o w) \o t)[i] = ((w \o u) \o w)[i]
      /\ \A i \in 1 .. 4 : (((w \o u) \o w) \o t)[12 + i] = t[i]
  <2> DEFINE p == (w \o u) \o w
             m == 12
             n == 4
             k == 16
  <2>1. p \in Seq(Byte) /\ t \in Seq(Byte) /\ Len(p) = m /\ Len(t) = n
    BY <1>3, <1>4, <1>6
  <2>2. k = m + n
    OBVIOUS
  <2> HIDE DEF p, m, n, k
  <2>3. p \o t \in Seq(Byte)
    BY <2>1, <2>2, BytesBehind
  <2>4. Len(p \o t) = k
    BY <2>1, <2>2, BytesBehind
  <2>5. \A i \in 1 .. m : (p \o t)[i] = p[i]
    BY <2>1, <2>2, BytesBehind
  <2>6. \A i \in 1 .. n : (p \o t)[m + i] = t[i]
    BY <2>1, SecondBehind
  <2> QED
    BY <2>3, <2>4, <2>5, <2>6 DEF p, m, n, k
<1>8. ValueBlock(v, a) = ((w \o u) \o w) \o t
  BY DEF ValueBlock, w, u, t
<1> DEFINE b == ValueBlock(v, a)
<1>9. b \in Bytes16
  BY <1>7, <1>8, SixteenOf
<1>10. /\ \A i \in 1 .. 4 : b[i] = w[i]
       /\ \A i \in 1 .. 4 : b[4 + i] = u[i]
       /\ \A i \in 1 .. 4 : b[8 + i] = w[i]
       /\ \A i \in 1 .. 4 : b[12 + i] = t[i]
  <2>1. \A i \in 1 .. 4 : i \in 1 .. 8 /\ i \in 1 .. 12 /\ 4 + i \in 1 .. 8 /\ 4 + i \in 1 .. 12
                          /\ 8 + i \in 1 .. 12
    OBVIOUS
  <2>2. \A i \in 1 .. 4 : b[i] = w[i]
    BY <1>5, <1>6, <1>7, <1>8, <2>1
  <2>3. ASSUME NEW i \in 1 .. 4 PROVE b[4 + i] = u[i]
    <3> DEFINE j == 4 + i
    <3>1. j \in 1 .. 8 /\ j \in 1 .. 12 /\ (w \o u)[j] = u[i]
      BY <1>5, <2>1
    <3> HIDE DEF j
    <3>2. b[j] = u[i]
      BY <1>6, <1>7, <1>8, <3>1
    <3> QED
      BY <3>2 DEF j
  <2>4. ASSUME NEW i \in 1 .. 4 PROVE b[8 + i] = w[i]
    <3> DEFINE j == 8 + i
    <3>1. j \in 1 .. 12 /\ ((w \o u) \o w)[j] = w[i]
      BY <1>6, <2>1
    <3> HIDE DEF j
    <3>2. b[j] = w[i]
      BY <1>7, <1>8, <3>1
    <3> QED
      BY <3>2 DEF j
  <2>5. \A i \in 1 .. 4 : b[12 + i] = t[i]
    BY <1>7, <1>8
  <2> QED
    BY <2>2, <2>3, <2>4, <2>5
<1> HIDE DEF b
<1>11. /\ b[1] = w[1] /\ b[2] = w[2] /\ b[3] = w[3] /\ b[4] = w[4]
       /\ b[5] = u[1] /\ b[6] = u[2] /\ b[7] = u[3] /\ b[8] = u[4]
       /\ b[9] = w[1] /\ b[10] = w[2] /\ b[11] = w[3] /\ b[12] = w[4]
       /\ b[13] = t[1] /\ b[14] = t[2] /\ b[15] = t[3] /\ b[16] = t[4]
  <2>1. 1 \in 1 .. 4 /\ 2 \in 1 .. 4 /\ 3 \in 1 .. 4 /\ 4 \in 1 .. 4
    OBVIOUS
  <2>2. /\ 4 + 1 = 5 /\ 4 + 2 = 6 /\ 4 + 3 = 7 /\ 4 + 4 = 8
        /\ 8 + 1 = 9 /\ 8 + 2 = 10 /\ 8 + 3 = 11 /\ 8 + 4 = 12
        /\ 12 + 1 = 13 /\ 12 + 2 = 14 /\ 12 + 3 = 15 /\ 12 + 4 = 16
    OBVIOUS
  <2> QED
    BY <1>10, <2>1, <2>2
<1>12. t[1] = a /\ t[2] = 255 - a /\ t[3] = a /\ t[4] = 255 - a
  BY DEF t
<1>13. u[1] = 255 - w[1] /\ u[2] = 255 - w[2] /\ u[3] = 255 - w[3] /\ u[4] = 255 - w[4]
  BY <1>2
<1> QED
  BY <1>9, <1>11, <1>12, <1>13 DEF b, w

\* Driver and card read the same number.
LEMMA ReadsAlike ==
  ASSUME NEW b, 4 \in DOMAIN b, 3 \in DOMAIN b, 2 \in DOMAIN b, 1 \in DOMAIN b,
         b[1] \in Byte, b[2] \in Byte, b[3] \in Byte, b[4] \in Byte
  PROVE  ReadValue(b) = CardNumber(b) /\ CardNumber(b) \in Int32
<1> DEFINE w == b[1]
           x == b[2]
           y == b[3]
           z == b[4]
<1>1. ReadValue(b) = (IF z >= 128 THEN z - 256 ELSE z) * 16777216 + y * 65536 + x * 256 + w
  BY DEF ReadValue
<1>2. /\ Inverted(b)[1] = 255 - w /\ Inverted(b)[2] = 255 - x
      /\ Inverted(b)[3] = 255 - y /\ Inverted(b)[4] = 255 - z
  BY DEF Inverted
<1>3. CardNumber(b) = IF z < 128 THEN ((z * 256 + y) * 256 + x) * 256 + w
        ELSE -1 - ((((255 - z) * 256 + (255 - y)) * 256 + (255 - x)) * 256 + (255 - w))
  BY <1>2 DEF CardNumber
<1>4. w \in Byte /\ x \in Byte /\ y \in Byte /\ z \in Byte
  OBVIOUS
<1> HIDE DEF w, x, y, z
<1> QED
  BY <1>1, <1>3, <1>4 DEF Byte, Int32

\* What the driver writes as a value, the card takes for this value.
LEMMA ValueStored ==
  ASSUME NEW v \in Int32, NEW a \in Byte
  PROVE  LET b == ValueBlock(v, a)
         IN  /\ b \in Bytes16 /\ Len(b) = 16 /\ IsValueBlock(b)
             /\ CardNumber(b) = v /\ ReadValue(b) = v
<1> DEFINE b == ValueBlock(v, a)
           w == ValueBytes(v)
<1>1. /\ b \in Bytes16
      /\ b[1] = w[1] /\ b[2] = w[2] /\ b[3] = w[3] /\ b[4] = w[4]
      /\ b[5] = 255 - w[1] /\ b[6] = 255 - w[2] /\ b[7] = 255 - w[3] /\ b[8] = 255 - w[4]
      /\ b[9] = w[1] /\ b[10] = w[2] /\ b[11] = w[3] /\ b[12] = w[4]
      /\ b[13] = a /\ b[14] = 255 - a /\ b[15] = a /\ b[16] = 255 - a
  BY ValueBlockIs
<1>2. w \in [1 .. 4 -> Byte] /\ ReadValue(w) = v
  BY ValueRoundTrip
<1> HIDE DEF b, w
<1>3. ReadValue(b) = v
  BY <1>1, <1>2 DEF ReadValue
<1>4. DOMAIN b = 1 .. 16 /\ b \in Seq(Byte) /\ Len(b) = 16
  BY <1>1, TupleOf16
<1>5. CardNumber(b) = v
  BY <1>1, <1>2, <1>3, <1>4, ReadsAlike
<1>6. SubSeq(b, 9, 12) = SubSeq(b, 1, 4)
  <2>1. \A i \in 1 .. 16 : b[i] \in Byte
    BY <1>1 DEF Bytes16
  <2>2. /\ SubSeq(b, 9, 12) \in Seq(Byte) /\ Len(SubSeq(b, 9, 12)) = 4
        /\ \A i \in 1 .. 4 : SubSeq(b, 9, 12)[i] = b[9 + i - 1]
    <3>1. \A i \in 9 .. 12 : b[i] \in Byte
      BY <2>1
    <3> QED
      BY <3>1, SubSeqProperties
  <2>3. /\ SubSeq(b, 1, 4) \in Seq(Byte) /\ Len(SubSeq(b, 1, 4)) = 4
        /\ \A i \in 1 .. 4 : SubSeq(b, 1, 4)[i] = b[1 + i - 1]
    <3>1. \A i \in 1 .. 4 : b[i] \in Byte
      BY <2>1
    <3> QED
      BY <3>1, SubSeqProperties
  <2>4. \A i \in 1 .. 4 : b[9 + i - 1] = b[1 + i - 1]
    <3>1. \A i \in 1 .. 4 : i \in {1, 2, 3, 4}
      OBVIOUS
    <3> QED
      BY <1>1, <3>1
  <2> QED
    BY <2>2, <2>3, <2>4, SeqEqual
<1>7. SubSeq(b, 5, 8) = Inverted(SubSeq(b, 1, 4))
  <2>1. \A i \in 1 .. 16 : b[i] \in Byte
    BY <1>1 DEF Bytes16
  <2>2. /\ SubSeq(b, 5, 8) \in Seq(Byte) /\ Len(SubSeq(b, 5, 8)) = 4
        /\ \A i \in 1 .. 4 : SubSeq(b, 5, 8)[i] = b[5 + i - 1]
    <3>1. \A i \in 5 .. 8 : b[i] \in Byte
      BY <2>1
    <3> QED
      BY <3>1, SubSeqProperties
  <2>3. /\ SubSeq(b, 1, 4) \in Seq(Byte) /\ Len(SubSeq(b, 1, 4)) = 4
        /\ \A i \in 1 .. 4 : SubSeq(b, 1, 4)[i] = b[1 + i - 1]
    <3>1. \A i \in 1 .. 4 : b[i] \in Byte
      BY <2>1
    <3> QED
      BY <3>1, SubSeqProperties
  <2>4. \A i \in 1 .. 4 : b[5 + i - 1] = 255 - b[1 + i - 1]
    <3>1. \A i \in 1 .. 4 : i \in {1, 2, 3, 4}
      OBVIOUS
    <3> QED
      BY <1>1, <3>1
  <2>5. DOMAIN SubSeq(b, 1, 4) = 1 .. 4 /\ DOMAIN SubSeq(b, 5, 8) = 1 .. 4
    BY <2>2, <2>3, LenProperties
  <2>6. SubSeq(b, 5, 8) \in [1 .. 4 -> Byte]
    BY <2>2, LenProperties
  <2>7. Inverted(SubSeq(b, 1, 4)) = [i \in 1 .. 4 |-> 255 - SubSeq(b, 1, 4)[i]]
    BY <2>5 DEF Inverted
  <2>8. \A i \in 1 .. 4 : SubSeq(b, 5, 8)[i] = 255 - SubSeq(b, 1, 4)[i]
    BY <2>2, <2>3, <2>4
  <2> QED
    BY <2>6, <2>7, <2>8
<1> QED
  BY <1>1, <1>3, <1>4, <1>5, <1>6, <1>7 DEF IsValueBlock, b

\* The four bytes of a value are read as this value by the card too.
LEMMA AmountSent ==
  ASSUME NEW v \in Int32
  PROVE  Len(ValueBytes(v)) = 4 /\ CardNumber(ValueBytes(v)) = v
<1> DEFINE w == ValueBytes(v)
<1>1. Len(w) = 4
  BY DEF ValueBytes
<1>2. w \in [1 .. 4 -> Byte] /\ ReadValue(w) = v
  BY ValueRoundTrip
<1> HIDE DEF w
<1>3. /\ 4 \in DOMAIN w /\ 3 \in DOMAIN w /\ 2 \in DOMAIN w /\ 1 \in DOMAIN w
      /\ w[1] \in Byte /\ w[2] \in Byte /\ w[3] \in Byte /\ w[4] \in Byte
  BY <1>2
<1>4. CardNumber(w) = v
  BY <1>2, <1>3, ReadsAlike
<1> QED
  BY <1>1, <1>4 DEF w

\* The bytes that fill a block up.
LEMMA ZerosIs ==
  ASSUME NEW n \in Nat
  PROVE  Zeros(n) \in Seq(Byte) /\ Len(Zeros(n)) = n
<1>1. Zeros(n) \in [1 .. n -> Byte]
  BY DEF Zeros, Byte
<1>2. Zeros(n) \in Seq(Byte)
  BY <1>1, SeqDef
<1> QED
  BY <1>1, <1>2, LenProperties

\* The trailer with given access bits, as the dump reads it.
LEMMA TrailerIs ==
  ASSUME NEW g \in Access
  PROVE  Trailer(g) \in Bytes16 /\ ParseAccessBits(SubSeq(Trailer(g), 7, 9)) = g
<1> DEFINE a == Zeros(6)
           s == SetAccessBits(g)
           z == Zeros(7)
           t == Trailer(g)
<1>1. a \in Seq(Byte) /\ Len(a) = 6 /\ z \in Seq(Byte) /\ Len(z) = 7
  BY ZerosIs
<1>2. s \in Seq(Byte) /\ Len(s) = 3
  <2>1. Nibble(g, 4) \in 0 .. 15 /\ Nibble(g, 2) \in 0 .. 15 /\ Nibble(g, 1) \in 0 .. 15
    <3>1. \A o \in 0 .. 3 :
            Bit(g[o], 1) \in 0 .. 1 /\ Bit(g[o], 2) \in 0 .. 1 /\ Bit(g[o], 4) \in 0 .. 1
      BY TupleBits DEF Access
    <3> QED
      BY <3>1, NibbleBits DEF Nibble
  <2> DEFINE c1 == Nibble(g, 4)
             c2 == Nibble(g, 2)
             c3 == Nibble(g, 1)
  <2>2. s = <<(15 - c2) * 16 + (15 - c1), c1 * 16 + (15 - c3), c3 * 16 + c2>>
    BY DEF SetAccessBits
  <2> HIDE DEF s, c1, c2, c3
  <2>3. /\ (15 - c2) * 16 + (15 - c1) \in Byte /\ c1 * 16 + (15 - c3) \in Byte
        /\ c3 * 16 + c2 \in Byte
    BY <2>1 DEF Byte, c1, c2, c3
  <2> QED
    BY <2>2, <2>3
<1>3. t = (a \o s) \o z
  BY DEF Trailer
<1>4. ParseAccessBits(s) = g
  BY AccessBitsRoundTrip
<1> HIDE DEF a, s, z, t
<1> DEFINE p == a \o s
<1>5. p \in Seq(Byte) /\ Len(p) = 9
  <2> DEFINE m == 6
             n == 3
             k == 9
  <2>1. Len(a) = m /\ Len(s) = n /\ k = m + n
    BY <1>1, <1>2
  <2> HIDE DEF m, n, k
  <2>2. p \in Seq(Byte) /\ Len(p) = k
    BY <1>1, <1>2, <2>1, BytesBehind
  <2> QED
    BY <2>2 DEF k
<1>6. \A i \in 1 .. 3 : p[6 + i] = s[i]
  <2> DEFINE m == 6
             n == 3
  <2>1. Len(a) = m /\ Len(s) = n
    BY <1>1, <1>2
  <2> HIDE DEF m, n
  <2>2. \A i \in 1 .. n : p[m + i] = s[i]
    BY <1>1, <1>2, <2>1, SecondBehind
  <2> QED
    BY <2>2 DEF m, n
<1> HIDE DEF p
<1>7. t \in Seq(Byte) /\ Len(t) = 16 /\ \A i \in 1 .. 9 : t[i] = p[i]
  <2> DEFINE m == 9
             n == 7
             k == 16
  <2>1. Len(p) = m /\ Len(z) = n /\ k = m + n /\ t = p \o z
    BY <1>1, <1>3, <1>5 DEF p
  <2> HIDE DEF m, n, k
  <2>2. t \in Seq(Byte) /\ Len(t) = k
    BY <1>1, <1>5, <2>1, BytesBehind
  <2>3. \A i \in 1 .. m : t[i] = p[i]
    BY <1>1, <1>5, <2>1, BytesBehind
  <2> QED
    BY <2>2, <2>3 DEF m, k
<1>8. t \in Bytes16
  BY <1>7, SixteenOf
<1>9. SubSeq(t, 7, 9) = s
  <2>1. \A i \in 7 .. 9 : t[i] \in Byte
    BY <1>8 DEF Bytes16
  <2>2. /\ SubSeq(t, 7, 9) \in Seq(Byte) /\ Len(SubSeq(t, 7, 9)) = 3
        /\ \A i \in 1 .. 3 : SubSeq(t, 7, 9)[i] = t[7 + i - 1]
    BY <2>1, SubSeqProperties
  <2>3. \A i \in 1 .. 3 : 7 + i - 1 = 6 + i /\ 6 + i \in 1 .. 9
    OBVIOUS
  <2>4. ASSUME NEW i \in 1 .. 3 PROVE SubSeq(t, 7, 9)[i] = s[i]
    <3> DEFINE j == 6 + i
    <3>1. j \in 1 .. 9 /\ p[j] = s[i] /\ SubSeq(t, 7, 9)[i] = t[j]
      BY <1>6, <2>2, <2>3
    <3> HIDE DEF j
    <3> QED
      BY <1>7, <3>1
  <2> QED
    BY <1>2, <2>2, <2>4, SeqEqual
<1> QED
  BY <1>4, <1>8, <1>9 DEF t

\* The checksum of a UID is a byte.
LEMMA BccIs ==
  ASSUME NEW u \in Seq(Byte)
  PROVE  Bcc(u) \in Byte
<1> DEFINE odd(mask) == Cardinality({i \in DOMAIN u : Bit(u[i], mask) = 1}) % 2
<1>1. ASSUME NEW mask PROVE odd(mask) \in 0 .. 1
  <2> DEFINE n == Cardinality({i \in DOMAIN u : Bit(u[i], mask) = 1})
  <2>1. DOMAIN u = 1 .. Len(u) /\ Len(u) \in Nat
    BY LenProperties
  <2>2. IsFiniteSet(DOMAIN u)
    BY <2>1, FS_Interval
  <2>3. IsFiniteSet({i \in DOMAIN u : Bit(u[i], mask) = 1})
    BY <2>2, FS_Subset
  <2>4. n \in Nat
    BY <2>3, FS_CardinalityType
  <2> HIDE DEF n
  <2>5. n % 2 \in 0 .. 1
    BY <2>4
  <2> QED
    BY <2>5 DEF n
<1> DEFINE bit(mask) == mask * odd(mask)
<1>2. Bcc(u) = bit(1) + bit(2) + bit(4) + bit(8) + bit(16) + bit(32) + bit(64) + bit(128)
  BY DEF Bcc
<1> HIDE DEF odd
<1>3. /\ odd(1) \in 0 .. 1 /\ odd(2) \in 0 .. 1 /\ odd(4) \in 0 .. 1 /\ odd(8) \in 0 .. 1
      /\ odd(16) \in 0 .. 1 /\ odd(32) \in 0 .. 1 /\ odd(64) \in 0 .. 1 /\ odd(128) \in 0 .. 1
  BY <1>1
<1> DEFINE a == odd(1)
           b == odd(2)
           c == odd(4)
           d == odd(8)
           e == odd(16)
           f == odd(32)
           g == odd(64)
           h == odd(128)
<1>4. Bcc(u) = 1 * a + 2 * b + 4 * c + 8 * d + 16 * e + 32 * f + 64 * g + 128 * h
  BY <1>2
<1>5. /\ a \in 0 .. 1 /\ b \in 0 .. 1 /\ c \in 0 .. 1 /\ d \in 0 .. 1
      /\ e \in 0 .. 1 /\ f \in 0 .. 1 /\ g \in 0 .. 1 /\ h \in 0 .. 1
  BY <1>3
<1> HIDE DEF a, b, c, d, e, f, g, h
<1>6. 1 * a + 2 * b + 4 * c + 8 * d + 16 * e + 32 * f + 64 * g + 128 * h \in Byte
  BY <1>5, SMTT(30) DEF Byte
<1> QED
  BY <1>4, <1>6

\* Block 0 with a new UID of any length that leaves room for its BCC.
LEMMA NewBlock0Is ==
  ASSUME NEW b \in Bytes16, NEW u \in Seq(Byte), LengthFits(u)
  PROVE  LET x == NewBlock0(b, u)
             n == Len(u)
         IN  /\ x \in Bytes16
             /\ \A i \in 1 .. n : x[i] = u[i]
             /\ x[n + 1] = Bcc(u)
             /\ \A i \in n + 2 .. 16 : x[i] = b[i]
<1> DEFINE x == NewBlock0(b, u)
           n == Len(u)
           v == <<Bcc(u)>>
           t == SubSeq(b, n + 2, 16)
           k == 14 - n + 1
<1>1. n \in 1 .. 15 /\ n \in Nat
  BY DEF LengthFits
<1>2. v \in Seq(Byte) /\ Len(v) = 1 /\ v[1] = Bcc(u)
  BY BccIs
<1>3. t \in Seq(Byte) /\ Len(t) = 15 - n /\ \A i \in 1 .. 15 - n : t[i] = b[n + 2 + i - 1]
  <2>1. n + 2 \in Int /\ 16 \in Int /\ \A i \in n + 2 .. 16 : b[i] \in Byte
    BY <1>1 DEF Bytes16
  <2>2. /\ t \in Seq(Byte) /\ Len(t) = IF n + 2 <= 16 THEN 16 - (n + 2) + 1 ELSE 0
        /\ \A i \in 1 .. 16 - (n + 2) + 1 : t[i] = b[n + 2 + i - 1]
    BY <2>1, SubSeqProperties
  <2> HIDE DEF n
  <2>3. 16 - (n + 2) + 1 = 15 - n /\ (~ n + 2 <= 16 => 15 - n = 0)
    BY <1>1
  <2> HIDE DEF t
  <2> QED
    BY <2>2, <2>3
<1>4. x = (u \o v) \o t
  BY DEF NewBlock0
<1> HIDE DEF x, n, v, t
<1> DEFINE p == u \o v
<1>5. /\ p \in Seq(Byte) /\ Len(p) = n + 1
      /\ \A i \in 1 .. n : p[i] = u[i]
      /\ p[n + 1] = Bcc(u)
  <2> DEFINE m == 1
             l == n + 1
  <2>1. Len(v) = m /\ Len(u) = n /\ l = n + m /\ 1 \in 1 .. m /\ n + 1 = l
    BY <1>2 DEF n
  <2> HIDE DEF m, l
  <2>2. p \in Seq(Byte) /\ Len(p) = l
    BY <1>2, <2>1, BytesBehind
  <2>3. \A i \in 1 .. n : p[i] = u[i]
    BY <1>2, <2>1, BytesBehind
  <2>4. p[n + 1] = v[1]
    BY <1>2, <2>1, SecondBehind
  <2> QED
    BY <1>2, <2>1, <2>2, <2>3, <2>4
<1> HIDE DEF p
<1>6. /\ x \in Seq(Byte) /\ Len(x) = 16
      /\ \A i \in 1 .. n + 1 : x[i] = p[i]
      /\ \A i \in 1 .. 15 - n : x[(n + 1) + i] = t[i]
  <2> DEFINE m == n + 1
             l == 15 - n
             k16 == 16
  <2>1. Len(p) = m /\ Len(t) = l /\ k16 = m + l /\ x = p \o t
    BY <1>1, <1>3, <1>4, <1>5 DEF p
  <2> HIDE DEF m, l, k16
  <2>2. x \in Seq(Byte) /\ Len(x) = k16
    BY <1>3, <1>5, <2>1, BytesBehind
  <2>3. \A i \in 1 .. m : x[i] = p[i]
    BY <1>3, <1>5, <2>1, BytesBehind
  <2>4. \A i \in 1 .. l : (p \o t)[m + i] = t[i]
    <3>1. p \in Seq(Byte) /\ t \in Seq(Byte) /\ Len(p) = m /\ Len(t) = l
      BY <1>3, <1>5, <2>1
    <3> QED
      BY <3>1, SecondBehind
  <2> QED
    BY <2>1, <2>2, <2>3, <2>4 DEF m, l, k16
<1>7. x \in Bytes16
  BY <1>6, SixteenOf
<1>8. ASSUME NEW i \in 1 .. n PROVE x[i] = u[i]
  <2>1. i \in 1 .. n + 1
    BY <1>1
  <2> QED
    BY <1>5, <1>6, <2>1
<1>9. x[n + 1] = Bcc(u)
  <2>1. n + 1 \in 1 .. n + 1
    BY <1>1
  <2> QED
    BY <1>5, <1>6, <2>1
<1>10. ASSUME NEW i \in n + 2 .. 16 PROVE x[i] = b[i]
  <2> DEFINE j == i - (n + 1)
  <2>1. j \in 1 .. 15 - n /\ (n + 1) + j = i /\ n + 2 + j - 1 = i
    BY <1>1
  <2> HIDE DEF j
  <2>2. x[(n + 1) + j] = t[j] /\ t[j] = b[n + 2 + j - 1]
    BY <1>3, <1>6, <2>1
  <2> QED
    BY <2>1, <2>2
<1> QED
  BY <1>7, <1>8, <1>9, <1>10 DEF x, n

\* What the card then has: the UID, its BCC behind it, the rest of the old block.
LEMMA NewUid ==
  ASSUME NEW b \in Bytes16, NEW u \in Seq(Byte), LengthFits(u)
  PROVE  LET x == NewBlock0(b, u)
             n == Len(u)
         IN  /\ SubSeq(x, 1, n) = u
             /\ SubSeq(x, n + 2, 16) = SubSeq(b, n + 2, 16)
             /\ n = 4 => x[5] = Bcc(SubSeq(x, 1, 4))
<1> DEFINE x == NewBlock0(b, u)
           n == Len(u)
<1>1. n \in 1 .. 15 /\ n \in Nat
  BY DEF LengthFits
<1>2. /\ x \in Bytes16
      /\ \A i \in 1 .. n : x[i] = u[i]
      /\ x[n + 1] = Bcc(u)
      /\ \A i \in n + 2 .. 16 : x[i] = b[i]
  BY NewBlock0Is
<1> HIDE DEF x, n
<1>3. SubSeq(x, 1, n) = u
  <2>1. \A i \in 1 .. n : x[i] \in Byte
    BY <1>1, <1>2 DEF Bytes16
  <2>2. /\ SubSeq(x, 1, n) \in Seq(Byte) /\ Len(SubSeq(x, 1, n)) = n
        /\ \A i \in 1 .. n : SubSeq(x, 1, n)[i] = x[i]
    <3>1. 1 \in Int /\ n \in Int /\ 1 <= n /\ n - 1 + 1 = n
      BY <1>1
    <3>2. /\ SubSeq(x, 1, n) \in Seq(Byte) /\ Len(SubSeq(x, 1, n)) = n - 1 + 1
          /\ \A i \in 1 .. n - 1 + 1 : SubSeq(x, 1, n)[i] = x[1 + i - 1]
      BY <2>1, <3>1, SubSeqProperties
    <3>3. \A i \in 1 .. n : 1 + i - 1 = i
      OBVIOUS
    <3> QED
      BY <3>1, <3>2, <3>3
  <2> QED
    BY <1>2, <2>2, SeqEqual DEF n
<1>4. SubSeq(x, n + 2, 16) = SubSeq(b, n + 2, 16)
  <2>1. n + 2 \in Int /\ 16 \in Int
    BY <1>1
  <2>2. \A i \in n + 2 .. 16 : x[i] \in Byte /\ b[i] \in Byte
    BY <1>1, <1>2 DEF Bytes16
  <2> DEFINE l == IF n + 2 <= 16 THEN 16 - (n + 2) + 1 ELSE 0
  <2>3. /\ SubSeq(x, n + 2, 16) \in Seq(Byte) /\ Len(SubSeq(x, n + 2, 16)) = l
        /\ \A i \in 1 .. 16 - (n + 2) + 1 : SubSeq(x, n + 2, 16)[i] = x[n + 2 + i - 1]
    BY <2>1, <2>2, SubSeqProperties
  <2>4. /\ SubSeq(b, n + 2, 16) \in Seq(Byte) /\ Len(SubSeq(b, n + 2, 16)) = l
        /\ \A i \in 1 .. 16 - (n + 2) + 1 : SubSeq(b, n + 2, 16)[i] = b[n + 2 + i - 1]
    BY <2>1, <2>2, SubSeqProperties
  <2>5. ASSUME NEW i \in 1 .. l PROVE SubSeq(x, n + 2, 16)[i] = SubSeq(b, n + 2, 16)[i]
    <3> DEFINE j == n + 2 + i - 1
    <3>1. i \in 1 .. 16 - (n + 2) + 1 /\ j \in n + 2 .. 16
      BY <1>1
    <3>2. SubSeq(x, n + 2, 16)[i] = x[j] /\ SubSeq(b, n + 2, 16)[i] = b[j]
      BY <2>3, <2>4, <3>1
    <3> HIDE DEF j
    <3> QED
      BY <1>2, <3>1, <3>2
  <2> HIDE DEF l
  <2> QED
    BY <2>3, <2>4, <2>5, SeqEqual
<1>5. ASSUME n = 4 PROVE x[5] = Bcc(SubSeq(x, 1, 4))
  <2>1. n + 1 = 5
    BY <1>5
  <2>2. x[5] = Bcc(u)
    BY <1>2, <2>1
  <2> QED
    BY <1>3, <1>5, <2>2
<1> QED
  BY <1>3, <1>4, <1>5 DEF x, n

\* MIFARE_UnbrickUidSector() writes a whole block.
LEMMA UnbrickIs == UnbrickBlock0 \in Bytes16
<1> DEFINE s == <<1, 2, 3, 4, 4, 8, 4>>
           z == [i \in 1 .. 9 |-> 0]
           m == 7
           n == 9
           k == 16
<1>1. s \in Seq(Byte) /\ Len(s) = m
  BY DEF Byte
<1>2. z \in Seq(Byte) /\ Len(z) = n
  <2>1. Zeros(9) \in Seq(Byte) /\ Len(Zeros(9)) = 9
    BY ZerosIs
  <2> QED
    BY <2>1 DEF Zeros
<1>3. k = m + n
  OBVIOUS
<1>4. UnbrickBlock0 = s \o z
  BY DEF UnbrickBlock0
<1> HIDE DEF s, z, m, n, k
<1>5. s \o z \in Seq(Byte) /\ Len(s \o z) = k
  BY <1>1, <1>2, <1>3, BytesBehind
<1> QED
  BY <1>4, <1>5, SixteenOf DEF k

\* The four bytes of the UID of a card.
LEMMA UidIs ==
  ASSUME NEW c, c.blocks[0] \in Bytes16
  PROVE  UidOf(c) \in [1 .. 4 -> Byte]
<1> DEFINE b == c.blocks[0]
           s == SubSeq(b, 1, 4)
<1>1. \A i \in 1 .. 4 : b[i] \in Byte
  BY DEF Bytes16
<1> HIDE DEF b
<1>2. s \in Seq(Byte) /\ Len(s) = 4
  BY <1>1, SubSeqProperties
<1>3. s \in [1 .. 4 -> Byte]
  BY <1>2, LenProperties
<1> QED
  BY <1>3 DEF UidOf, b

-----------------------------------------------------------------------------
(* The inductive invariant *)

\* What the step the driver is at says of the call.
CallInv ==
  /\ pc \in {"write1", "write2"} =>
       \/ call.op = "set" /\ call.block \in Data /\ call.arg \in Int32
       \/ call.op = "access" /\ call.block = TrailerBlock /\ call.arg \in Access
       \/ call.op \in {"setUid", "unbrick"} /\ call.block = 0
  /\ pc \in {"two1", "two2"} =>
       call.op \in {"inc", "dec", "restore"} /\ call.block \in Data /\ call.arg \in Int32 \cap Nat
  /\ pc = "transfer" => call.op = "transfer" /\ call.block \in Data
  /\ pc = "get" => call.op = "get" /\ call.block \in Data
  /\ pc \in {"dumpAuth", "dumpRead"} => call.op = "dump"
  /\ pc \in {"uidAuth", "uidRequest", "uidSelect", "uidAgain", "uidRead", "wake"} =>
       call.op = "setUid" /\ call.block = 0
  /\ pc \in {"halt", "magic40", "magic43"} => call.op \in {"setUid", "unbrick"} /\ call.block = 0
  /\ call.op = "setUid" /\ (pc # "free" \/ result) => call.arg \in Seq(Byte) /\ LengthFits(call.arg)

\* Only in these states does a card expect data or hold a volatile value.
Settled(k) == k.link \notin {"auth", "open", "desync"} => k.want = None /\ k.reg = None

\* The card does not expect the amount of a change.
Steady(k) == k.want = None \/ k.want.op = "write"

\* A card has the access bits it was given; without the field it is idle; its volatile
\* value is the result of the last change reported done, unless it is in the middle of
\* the next one.
CardInv ==
  \A c \in Cards :
    /\ cards[c].blocks[TrailerBlock] = Trailer(granted[c])
    /\ c # here => cards[c].link = "idle"
    /\ Settled(cards[c])
    /\ Steady(cards[c]) /\ cards[c].reg # None => cards[c].reg = due

\* Between the two steps the card waits for the data of this call, unless it was exchanged.
WantInv ==
  here # None =>
    /\ pc = "write2" => C.want \in {None, [op |-> "write", block |-> call.block]}
    /\ pc = "two2" => C.want = [op |-> call.op, block |-> call.block] \/ C.link = "idle"

OpsInv == TypeOK /\ CallInv /\ CardInv /\ WantInv

\* What a dump has shown is the card's; as long as no trailer was read, nothing is shown.
DumpInv ==
  /\ pc \in {"dumpAuth", "dumpRead"} =>
       /\ access = None => shown = Blank
       /\ \A b \in Block : b <= blk => shown[b] = None
       /\ blk = TrailerBlock => access = None
  /\ call.op = "dump" /\ (pc # "free" \/ result) /\ here # None /\ ~swapped
       /\ shown[TrailerBlock] # None =>
       /\ access = granted[here]
       /\ \A b \in Block : shown[b] # None =>
            /\ shown[b].access = granted[here][b]
            /\ shown[b].value # None => shown[b].value = CardNumber(C.blocks[b])

\* The block the card's block 0 is replaced by.
NewBlocks(c) == [before[c] EXCEPT ![0] = NewBlock0(before[c][0], call.arg)]

\* MIFARE_SetUid changes nothing before it writes, and then only block 0.
UidInv ==
  call.op = "setUid" /\ here # None /\ ~swapped =>
    /\ pc # "free" \/ result => before[here] \in [Block -> [1 .. 16 -> Byte]]
    /\ pc \notin {"free", "wake"} => C.blocks = before[here]
    /\ pc \in {"halt", "magic40", "magic43", "write1", "write2"} =>
         buf = NewBlock0(before[here][0], call.arg)
    /\ pc = "wake" \/ (pc = "free" /\ result) => C.blocks = NewBlocks(here)

-----------------------------------------------------------------------------
(* What a card does with a frame *)

\* It keeps its blocks and does not get a volatile value.
Plain(k, n) ==
  /\ n \in Card /\ n.blocks = k.blocks
  /\ Settled(k) => Settled(n)
  /\ Steady(n) /\ n.reg # None => Steady(k) /\ n.reg = k.reg

\* A command that a card has acknowledged, as a record.
LEMMA CommandFields ==
  ASSUME NEW o, NEW b
  PROVE  /\ [op |-> o, block |-> b].op = o /\ [op |-> o, block |-> b].block = b
         /\ o \in Op \cup {"write"} /\ b \in Block
              => [op |-> o, block |-> b] \in Command /\ [op |-> o, block |-> b] # None
BY OpsConstants DEF Command

\* What a card makes of a frame: nothing, at first.
LEMMA PlainSame ==
  ASSUME NEW k \in Card
  PROVE  Plain(k, k)
BY DEF Plain

\* A card that cannot make sense of a frame forgets the command it had taken.
LEMMA ConfusedIs ==
  ASSUME NEW k \in Card
  PROVE  /\ Plain(k, Confused(k))
         /\ Settled(k) => Confused(k).want = None /\ Confused(k).reg = None
         /\ Confused(k).link \in {"idle", "halt"}
BY DEF Plain, Confused, Settled, Steady, Card

\* A frame that a card does not hear.
LEMMA MissedIs ==
  ASSUME NEW k \in Card
  PROVE  /\ Plain(k, Missed(k)) /\ Missed(k).want = k.want /\ Missed(k).reg = k.reg
         /\ k.link = "idle" => Missed(k) = k
BY DEF Plain, Missed, Settled, Steady, Card

\* A card that leaves the field.
LEMMA OffIs ==
  ASSUME NEW k \in Card
  PROVE  /\ Plain(k, Off(k)) /\ Settled(Off(k))
         /\ Off(k).link = "idle" /\ Off(k).want = None /\ Off(k).reg = None
BY DEF Plain, Off, Settled, Steady, Card

\* The links between which frames other than commands and data lead.
LEMMA LinkOnly ==
  ASSUME NEW k \in Card, NEW to \in {"ready", "active", "auth", "gate", "open"},
         k.want = None, k.reg = None \/ to = "auth"
  PROVE  Plain(k, [k EXCEPT !.link = to])
BY DEF Plain, Settled, Steady, Card

\* An authentication touches no block ...
LEMMA OnAuthIs ==
  ASSUME NEW k \in Card, Settled(k)
  PROVE  Plain(k, OnAuth(k).card)
BY ConfusedIs, LinkOnly DEF OnAuth, Refuses, Acks

\* ... nor does a select,
LEMMA OnRequestIs ==
  ASSUME NEW k \in Card, Settled(k)
  PROVE  Plain(k, OnRequest(k).card)
BY ConfusedIs, LinkOnly DEF OnRequest, Refuses, Acks, Settled

LEMMA OnSelectIs ==
  ASSUME NEW k \in Card, Settled(k)
  PROVE  Plain(k, OnSelect(k).card)
BY ConfusedIs, LinkOnly DEF OnSelect, Refuses, Acks, Settled

\* a wake-up,
LEMMA OnWakeIs ==
  ASSUME NEW k \in Card, Settled(k)
  PROVE  Plain(k, OnWake(k).card)
BY ConfusedIs, LinkOnly DEF OnWake, Refuses, Acks, Settled

\* a frame that opens the backdoor,
LEMMA OnMagicIs ==
  ASSUME NEW k \in Card, Settled(k), NEW from \in SUBSET {"idle", "halt", "gate"},
         NEW to \in {"gate", "open"}
  PROVE  Plain(k, OnMagic(k, from, to).card)
BY ConfusedIs, LinkOnly DEF OnMagic, Refuses, Acks, Settled

\* or a halt.
LEMMA OnHaltIs ==
  ASSUME NEW k \in Card, Settled(k)
  PROVE  Plain(k, OnHalt(k).card)
<1>1. k.want = None => Plain(k, [k EXCEPT !.link = "halt", !.reg = None])
  BY DEF Plain, Settled, Steady, Card
<1> QED
  BY <1>1, ConfusedIs DEF OnHalt, Refuses, Settled

\* A command that does not change blocks; confirmed, the card waits for its data.
LEMMA OnCommandIs ==
  ASSUME NEW k \in Card, Settled(k), NEW o \in {"read", "write", "inc", "dec", "restore"},
         NEW b \in Block
  PROVE  LET r == OnCommand(k, o, b)
         IN  /\ Plain(k, r.card)
             /\ r.reply = "ack" /\ o # "read" => r.card.want = [op |-> o, block |-> b]
<1> DEFINE w == [op |-> o, block |-> b]
           n == [k EXCEPT !.want = w]
           r == OnCommand(k, o, b)
<1>1. o = "write" \/ o = "read" \/ o \in {"inc", "dec", "restore"}
  OBVIOUS
<1>2. ASSUME o # "read" PROVE w \in Command /\ w # None /\ w.op = o
  <2>1. o \in Op \cup {"write"}
    BY <1>2 DEF Op
  <2> QED
    BY <2>1, CommandFields
<1> HIDE DEF w
<1>3. ASSUME o # "read", k.want = None, Understands(k) PROVE Plain(k, n) /\ n.want = w
  <2>1. n \in Card /\ n.blocks = k.blocks /\ n.want = w /\ n.reg = k.reg /\ n.link = k.link
    BY <1>2, <1>3 DEF Card
  <2>2. k.link \in {"auth", "open"}
    BY <1>3 DEF Understands
  <2> QED
    BY <1>3, <2>1, <2>2 DEF Plain, Settled, Steady
<1>4. Plain(k, Confused(k)) /\ Plain(k, k)
  BY ConfusedIs, PlainSame
<1>5. CASE ~Understands(k) \/ k.want # None
  BY <1>4, <1>5 DEF OnCommand, Refuses
<1>6. CASE Understands(k) /\ k.want = None
  <2>1. CASE o = "read"
    <3>1. r = Acks(k)
      BY <1>6, <2>1 DEF OnCommand
    <3> QED
      BY <1>4, <2>1, <3>1 DEF Acks
  <2>2. CASE o = "write"
    <3>1. r = Acks(n)
      BY <1>6, <2>2 DEF OnCommand, w
    <3>2. r.card = n /\ n.want = w /\ Plain(k, n)
      <4>1. o # "read"
        BY <2>2
      <4>2. Plain(k, n) /\ n.want = w
        BY <1>3, <1>6, <4>1
      <4> HIDE DEF n
      <4> QED
        BY <3>1, <4>2 DEF Acks
    <3> HIDE DEF n
    <3> QED
      BY <3>2 DEF w
  <2>3. CASE o \in {"inc", "dec", "restore"}
    <3>1. r = IF IsValueBlock(k.blocks[b]) THEN Acks(n) ELSE Nak(k)
      BY <1>6, <2>3 DEF OnCommand, w
    <3> QED
      BY <1>3, <1>4, <1>6, <2>3, <3>1 DEF Acks, Nak, w
  <2> QED
    BY <1>1, <2>1, <2>2, <2>3
<1> QED
  BY <1>5, <1>6

\* A transfer stores the volatile value, and is confirmed only if there is one.
LEMMA OnTransferIs ==
  ASSUME NEW k \in Card, Settled(k), NEW b \in Data
  PROVE  LET r == OnCommand(k, "transfer", b)
         IN  \/ Plain(k, r.card) /\ r.reply # "ack"
             \/ /\ r.card = [k EXCEPT !.blocks[b] = ValueBlock(k.reg, b)]
                /\ k.want = None /\ k.reg # None /\ k.reg \in Int32
                /\ k.link \in {"auth", "open"} /\ r.reply = "ack"
<1> DEFINE n == [k EXCEPT !.blocks[b] = ValueBlock(k.reg, b)]
           r == OnCommand(k, "transfer", b)
<1>1. Plain(k, Confused(k))
  BY ConfusedIs
<1>2. CASE ~Understands(k) \/ k.want # None
  BY <1>1, <1>2 DEF OnCommand, Refuses
<1>3. CASE Understands(k) /\ k.want = None
  <2>1. r = IF k.reg = None THEN Nak(k) ELSE Acks(n)
    BY <1>3 DEF OnCommand
  <2>2. k.link \in {"auth", "open"}
    BY <1>3 DEF Understands
  <2>3. CASE k.reg = None
    BY <1>1, <2>1, <2>3 DEF Nak
  <2>4. CASE k.reg # None
    <3>1. k.reg \in Int32
      BY <2>4 DEF Card
    <3>2. r.card = n /\ r.reply = "ack"
      BY <2>1, <2>4 DEF Acks
    <3> QED
      BY <1>3, <2>2, <2>4, <3>1, <3>2
  <2> QED
    BY <2>3, <2>4
<1> QED
  BY <1>2, <1>3

\* The data of a write go to the block of its command.
LEMMA OnWriteIs ==
  ASSUME NEW k \in Card, Settled(k), NEW b \in Block, NEW data \in Bytes16,
         k.want \in {None, [op |-> "write", block |-> b]}
  PROVE  LET r == OnData(k, data)
         IN  \/ Plain(k, r.card) /\ r.reply # "ack"
             \/ /\ r.card = [k EXCEPT !.blocks[b] = data, !.want = None]
                /\ r.reply = "ack" /\ k.link \in {"auth", "open"} /\ Steady(k)
<1> DEFINE r == OnData(k, data)
<1>1. Plain(k, Confused(k))
  BY ConfusedIs
<1>2. Len(data) = 16
  BY TupleOf16
<1>3. CASE ~Understands(k) \/ k.want = None
  BY <1>1, <1>3 DEF OnData, Refuses
<1>4. CASE Understands(k) /\ k.want # None
  <2>1. k.want.op = "write" /\ k.want.block = b
    BY <1>4
  <2>2. k.link \in {"auth", "open"}
    BY <1>4 DEF Understands
  <2>3. r = Acks([k EXCEPT !.blocks[b] = data, !.want = None])
    BY <1>2, <1>4, <2>1 DEF OnData
  <2>4. r.card = [k EXCEPT !.blocks[b] = data, !.want = None] /\ r.reply = "ack"
    BY <2>3 DEF Acks
  <2> QED
    BY <2>1, <2>2, <2>4 DEF Steady
<1> QED
  BY <1>3, <1>4

\* The value a card computes is an int32_t.
LEMMA ChangedIs ==
  ASSUME NEW k \in Card, NEW o \in {"inc", "dec", "restore"}, NEW b \in Data,
         NEW d \in Int32 \cap Nat
  PROVE  /\ Changed(k, o, b, d) \in Int
         /\ InRange(k, o, b, d) => Changed(k, o, b, d) \in Int32
<1> DEFINE v == CardNumber(k.blocks[b])
<1>1. v \in Int32
  <2> DEFINE w == k.blocks[b]
  <2>1. w \in Bytes16
    BY DEF Card, Bytes16, Block, Data, NoOfBlocks, Sector
  <2> HIDE DEF w
  <2>2. /\ 4 \in DOMAIN w /\ 3 \in DOMAIN w /\ 2 \in DOMAIN w /\ 1 \in DOMAIN w
        /\ w[1] \in Byte /\ w[2] \in Byte /\ w[3] \in Byte /\ w[4] \in Byte
    BY <2>1 DEF Bytes16
  <2>3. CardNumber(w) \in Int32
    BY <2>2, ReadsAlike
  <2> QED
    BY <2>3 DEF w
<1>2. ASSUME o = "inc"
      PROVE  Changed(k, o, b, d) = v + d /\ (InRange(k, o, b, d) <=> v <= 2147483647 - d)
  BY <1>2, SMT DEF Changed, InRange
<1>3. ASSUME o = "dec"
      PROVE  Changed(k, o, b, d) = v - d /\ (InRange(k, o, b, d) <=> v >= -2147483647 - 1 + d)
  BY <1>3, SMT DEF Changed, InRange
<1>4. ASSUME o = "restore" PROVE Changed(k, o, b, d) = v
  BY <1>4, SMT DEF Changed
<1> HIDE DEF v
<1>5. CASE o = "inc"
  BY <1>1, <1>2, <1>5, SMT DEF Int32
<1>6. CASE o = "dec"
  BY <1>1, <1>3, <1>6, SMT DEF Int32
<1>7. CASE o = "restore"
  BY <1>1, <1>4, <1>7, SMT DEF Int32
<1> QED
  BY <1>5, <1>6, <1>7

\* The amount of a change: the card computes its result, and confirms nothing.
LEMMA OnAmountIs ==
  ASSUME NEW k \in Card, Settled(k), NEW o \in {"inc", "dec", "restore"}, NEW b \in Data,
         NEW d \in Int32 \cap Nat,
         k.want = [op |-> o, block |-> b] \/ k.link = "idle"
  PROVE  LET r == OnData(k, ValueBytes(d))
         IN  /\ r.card \in Card /\ r.card.blocks = k.blocks /\ Settled(r.card)
             /\ r.card.reg # None => /\ InRange(k, o, b, d) /\ r.reply = "none"
                                     /\ r.card.reg = Changed(k, o, b, d)
<1> DEFINE w == ValueBytes(d)
           r == OnData(k, w)
           v == Changed(k, o, b, d)
           n == [k EXCEPT !.want = None, !.reg = v]
<1>1. Len(w) = 4 /\ CardNumber(w) = d
  BY AmountSent
<1>2. /\ Confused(k) \in Card /\ Confused(k).blocks = k.blocks /\ Settled(Confused(k))
      /\ Confused(k).reg = None
  BY ConfusedIs DEF Plain
<1> HIDE DEF w
<1>3. CASE ~Understands(k) \/ k.want = None
  <2>1. r.card = Confused(k)
    BY <1>3 DEF OnData, Refuses
  <2> QED
    BY <1>2, <2>1 DEF w
<1>4. CASE Understands(k) /\ k.want # None
  <2>1. k.link \in {"auth", "open"}
    BY <1>4 DEF Understands
  <2>2. k.want.op = o /\ k.want.block = b /\ o # "write"
    BY <2>1
  <2>3. r = IF InRange(k, o, b, d) THEN [card |-> n, reply |-> "none"] ELSE Nak(k)
    BY <1>1, <1>4, <2>2 DEF OnData
  <2>4. CASE InRange(k, o, b, d)
    <3>1. v \in Int32
      BY <2>4, ChangedIs
    <3>2. r.card = n /\ r.reply = "none"
      BY <2>3, <2>4
    <3> HIDE DEF v, r
    <3>3. /\ n \in Card /\ n.blocks = k.blocks /\ n.reg = v /\ n.link = k.link
      BY <3>1 DEF Card
    <3>4. Settled(n)
      BY <2>1, <3>3 DEF Settled
    <3> QED
      BY <2>4, <3>2, <3>3, <3>4 DEF r, v, w
  <2>5. CASE ~InRange(k, o, b, d)
    <3>1. r.card = Confused(k)
      BY <2>3, <2>5 DEF Nak
    <3> QED
      BY <1>2, <3>1 DEF w
  <2> QED
    BY <2>4, <2>5
<1> QED
  BY <1>3, <1>4

-----------------------------------------------------------------------------
(* Steps *)

\* A frame finds no card, is not heard, or is, and the answer may get lost.
LEMMA GetsIs ==
  ASSUME TypeOK, NEW r, NEW reply, Gets(r, reply)
  PROVE  \/ here = None /\ cards' = cards /\ reply = "none"
         \/ here \in Cards /\ here # None /\ cards' = [cards EXCEPT ![here] = Missed(C)]
              /\ reply = "none"
         \/ here \in Cards /\ here # None /\ cards' = [cards EXCEPT ![here] = r.card]
              /\ reply \in {r.reply, "none"}
BY DEF Gets, TypeOK, C

\* One card changes, in a way that keeps its part of the invariant.
LEMMA OneCard ==
  ASSUME TypeOK, CardInv, here \in Cards, NEW n \in Card, cards' = [cards EXCEPT ![here] = n],
         granted' \in [Cards -> Access], \A c \in Cards : c # here => granted'[c] = granted[c],
         here' = here \/ (here' = None /\ n.link = "idle"),
         n.blocks[TrailerBlock] = Trailer(granted'[here]), Settled(n),
         Steady(n) /\ n.reg # None => n.reg = due'
  PROVE  cards' \in [Cards -> Card] /\ CardInv'
<1>1. cards \in [Cards -> Card]
  BY DEF TypeOK
<1>2. cards' \in [Cards -> Card] /\ cards'[here] = n /\ \A c \in Cards : c # here => cards'[c] = cards[c]
  BY <1>1
<1>3. ASSUME NEW c \in Cards
      PROVE  /\ cards'[c].blocks[TrailerBlock] = Trailer(granted'[c])
             /\ c # here' => cards'[c].link = "idle"
             /\ Settled(cards'[c])
             /\ Steady(cards'[c]) /\ cards'[c].reg # None => cards'[c].reg = due'
  <2>1. CASE c = here
    BY <1>2, <2>1
  <2>2. CASE c # here
    <3>1. cards'[c] = cards[c] /\ granted'[c] = granted[c]
      BY <1>2, <2>2
    <3>2. /\ cards[c].blocks[TrailerBlock] = Trailer(granted[c]) /\ cards[c].link = "idle"
          /\ Settled(cards[c])
      BY <2>2 DEF CardInv
    <3>3. cards[c].reg = None
      BY <3>2 DEF Settled
    <3> QED
      BY <3>1, <3>2, <3>3
  <2> QED
    BY <2>1, <2>2
<1>4. CardInv'
  BY <1>3 DEF CardInv, Settled, Steady
<1> QED
  BY <1>2, <1>4

\* An exchange after which the card has its blocks, and no new volatile value.
LEMMA PlainGets ==
  ASSUME TypeOK, CardInv, NEW r, NEW reply, here # None => Plain(C, r.card), Gets(r, reply),
         UNCHANGED <<here, due, granted>>
  PROVE  /\ cards' \in [Cards -> Card] /\ CardInv'
         /\ \A c \in Cards : cards'[c].blocks = cards[c].blocks
<1>1. cards \in [Cards -> Card] /\ granted \in [Cards -> Access]
  BY DEF TypeOK
<1>2. CASE here = None /\ cards' = cards
  BY <1>1, <1>2 DEF CardInv, Settled, Steady
<1>3. ASSUME here \in Cards, here # None, NEW n, Plain(C, n), cards' = [cards EXCEPT ![here] = n]
      PROVE  /\ cards' \in [Cards -> Card] /\ CardInv'
             /\ \A c \in Cards : cards'[c].blocks = cards[c].blocks
  <2>1. n \in Card /\ n.blocks = C.blocks /\ (Settled(C) => Settled(n))
        /\ (Steady(n) /\ n.reg # None => Steady(C) /\ n.reg = C.reg)
    BY <1>3 DEF Plain
  <2>2. /\ C.blocks[TrailerBlock] = Trailer(granted[here]) /\ Settled(C)
        /\ (Steady(C) /\ C.reg # None => C.reg = due)
    BY <1>3 DEF CardInv, C
  <2>3. cards' \in [Cards -> Card] /\ CardInv'
    BY <1>1, <1>3, <2>1, <2>2, OneCard
  <2>4. \A c \in Cards : cards'[c].blocks = cards[c].blocks
    BY <1>1, <1>3, <2>1 DEF C
  <2> QED
    BY <2>3, <2>4
<1>4. here \in Cards => C \in Card
  BY <1>1 DEF C
<1>5. here \in Cards => Plain(C, Missed(C))
  BY <1>4, MissedIs
<1> QED
  BY <1>2, <1>3, <1>5, GetsIs

\* The card in the field is of its type, and settled.
LEMMA HereIs ==
  ASSUME OpsInv
  PROVE  here # None => here \in Cards /\ C \in Card /\ Settled(C)
BY DEF OpsInv, TypeOK, CardInv, C

\* The variables that an exchange leaves alone are of their types.
LEMMA WhatStays ==
  ASSUME TypeOK, UNCHANGED <<here, due, granted, History>>
  PROVE  /\ calls' \in 0 .. MaxCalls /\ call'.op \in Op \cup {None} /\ call'.block \in Block
         /\ here' \in Cards \cup {None} /\ due' \in Int \cup {None}
         /\ granted' \in [Cards -> Access]
         /\ before' \in [Cards -> [Block -> Bytes16] \cup {None}]
BY DEF TypeOK, History, Bytes16

\* The dump that has shown nothing yet.
LEMMA BlankIs == Blank \in [Block -> [access : 0 .. 7, value : Int32 \cup {None}] \cup {None}]
BY DEF Blank

\* A block of zeros.
LEMMA ZeroBlock == Zeros(16) \in Bytes16
BY ZerosIs, SixteenOf

\* A call begins with no card in the middle of a command.
LEMMA StepBegin ==
  ASSUME OpsInv, NEW o \in Op, NEW b \in Block, NEW a, NEW at, Begin(o, b, a, at),
         \/ at = "write1" /\ o = "set" /\ b \in Data /\ a \in Int32
         \/ at = "write1" /\ o = "access" /\ b = TrailerBlock /\ a \in Access
         \/ at = "two1" /\ o \in {"inc", "dec", "restore"} /\ b \in Data /\ a \in Int32 \cap Nat
         \/ at = "transfer" /\ o = "transfer" /\ b \in Data
         \/ at = "get" /\ o = "get" /\ b \in Data
         \/ at = "dumpAuth" /\ o = "dump"
         \/ at = "uidAuth" /\ o = "setUid" /\ b = 0 /\ a \in Seq(Byte) /\ LengthFits(a)
         \/ at = "free" /\ o = "setUid"
         \/ at = "halt" /\ o = "unbrick" /\ b = 0
  PROVE  OpsInv'
<1>1. call' = [op |-> o, block |-> b, arg |-> a] /\ pc' = at /\ result' = FALSE
  BY DEF Begin
<1>2. call'.op = o /\ call'.block = b /\ call'.arg = a
  BY <1>1
<1>3. TypeOK'
  <2>1. before' \in [Cards -> [Block -> [1 .. 16 -> Byte]] \cup {None}]
    <3>1. \A c \in Cards : cards[c].blocks \in [Block -> [1 .. 16 -> Byte]]
      BY DEF OpsInv, TypeOK, Card
    <3> QED
      BY <3>1 DEF Begin
  <2>2. NoOfBlocks(Sector) - 1 \in Block
    BY DEF NoOfBlocks, Sector, Block
  <2>3. calls' \in 0 .. MaxCalls
    BY OpsConstants DEF Begin, OpsInv, TypeOK
  <2>4. buf' \in [1 .. 16 -> Byte]
    BY ZeroBlock DEF Begin, Bytes16
  <2>5. got' \in Int32 /\ shown' \in [Block -> [access : 0 .. 7, value : Int32 \cup {None}] \cup {None}]
        /\ blk' \in Block /\ access' \in Access \cup {None}
    BY <2>2, BlankIs DEF Begin, Int32
  <2>6. pc' \in {"write1", "two1", "transfer", "get", "dumpAuth", "uidAuth", "free", "halt"}
    BY <1>1
  <2>7. result' \in BOOLEAN /\ swapped' \in BOOLEAN
    BY DEF Begin
  <2>8. /\ uid' \in [1 .. 4 -> Byte] /\ crypto' \in BOOLEAN /\ here' \in Cards \cup {None}
        /\ cards' \in [Cards -> Card] /\ due' \in Int \cup {None} /\ granted' \in [Cards -> Access]
    BY DEF Begin, OpsInv, TypeOK
  <2>9. call'.op \in Op \cup {None} /\ call'.block \in Block
    BY <1>2
  <2> QED
    BY <2>1, <2>3, <2>4, <2>5, <2>6, <2>7, <2>8, <2>9 DEF TypeOK
<1>4. CallInv'
  BY <1>1, <1>2 DEF CallInv, LengthFits
<1>5. CardInv'
  BY DEF Begin, OpsInv, CardInv, Settled, Steady
<1>6. WantInv'
  BY <1>1 DEF WantInv
<1> QED
  BY <1>3, <1>4, <1>5, <1>6 DEF OpsInv

\* The calls, each with its arguments.
LEMMA StepCallBegins ==
  ASSUME OpsInv, CallBegins
  PROVE  OpsInv'
<1>1. Data \subseteq Block /\ TrailerBlock \in Block /\ 0 \in Block /\ 0 \in Int32 \cap Nat
  BY DEF Data, Block, TrailerBlock, NoOfBlocks, Sector, Int32
<1>2. /\ "set" \in Op /\ "get" \in Op /\ "inc" \in Op /\ "dec" \in Op /\ "restore" \in Op
      /\ "transfer" \in Op /\ "access" \in Op /\ "dump" \in Op /\ "setUid" \in Op /\ "unbrick" \in Op
  BY DEF Op
<1>3. ASSUME NEW b \in Data, NEW v \in Values, Begin("set", b, v, "write1") PROVE OpsInv'
  BY <1>1, <1>2, <1>3, OpsConstants, StepBegin
<1>4. ASSUME NEW b \in Data, Begin("get", b, 0, "get") PROVE OpsInv'
  BY <1>1, <1>2, <1>4, StepBegin
<1>5. ASSUME NEW b \in Data, Begin("restore", b, 0, "two1") PROVE OpsInv'
  BY <1>1, <1>2, <1>5, StepBegin
<1>6. ASSUME NEW b \in Data, Begin("transfer", b, 0, "transfer") PROVE OpsInv'
  BY <1>1, <1>2, <1>6, StepBegin
<1>7. ASSUME NEW b \in Data, NEW d \in Deltas, Begin("inc", b, d, "two1") PROVE OpsInv'
  BY <1>1, <1>2, <1>7, OpsConstants, StepBegin
<1>8. ASSUME NEW b \in Data, NEW d \in Deltas, Begin("dec", b, d, "two1") PROVE OpsInv'
  BY <1>1, <1>2, <1>8, OpsConstants, StepBegin
<1>9. ASSUME NEW g \in Accesses, Begin("access", TrailerBlock, g, "write1") PROVE OpsInv'
  BY <1>1, <1>2, <1>9, OpsConstants, StepBegin
<1>10. ASSUME Begin("dump", 0, 0, "dumpAuth") PROVE OpsInv'
  BY <1>1, <1>2, <1>10, StepBegin
<1>11. ASSUME NEW u \in Uids, Begin("setUid", 0, u, IF LengthFits(u) THEN "uidAuth" ELSE "free")
       PROVE  OpsInv'
  <2>1. u \in Seq(Byte)
    BY OpsConstants
  <2>2. CASE LengthFits(u)
    <3>1. Begin("setUid", 0, u, "uidAuth")
      BY <1>11, <2>2
    <3> QED
      BY <1>1, <1>2, <2>1, <2>2, <3>1, StepBegin
  <2>3. CASE ~LengthFits(u)
    <3>1. Begin("setUid", 0, u, "free")
      BY <1>11, <2>3
    <3> QED
      BY <1>1, <1>2, <3>1, StepBegin
  <2> QED
    BY <2>2, <2>3
<1>12. ASSUME Begin("unbrick", 0, 0, "halt") PROVE OpsInv'
  BY <1>1, <1>2, <1>12, StepBegin
<1> QED
  BY <1>3, <1>4, <1>5, <1>6, <1>7, <1>8, <1>9, <1>10, <1>11, <1>12 DEF CallBegins

\* What the caller does between calls leaves the cards' blocks alone.
LEMMA StepBetween ==
  ASSUME OpsInv, BetweenCalls, cards' \in [Cards -> Card], CardInv', uid' \in [1 .. 4 -> Byte],
         crypto' \in BOOLEAN
  PROVE  OpsInv'
<1>1. TypeOK'
  <2>1. call'.op = None /\ call'.block = 0 /\ 0 \in Block
    BY DEF BetweenCalls, NoCall, Block, NoOfBlocks, Sector
  <2>2. before' \in [Cards -> [Block -> [1 .. 16 -> Byte]] \cup {None}]
    BY DEF BetweenCalls
  <2>3. buf' \in [1 .. 16 -> Byte]
    BY ZeroBlock DEF BetweenCalls, Bytes16
  <2>4. got' \in Int32 /\ shown' \in [Block -> [access : 0 .. 7, value : Int32 \cup {None}] \cup {None}]
        /\ blk' \in Block /\ access' \in Access \cup {None}
    BY <2>1, BlankIs DEF BetweenCalls, Int32
  <2>5. /\ pc' = "free" /\ result' = FALSE /\ swapped' = FALSE /\ calls' \in 0 .. MaxCalls
        /\ here' \in Cards \cup {None} /\ due' \in Int \cup {None} /\ granted' \in [Cards -> Access]
    BY DEF BetweenCalls, OpsInv, TypeOK
  <2> QED
    BY <2>1, <2>2, <2>3, <2>4, <2>5 DEF TypeOK
<1>2. CallInv' /\ WantInv'
  <2>1. pc' = "free" /\ result' = FALSE
    BY DEF BetweenCalls, OpsInv, TypeOK
  <2> QED
    BY <2>1 DEF CallInv, WantInv
<1> QED
  BY <1>1, <1>2 DEF OpsInv

\* The UID stays or becomes that of the card in the field.
LEMMA SelectingIs ==
  ASSUME OpsInv, NEW reply, Selecting(reply)
  PROVE  uid' \in [1 .. 4 -> Byte]
<1>1. CASE uid' = uid
  BY <1>1 DEF OpsInv, TypeOK
<1>2. CASE here # None /\ uid' = UidOf(C)
  <2>1. UidOf(C) \in [1 .. 4 -> Byte]
    BY <1>2, HereIs, UidIs DEF Card, Bytes16, Block, NoOfBlocks, Sector
  <2> QED
    BY <1>2, <2>1
<1> QED
  BY <1>1, <1>2 DEF Selecting

\* Between calls: a card is looked for ...
LEMMA StepIsNewCardPresent ==
  ASSUME OpsInv, IsNewCardPresent
  PROVE  OpsInv' /\ \A c \in Cards : cards'[c].blocks = cards[c].blocks
<1>1. PICK reply \in {"ack", "none"} : Gets(OnRequest(C), reply)
  BY DEF IsNewCardPresent
<1>2. here # None => Plain(C, OnRequest(C).card)
  BY HereIs, OnRequestIs
<1>3. UNCHANGED <<here, due, granted>> /\ BetweenCalls
  BY DEF IsNewCardPresent, BetweenCalls
<1>4. /\ cards' \in [Cards -> Card] /\ CardInv'
      /\ \A c \in Cards : cards'[c].blocks = cards[c].blocks
  BY <1>1, <1>2, <1>3, PlainGets DEF OpsInv
<1>5. uid' \in [1 .. 4 -> Byte] /\ crypto' \in BOOLEAN
  BY DEF IsNewCardPresent, OpsInv, TypeOK
<1> QED
  BY <1>3, <1>4, <1>5, StepBetween

\* ... selected ...
LEMMA StepReadCardSerial ==
  ASSUME OpsInv, ReadCardSerial
  PROVE  OpsInv' /\ \A c \in Cards : cards'[c].blocks = cards[c].blocks
<1>1. PICK reply \in {"ack", "none"} : Selecting(reply) /\ Gets(OnSelect(C), reply)
  BY DEF ReadCardSerial, Selecting
<1>2. here # None => Plain(C, OnSelect(C).card)
  BY HereIs, OnSelectIs
<1>3. UNCHANGED <<here, due, granted>> /\ BetweenCalls
  BY DEF ReadCardSerial, BetweenCalls
<1>4. /\ cards' \in [Cards -> Card] /\ CardInv'
      /\ \A c \in Cards : cards'[c].blocks = cards[c].blocks
  BY <1>1, <1>2, <1>3, PlainGets DEF OpsInv
<1>5. uid' \in [1 .. 4 -> Byte]
  BY <1>1, SelectingIs
<1>6. crypto' \in BOOLEAN
  BY DEF ReadCardSerial, OpsInv, TypeOK
<1> QED
  BY <1>3, <1>4, <1>5, <1>6, StepBetween

\* ... authenticated for ...
LEMMA StepAuthenticate ==
  ASSUME OpsInv, Authenticate
  PROVE  OpsInv' /\ \A c \in Cards : cards'[c].blocks = cards[c].blocks
<1>1. PICK reply \in {"ack", "none"} :
        Gets(OnAuth(C), reply) /\ crypto' = (crypto \/ reply = "ack")
  BY DEF Authenticate
<1>2. here # None => Plain(C, OnAuth(C).card)
  BY HereIs, OnAuthIs
<1>3. UNCHANGED <<here, due, granted>> /\ BetweenCalls
  BY DEF Authenticate, BetweenCalls
<1>4. /\ cards' \in [Cards -> Card] /\ CardInv'
      /\ \A c \in Cards : cards'[c].blocks = cards[c].blocks
  BY <1>1, <1>2, <1>3, PlainGets DEF OpsInv
<1>5. uid' \in [1 .. 4 -> Byte] /\ crypto' \in BOOLEAN
  BY <1>1 DEF Authenticate, OpsInv, TypeOK
<1> QED
  BY <1>3, <1>4, <1>5, StepBetween

\* ... and the session ended.
LEMMA StepStopCrypto1 ==
  ASSUME OpsInv, StopCrypto1
  PROVE  OpsInv' /\ \A c \in Cards : cards'[c].blocks = cards[c].blocks
<1>1. BetweenCalls /\ uid' = uid /\ cards' = cards /\ crypto' = FALSE
  BY DEF StopCrypto1
<1>2. CardInv'
  BY <1>1 DEF BetweenCalls, OpsInv, CardInv, Settled, Steady
<1> QED
  BY <1>1, <1>2, StepBetween DEF OpsInv, TypeOK

\* An exchange that leaves the blocks alone.
LEMMA StepPlain ==
  ASSUME OpsInv, NEW r, NEW reply, here # None => Plain(C, r.card), Gets(r, reply),
         UNCHANGED <<here, due, granted, swapped, History>>,
         pc' \in {"free", "write1", "write2", "two1", "two2", "transfer", "get", "dumpAuth",
             "dumpRead", "uidAuth", "uidRequest", "uidSelect", "uidAgain", "uidRead", "halt",
             "magic40", "magic43", "wake"}, result' \in BOOLEAN,
         got' \in Int32, shown' \in [Block -> [access : 0 .. 7, value : Int32 \cup {None}] \cup {None}],
         blk' \in Block, access' \in Access \cup {None}, buf' \in Bytes16,
         uid' \in [1 .. 4 -> Byte], crypto' \in BOOLEAN, CallInv', WantInv'
  PROVE  OpsInv' /\ \A c \in Cards : cards'[c].blocks = cards[c].blocks
<1>1. /\ cards' \in [Cards -> Card] /\ CardInv'
      /\ \A c \in Cards : cards'[c].blocks = cards[c].blocks
  BY PlainGets DEF OpsInv
<1>2. /\ calls' \in 0 .. MaxCalls /\ call'.op \in Op \cup {None} /\ call'.block \in Block
      /\ here' \in Cards \cup {None} /\ due' \in Int \cup {None} /\ granted' \in [Cards -> Access]
      /\ before' \in [Cards -> [Block -> Bytes16] \cup {None}]
  BY WhatStays DEF OpsInv
<1>3. swapped' \in BOOLEAN
  BY DEF OpsInv, TypeOK
<1>4. TypeOK'
  BY <1>1, <1>2, <1>3 DEF TypeOK, Bytes16
<1> QED
  BY <1>1, <1>4 DEF OpsInv

\* Of the variables an action leaves alone.
LEMMA OldTypes ==
  ASSUME OpsInv
  PROVE  /\ result \in BOOLEAN /\ got \in Int32 /\ blk \in Block /\ access \in Access \cup {None}
         /\ shown \in [Block -> [access : 0 .. 7, value : Int32 \cup {None}] \cup {None}]
         /\ buf \in Bytes16 /\ uid \in [1 .. 4 -> Byte] /\ crypto \in BOOLEAN
BY DEF OpsInv, TypeOK, Bytes16

\* What the blocks of the card in the field are.
LEMMA HereBlocks ==
  ASSUME OpsInv, here # None
  PROVE  C.blocks \in [Block -> Bytes16] /\ \A b \in Block : C.blocks[b] \in Bytes16
BY HereIs DEF Card, Bytes16

\* The first half of a write: the card takes the command.
LEMMA StepWrite1 ==
  ASSUME OpsInv, Write1
  PROVE  OpsInv' /\ \A c \in Cards : cards'[c].blocks = cards[c].blocks
<1> DEFINE r == OnCommand(C, "write", call.block)
<1>1. PICK reply \in {"ack", "nak", "none"} :
        Gets(r, reply) /\ IF reply = "ack" THEN GoTo("write2") ELSE Return(FALSE)
  BY DEF Write1, FourBits, Accepted
<1>2. call.block \in Block
  BY DEF OpsInv, TypeOK
<1>3. here # None => /\ Plain(C, r.card)
                     /\ r.reply = "ack" => r.card.want = [op |-> "write", block |-> call.block]
  BY <1>2, HereIs, OnCommandIs
<1>4. /\ pc = "write1" /\ UNCHANGED <<buf, uid, crypto>> /\ UNCHANGED Reading
      /\ UNCHANGED <<here, due, granted, swapped, History>>
  BY DEF Write1
<1>5. \/ pc' = "write2" /\ result' = result /\ reply = "ack"
      \/ pc' = "free" /\ result' = FALSE
  BY <1>1 DEF GoTo, Return
<1>6. call' = call /\ here' = here
  BY <1>4 DEF History
<1>7. CallInv'
  BY <1>4, <1>5, <1>6 DEF OpsInv, CallInv, LengthFits
<1>8. WantInv'
  <2>1. ASSUME pc' = "write2", here # None
        PROVE  cards'[here].want = [op |-> "write", block |-> call.block]
    <3>1. reply = "ack"
      BY <1>5, <2>1
    <3>2. cards' = [cards EXCEPT ![here] = r.card] /\ r.reply = "ack" /\ here \in Cards
      BY <1>1, <2>1, <3>1, GetsIs DEF OpsInv
    <3> HIDE DEF r
    <3>3. cards'[here] = r.card
      BY <3>2 DEF OpsInv, TypeOK
    <3> QED
      BY <1>3, <2>1, <3>2, <3>3
  <2>2. C' = cards'[here]
    BY <1>6 DEF C
  <2> QED
    BY <1>5, <1>6, <2>1, <2>2 DEF WantInv
<1> HIDE DEF r
<1> QED
  BY <1>1, <1>3, <1>4, <1>5, <1>7, <1>8, OldTypes, StepPlain DEF Reading

\* The first half of a value operation.
LEMMA StepTwoStep1 ==
  ASSUME OpsInv, TwoStep1
  PROVE  OpsInv' /\ \A c \in Cards : cards'[c].blocks = cards[c].blocks
<1> DEFINE r == OnCommand(C, call.op, call.block)
<1>1. PICK reply \in {"ack", "nak", "none"} :
        Gets(r, reply) /\ IF reply = "ack" THEN GoTo("two2") ELSE Return(FALSE)
  BY DEF TwoStep1, FourBits, Accepted
<1>2. call.block \in Block /\ call.op \in {"inc", "dec", "restore"}
  BY DEF OpsInv, TypeOK, CallInv, TwoStep1
<1>3. here # None => /\ Plain(C, r.card)
                     /\ r.reply = "ack" => r.card.want = [op |-> call.op, block |-> call.block]
  BY <1>2, HereIs, OnCommandIs
<1>4. /\ pc = "two1" /\ UNCHANGED <<buf, uid, crypto>> /\ UNCHANGED Reading
      /\ UNCHANGED <<here, due, granted, swapped, History>>
  BY DEF TwoStep1
<1>5. \/ pc' = "two2" /\ result' = result /\ reply = "ack"
      \/ pc' = "free" /\ result' = FALSE
  BY <1>1 DEF GoTo, Return
<1>6. call' = call /\ here' = here
  BY <1>4 DEF History
<1>7. CallInv'
  BY <1>4, <1>5, <1>6 DEF OpsInv, CallInv, LengthFits
<1>8. WantInv'
  <2>1. ASSUME pc' = "two2", here # None
        PROVE  cards'[here].want = [op |-> call.op, block |-> call.block]
    <3>1. reply = "ack"
      BY <1>5, <2>1
    <3>2. cards' = [cards EXCEPT ![here] = r.card] /\ r.reply = "ack" /\ here \in Cards
      BY <1>1, <2>1, <3>1, GetsIs DEF OpsInv
    <3> HIDE DEF r
    <3>3. cards'[here] = r.card
      BY <3>2 DEF OpsInv, TypeOK
    <3> QED
      BY <1>3, <2>1, <3>2, <3>3
  <2>2. C' = cards'[here]
    BY <1>6 DEF C
  <2> QED
    BY <1>5, <1>6, <2>1, <2>2 DEF WantInv
<1> HIDE DEF r
<1> QED
  BY <1>1, <1>3, <1>4, <1>5, <1>7, <1>8, OldTypes, StepPlain DEF Reading

\* MIFARE_GetValue() reads a value block.
LEMMA StepGetValue ==
  ASSUME OpsInv, GetValue
  PROVE  OpsInv' /\ \A c \in Cards : cards'[c].blocks = cards[c].blocks
<1> DEFINE r == OnCommand(C, "read", call.block)
<1>1. PICK reply \in {"ack", "none"} :
        /\ Gets(r, reply) /\ Return(reply = "ack")
        /\ got' = IF reply = "ack" THEN ReadValue(C.blocks[call.block]) ELSE got
  BY DEF GetValue
<1>2. call.block \in Block
  BY DEF OpsInv, TypeOK
<1>3. here # None => Plain(C, r.card)
  BY <1>2, HereIs, OnCommandIs
<1>4. /\ UNCHANGED <<shown, blk, access, buf, uid, crypto>>
      /\ UNCHANGED <<here, due, granted, swapped, History>>
  BY DEF GetValue
<1>5. pc' = "free" /\ result' \in BOOLEAN /\ call' = call
  BY <1>1, <1>4 DEF Return, History
<1>6. CallInv' /\ WantInv'
  BY <1>5 DEF CallInv, WantInv, OpsInv, GetValue
<1>7. got' \in Int32
  <2>1. CASE reply = "ack"
    <3>1. here # None
      BY <1>1, <2>1, GetsIs DEF OpsInv
    <3> DEFINE b == C.blocks[call.block]
    <3>2. b \in Bytes16
      BY <1>2, <3>1, HereBlocks
    <3> HIDE DEF b
    <3>3. ReadValue(b) \in Int32
      BY <3>2, ReadsAlike DEF Bytes16
    <3> QED
      BY <1>1, <2>1, <3>3 DEF b
  <2>2. CASE reply # "ack"
    BY <1>1, <2>2, OldTypes
  <2> QED
    BY <2>1, <2>2
<1> HIDE DEF r
<1> QED
  BY <1>1, <1>3, <1>4, <1>5, <1>6, <1>7, OldTypes, StepPlain

\* The dump of a sector authenticates for each trailer ...
LEMMA StepDumpAuth ==
  ASSUME OpsInv, DumpAuth
  PROVE  OpsInv' /\ \A c \in Cards : cards'[c].blocks = cards[c].blocks
<1> DEFINE r == OnAuth(C)
<1>1. PICK reply \in {"ack", "none"} :
        /\ Gets(r, reply) /\ crypto' = (crypto \/ reply = "ack")
        /\ IF reply = "ack" THEN GoTo("dumpRead") ELSE Return(FALSE)
  BY DEF DumpAuth
<1>2. here # None => Plain(C, r.card)
  BY HereIs, OnAuthIs
<1>3. /\ pc = "dumpAuth" /\ UNCHANGED <<buf, uid>> /\ UNCHANGED Reading
      /\ UNCHANGED <<here, due, granted, swapped, History>>
  BY DEF DumpAuth
<1> HIDE DEF r
<1>4. /\ \/ pc' = "dumpRead" /\ result' = result
         \/ pc' = "free" /\ result' = FALSE
      /\ call' = call /\ crypto' \in BOOLEAN
  BY <1>1, <1>3 DEF GoTo, Return, History
<1>5. CallInv' /\ WantInv'
  BY <1>3, <1>4 DEF CallInv, WantInv, OpsInv
<1> QED
  BY <1>1, <1>2, <1>3, <1>4, <1>5, OldTypes, StepPlain DEF Reading

\* MIFARE_SetUid() authenticates for block 0,
LEMMA StepUidAuth ==
  ASSUME OpsInv, UidAuth
  PROVE  OpsInv' /\ \A c \in Cards : cards'[c].blocks = cards[c].blocks
<1> DEFINE r == OnAuth(C)
<1>1. PICK reply \in {"ack", "none"} :
        /\ Gets(r, reply) /\ crypto' = (crypto \/ reply = "ack")
        /\ IF reply = "ack" THEN GoTo("uidRead") ELSE GoTo("uidRequest") \/ Return(FALSE)
  BY DEF UidAuth
<1>2. here # None => Plain(C, r.card)
  BY HereIs, OnAuthIs
<1>3. /\ pc = "uidAuth" /\ UNCHANGED <<buf, uid>> /\ UNCHANGED Reading
      /\ UNCHANGED <<here, due, granted, swapped, History>>
  BY DEF UidAuth
<1> HIDE DEF r
<1>4. /\ \/ pc' \in {"uidRead", "uidRequest"} /\ result' = result
         \/ pc' = "free" /\ result' = FALSE
      /\ call' = call /\ crypto' \in BOOLEAN
  BY <1>1, <1>3 DEF GoTo, Return, History
<1>5. CallInv' /\ WantInv'
  BY <1>3, <1>4 DEF CallInv, WantInv, OpsInv, LengthFits
<1> QED
  BY <1>1, <1>2, <1>3, <1>4, <1>5, OldTypes, StepPlain DEF Reading

\* looks for a card if that failed,
LEMMA StepUidRequest ==
  ASSUME OpsInv, UidRequest
  PROVE  OpsInv' /\ \A c \in Cards : cards'[c].blocks = cards[c].blocks
<1> DEFINE r == OnRequest(C)
<1>1. PICK reply \in {"ack", "none"} :
        Gets(r, reply) /\ IF reply = "ack" THEN GoTo("uidSelect") ELSE Return(FALSE)
  BY DEF UidRequest
<1>2. here # None => Plain(C, r.card)
  BY HereIs, OnRequestIs
<1>3. /\ pc = "uidRequest" /\ UNCHANGED <<buf, uid, crypto>> /\ UNCHANGED Reading
      /\ UNCHANGED <<here, due, granted, swapped, History>>
  BY DEF UidRequest
<1> HIDE DEF r
<1>4. /\ \/ pc' = "uidSelect" /\ result' = result
         \/ pc' = "free" /\ result' = FALSE
      /\ call' = call
  BY <1>1, <1>3 DEF GoTo, Return, History
<1>5. CallInv' /\ WantInv'
  BY <1>3, <1>4 DEF CallInv, WantInv, OpsInv, LengthFits
<1> QED
  BY <1>1, <1>2, <1>3, <1>4, <1>5, OldTypes, StepPlain DEF Reading

\* selects it,
LEMMA StepUidSelect ==
  ASSUME OpsInv, UidSelect
  PROVE  OpsInv' /\ \A c \in Cards : cards'[c].blocks = cards[c].blocks
<1> DEFINE r == OnSelect(C)
<1>1. PICK reply \in {"ack", "none"} :
        /\ Selecting(reply) /\ Gets(r, reply)
        /\ IF reply = "ack" THEN GoTo("uidAgain") ELSE Return(FALSE)
  BY DEF UidSelect, Selecting
<1>2. here # None => Plain(C, r.card)
  BY HereIs, OnSelectIs
<1>3. /\ pc = "uidSelect" /\ UNCHANGED <<buf, crypto>> /\ UNCHANGED Reading
      /\ UNCHANGED <<here, due, granted, swapped, History>>
  BY DEF UidSelect
<1>6. uid' \in [1 .. 4 -> Byte]
  BY <1>1, SelectingIs
<1> HIDE DEF r
<1>4. /\ \/ pc' = "uidAgain" /\ result' = result
         \/ pc' = "free" /\ result' = FALSE
      /\ call' = call
  BY <1>1, <1>3 DEF GoTo, Return, History
<1>5. CallInv' /\ WantInv'
  BY <1>3, <1>4 DEF CallInv, WantInv, OpsInv, LengthFits
<1> QED
  BY <1>1, <1>2, <1>3, <1>4, <1>5, <1>6, OldTypes, StepPlain DEF Reading

\* authenticates again,
LEMMA StepUidAgain ==
  ASSUME OpsInv, UidAgain
  PROVE  OpsInv' /\ \A c \in Cards : cards'[c].blocks = cards[c].blocks
<1> DEFINE r == OnAuth(C)
<1>1. PICK reply \in {"ack", "none"} :
        /\ Gets(r, reply) /\ crypto' = (crypto \/ reply = "ack")
        /\ IF reply = "ack" THEN GoTo("uidRead") ELSE Return(FALSE)
  BY DEF UidAgain
<1>2. here # None => Plain(C, r.card)
  BY HereIs, OnAuthIs
<1>3. /\ pc = "uidAgain" /\ UNCHANGED <<buf, uid>> /\ UNCHANGED Reading
      /\ UNCHANGED <<here, due, granted, swapped, History>>
  BY DEF UidAgain
<1> HIDE DEF r
<1>4. /\ \/ pc' = "uidRead" /\ result' = result
         \/ pc' = "free" /\ result' = FALSE
      /\ call' = call /\ crypto' \in BOOLEAN
  BY <1>1, <1>3 DEF GoTo, Return, History
<1>5. CallInv' /\ WantInv'
  BY <1>3, <1>4 DEF CallInv, WantInv, OpsInv, LengthFits
<1> QED
  BY <1>1, <1>2, <1>3, <1>4, <1>5, OldTypes, StepPlain DEF Reading

\* and reads block 0, whose new bytes it makes.
LEMMA StepUidRead ==
  ASSUME OpsInv, UidRead
  PROVE  OpsInv' /\ \A c \in Cards : cards'[c].blocks = cards[c].blocks
<1> DEFINE r == OnCommand(C, "read", 0)
<1>1. PICK reply \in {"ack", "none"} :
        /\ Gets(r, reply)
        /\ IF reply = "ack"
           THEN GoTo("halt") /\ buf' = NewBlock0(C.blocks[0], call.arg) /\ crypto' = FALSE
           ELSE Return(FALSE) /\ UNCHANGED <<buf, crypto>>
  BY DEF UidRead
<1>2. 0 \in Block
  BY DEF Block, NoOfBlocks, Sector
<1>3. here # None => Plain(C, r.card)
  BY <1>2, HereIs, OnCommandIs
<1>4. /\ pc = "uidRead" /\ UNCHANGED uid /\ UNCHANGED Reading
      /\ UNCHANGED <<here, due, granted, swapped, History>>
  BY DEF UidRead
<1> HIDE DEF r
<1>5. /\ \/ pc' = "halt" /\ result' = result /\ crypto' = FALSE
         \/ pc' = "free" /\ result' = FALSE /\ crypto' = crypto
      /\ call' = call
  BY <1>1, <1>4 DEF GoTo, Return, History
<1>6. CallInv' /\ WantInv'
  BY <1>4, <1>5 DEF CallInv, WantInv, OpsInv, LengthFits
<1>7. buf' \in Bytes16
  <2>1. CASE reply = "ack"
    <3>1. here # None
      BY <1>1, <2>1, GetsIs DEF OpsInv
    <3>2. C.blocks[0] \in Bytes16
      BY <1>2, <3>1, HereBlocks
    <3>3. call.arg \in Seq(Byte) /\ LengthFits(call.arg)
      BY <1>4 DEF OpsInv, CallInv
    <3>4. NewBlock0(C.blocks[0], call.arg) \in Bytes16
      BY <3>2, <3>3, NewBlock0Is
    <3> QED
      BY <1>1, <2>1, <3>4
  <2>2. CASE reply # "ack"
    BY <1>1, <2>2, OldTypes
  <2> QED
    BY <2>1, <2>2
<1> QED
  BY <1>1, <1>3, <1>4, <1>5, <1>6, <1>7, OldTypes, StepPlain DEF Reading

\* The backdoor: halt,
LEMMA StepHaltA ==
  ASSUME OpsInv, HaltA
  PROVE  OpsInv' /\ \A c \in Cards : cards'[c].blocks = cards[c].blocks
<1>1. Gets(OnHalt(C), "none") /\ pc = "halt" /\ pc' = "magic40" /\ result' = result
  BY DEF HaltA, GoTo
<1>2. here # None => Plain(C, OnHalt(C).card)
  BY HereIs, OnHaltIs
<1>3. /\ UNCHANGED <<buf, uid, crypto>> /\ UNCHANGED Reading
      /\ UNCHANGED <<here, due, granted, swapped, History>> /\ call' = call
  BY DEF HaltA, History
<1>4. CallInv' /\ WantInv'
  BY <1>1, <1>3 DEF CallInv, WantInv, OpsInv, LengthFits
<1> QED
  BY <1>1, <1>2, <1>3, <1>4, OldTypes, StepPlain DEF Reading

\* the frame of seven bits,
LEMMA StepMagic40 ==
  ASSUME OpsInv, Magic40
  PROVE  OpsInv' /\ \A c \in Cards : cards'[c].blocks = cards[c].blocks
<1> DEFINE from == IF here \in Magic THEN {"idle", "halt"} ELSE {}
           r == OnMagic(C, from, "gate")
<1>1. PICK reply \in {"ack", "none"} :
        /\ Gets(r, reply)
        /\ \/ reply = "ack" /\ GoTo("magic43")
           \/ NoBackdoor
  BY DEF Magic40
<1>2. here # None => Plain(C, r.card)
  <2>1. from \in SUBSET {"idle", "halt", "gate"}
    OBVIOUS
  <2> QED
    BY <2>1, HereIs, OnMagicIs
<1>3. /\ pc = "magic40" /\ UNCHANGED <<buf, uid, crypto>> /\ UNCHANGED Reading
      /\ UNCHANGED <<here, due, granted, swapped, History>>
  BY DEF Magic40
<1> HIDE DEF r
<1>4. /\ \/ pc' \in {"magic43", "write1"} /\ result' = result
         \/ pc' = "free" /\ result' = FALSE
      /\ call' = call
  BY <1>1, <1>3 DEF GoTo, Return, NoBackdoor, History
<1>5. CallInv' /\ WantInv'
  BY <1>3, <1>4 DEF CallInv, WantInv, OpsInv, LengthFits
<1> QED
  BY <1>1, <1>2, <1>3, <1>4, <1>5, OldTypes, StepPlain DEF Reading

\* and the one of eight.
LEMMA StepMagic43 ==
  ASSUME OpsInv, Magic43
  PROVE  OpsInv' /\ \A c \in Cards : cards'[c].blocks = cards[c].blocks
<1> DEFINE r == OnMagic(C, {"gate"}, "open")
<1>1. PICK reply \in {"ack", "none"} :
        Gets(r, reply) /\ IF reply = "ack" THEN GoTo("write1") ELSE NoBackdoor
  BY DEF Magic43
<1>2. here # None => Plain(C, r.card)
  <2>1. {"gate"} \in SUBSET {"idle", "halt", "gate"}
    OBVIOUS
  <2> QED
    BY <2>1, HereIs, OnMagicIs
<1>3. /\ pc = "magic43" /\ UNCHANGED <<buf, uid, crypto>> /\ UNCHANGED Reading
      /\ UNCHANGED <<here, due, granted, swapped, History>>
  BY DEF Magic43
<1> HIDE DEF r
<1>4. /\ \/ pc' = "write1" /\ result' = result
         \/ pc' = "free" /\ result' = FALSE
      /\ call' = call
  BY <1>1, <1>3 DEF GoTo, Return, NoBackdoor, History
<1>5. CallInv' /\ WantInv'
  BY <1>3, <1>4 DEF CallInv, WantInv, OpsInv, LengthFits
<1> QED
  BY <1>1, <1>2, <1>3, <1>4, <1>5, OldTypes, StepPlain DEF Reading

\* The last wake-up of MIFARE_SetUid().
LEMMA StepWake ==
  ASSUME OpsInv, Wake
  PROVE  OpsInv' /\ \A c \in Cards : cards'[c].blocks = cards[c].blocks
<1>1. PICK reply \in {"ack", "none"} : Gets(OnWake(C), reply)
  BY DEF Wake
<1>2. here # None => Plain(C, OnWake(C).card)
  BY HereIs, OnWakeIs
<1>3. /\ pc = "wake" /\ pc' = "free" /\ result' = TRUE /\ UNCHANGED <<buf, uid, crypto>>
      /\ UNCHANGED Reading /\ UNCHANGED <<here, due, granted, swapped, History>> /\ call' = call
  BY DEF Wake, Return, History
<1>4. CallInv' /\ WantInv'
  BY <1>3 DEF CallInv, WantInv, OpsInv, LengthFits
<1> QED
  BY <1>1, <1>2, <1>3, <1>4, OldTypes, StepPlain DEF Reading

\* Whatever bytes are read as a trailer, the access bits are of their type.
LEMMA ParseIs ==
  ASSUME NEW b \in [1 .. 3 -> Byte]
  PROVE  ParseAccessBits(b) \in Access
<1> DEFINE mask(o) == <<1, 2, 4, 8>>[o + 1]
           g(o) == 4 * Bit(b[2] \div 16, mask(o)) + 2 * Bit(b[3] % 16, mask(o))
                     + Bit(b[3] \div 16, mask(o))
<1>1. ASSUME NEW x \in Nat, NEW y \in {1, 2, 4, 8} PROVE Bit(x, y) \in 0 .. 1
  <2>1. CASE y = 1
    BY <2>1 DEF Bit
  <2>2. CASE y = 2
    BY <2>2 DEF Bit
  <2>3. CASE y = 4
    BY <2>3 DEF Bit
  <2>4. CASE y = 8
    BY <2>4 DEF Bit
  <2> QED
    BY <2>1, <2>2, <2>3, <2>4
<1>2. b[2] \div 16 \in Nat /\ b[3] % 16 \in Nat /\ b[3] \div 16 \in Nat
  BY DEF Byte
<1>3. ASSUME NEW o \in 0 .. 3 PROVE g(o) \in 0 .. 7
  <2>1. mask(o) \in {1, 2, 4, 8}
    BY o \in {0, 1, 2, 3}
  <2>2. /\ Bit(b[2] \div 16, mask(o)) \in 0 .. 1 /\ Bit(b[3] % 16, mask(o)) \in 0 .. 1
        /\ Bit(b[3] \div 16, mask(o)) \in 0 .. 1
    BY <1>1, <1>2, <2>1
  <2> DEFINE p == Bit(b[2] \div 16, mask(o))
             q == Bit(b[3] % 16, mask(o))
             s == Bit(b[3] \div 16, mask(o))
  <2>3. p \in 0 .. 1 /\ q \in 0 .. 1 /\ s \in 0 .. 1
    BY <2>2
  <2> HIDE DEF p, q, s
  <2>4. 4 * p + 2 * q + s \in 0 .. 7
    BY <2>3
  <2> QED
    BY <2>4 DEF p, q, s
<1>4. ParseAccessBits(b) = [o \in 0 .. 3 |-> g(o)]
  BY DEF ParseAccessBits
<1> HIDE DEF g
<1> QED
  BY <1>3, <1>4 DEF Access

\* The sector that is modelled has four blocks, the last of them its trailer.
LEMMA FourBlocks ==
  /\ NoOfBlocks(Sector) = 4 /\ Block = 0 .. 3 /\ TrailerBlock \in Block /\ 0 \in Block
  /\ Data \subseteq Block /\ TrailerBlock \notin Data /\ TrailerBlock # 0 /\ 0 \notin Data
  /\ \A b \in Block : Group(NoOfBlocks(Sector), b) = b
BY DEF NoOfBlocks, Sector, Block, TrailerBlock, Data, Group

\* ... and reads each block, of the trailer the access bits.
LEMMA StepDumpRead ==
  ASSUME OpsInv, DumpRead
  PROVE  OpsInv' /\ \A c \in Cards : cards'[c].blocks = cards[c].blocks
<1> DEFINE r == OnCommand(C, "read", blk)
           bytes == C.blocks[blk]
<1>1. PICK reply \in {"ack", "none"} :
        /\ Gets(r, reply)
        /\ IF reply = "none" THEN UNCHANGED <<shown, access>>
           ELSE /\ access' = IF access # None THEN access
                             ELSE ParseAccessBits(SubSeq(bytes, 7, 9))
                /\ shown' = [shown EXCEPT
                               ![blk] = Shows(access'[Group(NoOfBlocks(Sector), blk)], bytes)]
  BY DEF DumpRead
<1>2. blk \in Block
  BY OldTypes
<1>3. here # None => Plain(C, r.card)
  BY <1>2, HereIs, OnCommandIs
<1>4. /\ pc = "dumpRead" /\ UNCHANGED <<got, buf, uid, crypto>>
      /\ UNCHANGED <<here, due, granted, swapped, History>>
  BY DEF DumpRead
<1> HIDE DEF r
<1>5. /\ \/ pc' \in {"dumpAuth", "dumpRead"} /\ result' = result
         \/ pc' = "free" /\ result' = TRUE
      /\ call' = call
  BY <1>4 DEF GoTo, Return, DumpRead, History
<1>6. blk' \in Block
  <2>1. blk' = blk \/ (blk # 0 /\ blk' = blk - 1)
    BY DEF DumpRead
  <2>2. blk \in 0 .. 3
    BY <1>2, FourBlocks
  <2>3. blk' \in 0 .. 3
    BY <2>1, <2>2
  <2> QED
    BY <2>3, FourBlocks
<1>7. CallInv' /\ WantInv'
  BY <1>4, <1>5 DEF CallInv, WantInv, OpsInv, LengthFits
<1>8. access' \in Access \cup {None}
      /\ shown' \in [Block -> [access : 0 .. 7, value : Int32 \cup {None}] \cup {None}]
  <2>1. CASE reply = "ack"
    <3>1. here # None
      BY <1>1, <2>1, GetsIs DEF OpsInv
    <3>2. bytes \in Bytes16
      BY <1>2, <3>1, HereBlocks
    <3> HIDE DEF bytes
    <3>3. ReadValue(bytes) \in Int32
      BY <3>2, ReadsAlike DEF Bytes16
    <3>4. SubSeq(bytes, 7, 9) \in [1 .. 3 -> Byte]
      <4>1. \A i \in 7 .. 9 : bytes[i] \in Byte
        BY <3>2 DEF Bytes16
      <4>2. SubSeq(bytes, 7, 9) \in Seq(Byte) /\ Len(SubSeq(bytes, 7, 9)) = 3
        BY <4>1, SubSeqProperties
      <4> QED
        BY <4>2, LenProperties
    <3>5. access' \in Access
      BY <1>1, <2>1, <3>4, ParseIs, OldTypes
    <3>6. access'[Group(NoOfBlocks(Sector), blk)] \in 0 .. 7
      BY <1>2, <3>5, FourBlocks DEF Access
    <3>7. Shows(access'[Group(NoOfBlocks(Sector), blk)], bytes)
            \in [access : 0 .. 7, value : Int32 \cup {None}]
      BY <3>3, <3>6 DEF Shows
    <3> QED
      BY <1>1, <2>1, <3>5, <3>7, OldTypes
  <2>2. CASE reply = "none"
    BY <1>1, <2>2, OldTypes
  <2> QED
    BY <2>1, <2>2
<1> QED
  BY <1>1, <1>3, <1>4, <1>5, <1>6, <1>7, <1>8, OldTypes, StepPlain

\* Types after an exchange that changes blocks.
LEMMA StepOther ==
  ASSUME OpsInv, cards' \in [Cards -> Card], granted' \in [Cards -> Access], CardInv',
         UNCHANGED <<here, swapped, History, Reading, buf, uid, crypto>>,
         due' \in Int \cup {None}, pc' \in {"free", "wake"}, result' \in BOOLEAN,
         pc' = "wake" => call.op = "setUid" /\ call.block = 0,
         call.op = "setUid" => call.arg \in Seq(Byte) /\ LengthFits(call.arg)
  PROVE  OpsInv'
<1>1. TypeOK'
  BY DEF OpsInv, TypeOK, History, Reading
<1>2. call' = call
  BY DEF History
<1>3. CallInv' /\ WantInv'
  BY <1>2 DEF CallInv, WantInv, LengthFits
<1> QED
  BY <1>1, <1>3 DEF OpsInv

\* A transfer stores what the card's register holds, which is what is due.
LEMMA StepTransfer ==
  ASSUME OpsInv, Transfer
  PROVE  /\ OpsInv'
         /\ pc' = "free" /\ call' = call /\ due' = due /\ here' = here
         /\ result' /\ here # None => /\ due # None
                                      /\ CardNumber(cards'[here].blocks[call.block]) = due
<1> DEFINE r == OnCommand(C, "transfer", call.block)
           n == [C EXCEPT !.blocks[call.block] = ValueBlock(C.reg, call.block)]
<1>1. PICK reply \in {"ack", "nak", "none"} :
        Gets(r, reply) /\ IF reply = "ack" THEN Return(TRUE) ELSE Return(FALSE)
  BY DEF Transfer, FourBits, Accepted
<1>2. call.block \in Data /\ call.op = "transfer"
  BY DEF OpsInv, CallInv, Transfer
<1>3. here # None =>
        \/ Plain(C, r.card) /\ r.reply # "ack"
        \/ r.card = n /\ C.want = None /\ C.reg # None /\ C.reg \in Int32
             /\ C.link \in {"auth", "open"} /\ r.reply = "ack"
  BY <1>2, HereIs, OnTransferIs
<1>4. /\ UNCHANGED <<here, due, granted, swapped, History>> /\ UNCHANGED <<buf, uid, crypto>>
      /\ UNCHANGED Reading /\ call' = call
  BY DEF Transfer, History
<1>5. pc' = "free" /\ (result' <=> reply = "ack") /\ result' \in BOOLEAN
  BY <1>1 DEF Return
<1> HIDE DEF r
<1>6. CASE (here # None => Plain(C, r.card)) /\ (here # None => reply # "ack")
  <2>1. cards' \in [Cards -> Card] /\ CardInv'
    BY <1>1, <1>4, <1>6, PlainGets DEF OpsInv
  <2>2. OpsInv'
    BY <1>2, <1>4, <1>5, <2>1, StepOther DEF OpsInv, TypeOK
  <2> QED
    BY <1>4, <1>5, <1>6, <2>2
<1>7. CASE here # None /\ cards' = [cards EXCEPT ![here] = Missed(C)] /\ reply = "none"
  <2>1. Plain(C, Missed(C))
    BY <1>7, HereIs, MissedIs
  <2>2. Gets([card |-> Missed(C), reply |-> "none"], "none")
    BY <1>7 DEF Gets, C
  <2>3. cards' \in [Cards -> Card] /\ CardInv'
    BY <1>4, <2>1, <2>2, PlainGets DEF OpsInv
  <2>4. OpsInv'
    BY <1>2, <1>4, <1>5, <2>3, StepOther DEF OpsInv, TypeOK
  <2> QED
    BY <1>4, <1>5, <1>7, <2>4
<1>8. CASE /\ here # None /\ cards' = [cards EXCEPT ![here] = r.card]
           /\ r.card = n /\ C.want = None /\ C.reg # None /\ C.reg \in Int32
           /\ C.link \in {"auth", "open"}
  <2> DEFINE v == ValueBlock(C.reg, call.block)
  <2>1. v \in Bytes16 /\ CardNumber(v) = C.reg
    <3>1. call.block \in Byte
      BY <1>2 DEF Data, Byte
    <3> QED
      BY <1>8, <3>1, ValueStored
  <2> HIDE DEF v
  <2>2. here \in Cards /\ C \in Card /\ Settled(C) /\ C = cards[here]
    BY <1>8, HereIs DEF C
  <2>3. call.block \in Block /\ call.block # TrailerBlock
    BY <1>2, FourBlocks
  <2>4. /\ n \in Card /\ n.want = C.want /\ n.reg = C.reg /\ n.link = C.link
        /\ n.blocks[call.block] = v /\ n.blocks[TrailerBlock] = C.blocks[TrailerBlock]
    BY <2>1, <2>2, <2>3, FourBlocks DEF Card, Bytes16, v
  <2>5. /\ C.blocks[TrailerBlock] = Trailer(granted[here])
        /\ (Steady(C) /\ C.reg # None => C.reg = due)
    BY <2>2 DEF OpsInv, CardInv
  <2>6. C.reg = due
    BY <1>8, <2>5 DEF Steady
  <2> HIDE DEF n
  <2>7. Settled(n)
    BY <1>8, <2>4 DEF Settled
  <2>8. granted \in [Cards -> Access] /\ cards \in [Cards -> Card]
    BY DEF OpsInv, TypeOK
  <2>9. cards' \in [Cards -> Card] /\ CardInv'
    BY <1>4, <1>8, <2>2, <2>4, <2>5, <2>6, <2>7, <2>8, OneCard DEF OpsInv
  <2>10. OpsInv'
    BY <1>2, <1>4, <1>5, <2>9, StepOther DEF OpsInv, TypeOK
  <2>11. cards'[here] = n
    BY <1>8, <2>2, <2>8
  <2> QED
    BY <1>4, <1>5, <1>8, <2>1, <2>4, <2>6, <2>10, <2>11
<1>9. \/ here = None /\ reply = "none"
      \/ here # None /\ cards' = [cards EXCEPT ![here] = Missed(C)] /\ reply = "none"
      \/ here # None /\ cards' = [cards EXCEPT ![here] = r.card] /\ reply \in {r.reply, "none"}
  BY <1>1, GetsIs DEF OpsInv
<1> QED
  BY <1>3, <1>6, <1>7, <1>8, <1>9

\* The second step of MIFARE_Write: what is confirmed is stored, and nothing else changes.
LEMMA StepWrite2 ==
  ASSUME OpsInv, Write2
  PROVE  /\ OpsInv'
         /\ call' = call /\ here' = here /\ due' = due
         /\ \/ pc' = "free" /\ result' = FALSE
            \/ /\ here # None /\ cards'[here].blocks = [C.blocks EXCEPT ![call.block] = Bytes]
               /\ \/ call.op = "setUid" /\ pc' = "wake"
                  \/ call.op # "setUid" /\ pc' = "free" /\ result' = TRUE
<1> DEFINE r == OnData(C, Bytes)
           n == [C EXCEPT !.blocks[call.block] = Bytes, !.want = None]
<1>1. PICK reply \in {"ack", "nak", "none"} :
        /\ Gets(r, reply)
        /\ IF reply = "ack" THEN IF call.op = "setUid" THEN GoTo("wake") ELSE Return(TRUE)
           ELSE Return(FALSE)
  BY DEF Write2, FourBits, Accepted
<1>2. /\ \/ call.op = "set" /\ call.block \in Data /\ call.arg \in Int32
         \/ call.op = "access" /\ call.block = TrailerBlock /\ call.arg \in Access
         \/ call.op \in {"setUid", "unbrick"} /\ call.block = 0
      /\ call.block \in Block
      /\ (call.op = "setUid" => call.arg \in Seq(Byte) /\ LengthFits(call.arg))
  BY DEF OpsInv, CallInv, TypeOK, Write2
<1>3. /\ Bytes \in Bytes16
      /\ (call.block = TrailerBlock => call.arg \in Access /\ Bytes = Trailer(call.arg))
  <2>1. CASE call.op = "set" /\ call.block \in Data /\ call.arg \in Int32
    <3>1. call.block \in Byte /\ call.block # TrailerBlock
      BY <2>1 DEF Data, Byte, TrailerBlock
    <3>2. Bytes = ValueBlock(call.arg, call.block)
      BY <2>1, SMT DEF Bytes
    <3> QED
      BY <2>1, <3>1, <3>2, ValueStored
  <2>2. CASE call.op = "access" /\ call.block = TrailerBlock /\ call.arg \in Access
    <3>1. Bytes = Trailer(call.arg)
      BY <2>2, SMT DEF Bytes
    <3> QED
      BY <2>2, <3>1, TrailerIs
  <2>3. CASE call.op = "setUid" /\ call.block = 0
    <3>1. Bytes = buf
      BY <2>3, SMT DEF Bytes
    <3> QED
      BY <2>3, <3>1, FourBlocks, OldTypes
  <2>4. CASE call.op = "unbrick" /\ call.block = 0
    <3>1. Bytes = UnbrickBlock0
      BY <2>4, SMT DEF Bytes
    <3> QED
      BY <2>4, <3>1, FourBlocks, UnbrickIs
  <2> QED
    BY <1>2, <2>1, <2>2, <2>3, <2>4
<1>4. here # None => C.want \in {None, [op |-> "write", block |-> call.block]}
  BY DEF OpsInv, WantInv, Write2
<1>5. here # None =>
        \/ Plain(C, r.card) /\ r.reply # "ack"
        \/ r.card = n /\ r.reply = "ack" /\ C.link \in {"auth", "open"} /\ Steady(C)
  <2> SUFFICES ASSUME here # None
               PROVE  \/ Plain(C, r.card) /\ r.reply # "ack"
                      \/ r.card = n /\ r.reply = "ack" /\ C.link \in {"auth", "open"} /\ Steady(C)
    OBVIOUS
  <2> DEFINE k == C
             data == Bytes
             b == call.block
  <2>1. /\ k \in Card /\ Settled(k) /\ k.want \in {None, [op |-> "write", block |-> b]}
        /\ data \in Bytes16 /\ b \in Block
    BY <1>2, <1>3, <1>4, HereIs
  <2> HIDE DEF k, data, b
  <2>2. \/ Plain(k, OnData(k, data).card) /\ OnData(k, data).reply # "ack"
        \/ /\ OnData(k, data).card = [k EXCEPT !.blocks[b] = data, !.want = None]
           /\ OnData(k, data).reply = "ack" /\ k.link \in {"auth", "open"} /\ Steady(k)
    BY <2>1, OnWriteIs
  <2> QED
    BY <2>2 DEF k, data, b
<1>6. /\ UNCHANGED <<here, due, swapped, History>> /\ UNCHANGED <<buf, uid, crypto>>
      /\ UNCHANGED Reading /\ call' = call
      /\ granted' = [c \in Cards |->
                       IF cards'[c].blocks[TrailerBlock] # cards[c].blocks[TrailerBlock]
                       THEN call.arg ELSE granted[c]]
  BY DEF Write2, History
<1>7. /\ reply = "ack" => \/ call.op = "setUid" /\ pc' = "wake" /\ result' = result
                          \/ call.op # "setUid" /\ pc' = "free" /\ result' = TRUE
      /\ reply # "ack" => pc' = "free" /\ result' = FALSE
  BY <1>1 DEF Return, GoTo
<1>8. /\ granted \in [Cards -> Access] /\ cards \in [Cards -> Card] /\ result \in BOOLEAN
      /\ here \in Cards \cup {None} /\ due \in Int \cup {None}
  BY DEF OpsInv, TypeOK
<1> HIDE DEF r, n
<1>9. ASSUME NEW s, NEW a, Gets(s, a), here # None => Plain(C, s.card), reply # "ack"
      PROVE  OpsInv' /\ \A c \in Cards : cards'[c].blocks = cards[c].blocks
  <2>1. here' = here /\ due' = due
    BY <1>6
  <2>2. \A c \in Cards : cards'[c].blocks = cards[c].blocks
    <3>1. CASE here = None
      BY <1>9, <3>1, GetsIs DEF OpsInv
    <3>2. ASSUME here # None PROVE \A c \in Cards : cards'[c].blocks = cards[c].blocks
      <4>1. s.card.blocks = C.blocks /\ Missed(C).blocks = C.blocks
        BY <1>9, <3>2, HereIs, MissedIs DEF Plain
      <4>2. cards' = [cards EXCEPT ![here] = Missed(C)] \/ cards' = [cards EXCEPT ![here] = s.card]
        BY <1>9, <3>2, GetsIs DEF OpsInv
      <4> QED
        BY <1>8, <4>1, <4>2 DEF C
    <3> QED
      BY <3>1, <3>2
  <2>3. granted' = granted
    BY <1>6, <1>8, <2>2
  <2>4. cards' \in [Cards -> Card] /\ CardInv'
    BY <1>9, <2>1, <2>3, PlainGets DEF OpsInv
  <2>5. pc' = "free" /\ result' = FALSE
    BY <1>7, <1>9
  <2>6. OpsInv'
    BY <1>2, <1>6, <1>8, <2>3, <2>4, <2>5, StepOther
  <2> QED
    BY <2>2, <2>6
<1>10. CASE here = None \/ (Plain(C, r.card) /\ r.reply # "ack")
  <2>1. reply # "ack"
    BY <1>1, <1>10, GetsIs DEF OpsInv
  <2> QED
    BY <1>1, <1>6, <1>7, <1>9, <1>10, <2>1
<1>11. CASE here # None /\ cards' = [cards EXCEPT ![here] = Missed(C)] /\ reply = "none"
  <2>1. Plain(C, Missed(C))
    BY <1>11, HereIs, MissedIs
  <2>2. Gets([card |-> Missed(C), reply |-> "none"], "none")
    BY <1>11 DEF Gets, C
  <2> QED
    BY <1>6, <1>7, <1>9, <1>11, <2>1, <2>2
<1>12. CASE /\ here # None /\ cards' = [cards EXCEPT ![here] = r.card]
            /\ r.card = n /\ C.link \in {"auth", "open"} /\ Steady(C)
  <2>1. here \in Cards /\ C \in Card /\ Settled(C) /\ C = cards[here]
    BY <1>12, HereIs DEF C
  <2>2. /\ n \in Card /\ n.want = None /\ n.reg = C.reg /\ n.link = C.link
        /\ n.blocks = [C.blocks EXCEPT ![call.block] = Bytes]
        /\ n.blocks[TrailerBlock]
             = IF call.block = TrailerBlock THEN Bytes ELSE C.blocks[TrailerBlock]
    BY <1>2, <1>3, <2>1, FourBlocks DEF Card, Bytes16, n
  <2>3. /\ C.blocks[TrailerBlock] = Trailer(granted[here])
        /\ (Steady(C) /\ C.reg # None => C.reg = due)
    BY <2>1 DEF OpsInv, CardInv
  <2>4. cards' = [cards EXCEPT ![here] = n] /\ cards'[here] = n
        /\ \A c \in Cards : c # here => cards'[c] = cards[c]
    BY <1>8, <1>12, <2>1
  <2>5. \A c \in Cards : c # here => granted'[c] = granted[c]
    BY <1>6, <2>4
  <2>6. granted'[here] = IF n.blocks[TrailerBlock] # C.blocks[TrailerBlock] THEN call.arg
                         ELSE granted[here]
    BY <1>6, <2>1, <2>4
  <2>7. granted'[here] \in Access /\ n.blocks[TrailerBlock] = Trailer(granted'[here])
    <3>1. CASE n.blocks[TrailerBlock] # C.blocks[TrailerBlock]
      BY <1>3, <2>2, <2>6, <3>1
    <3>2. CASE n.blocks[TrailerBlock] = C.blocks[TrailerBlock]
      BY <1>8, <2>1, <2>3, <2>6, <3>2
    <3> QED
      BY <3>1, <3>2
  <2>8. granted' \in [Cards -> Access]
    BY <1>6, <1>8, <2>5, <2>7
  <2>9. Settled(n)
    BY <1>12, <2>2 DEF Settled
  <2>10. Steady(n) /\ n.reg # None => n.reg = due'
    BY <1>6, <1>12, <2>2, <2>3
  <2>11. here' = here
    BY <1>6
  <2>12. cards' \in [Cards -> Card] /\ CardInv'
    BY <2>1, <2>2, <2>4, <2>5, <2>7, <2>8, <2>9, <2>10, <2>11, OneCard DEF OpsInv
  <2>13. pc' \in {"free", "wake"} /\ result' \in BOOLEAN
         /\ (pc' = "wake" => call.op = "setUid" /\ call.block = 0)
    BY <1>2, <1>7, <1>8
  <2>14. OpsInv'
    BY <1>2, <1>6, <1>8, <2>8, <2>12, <2>13, StepOther
  <2>15. CASE reply = "ack"
    BY <1>6, <1>7, <1>12, <2>2, <2>4, <2>14, <2>15
  <2>16. CASE reply # "ack"
    BY <1>6, <1>7, <1>12, <2>2, <2>4, <2>14, <2>16
  <2> QED
    BY <2>15, <2>16
<1>13. \/ here = None
       \/ here # None /\ cards' = [cards EXCEPT ![here] = Missed(C)] /\ reply = "none"
       \/ here # None /\ cards' = [cards EXCEPT ![here] = r.card]
  BY <1>1, GetsIs DEF OpsInv
<1>14. CASE here # None /\ cards' = [cards EXCEPT ![here] = r.card]
  BY <1>5, <1>10, <1>12, <1>14
<1> QED
  BY <1>10, <1>11, <1>13, <1>14

\* The second step of a change of a value.
LEMMA StepTwoStep2 ==
  ASSUME OpsInv, TwoStep2
  PROVE  OpsInv' /\ \A c \in Cards : cards'[c].blocks = cards[c].blocks
<1> DEFINE r == OnData(C, ValueBytes(call.arg))
           v == Changed(C, call.op, call.block, call.arg)
           fits == InRange(C, call.op, call.block, call.arg)
<1>1. PICK reply \in {"ack", "nak", "none"} :
        Gets(r, reply) /\ IF Accepted(TRUE, reply) THEN Return(TRUE) ELSE Return(FALSE)
  BY DEF TwoStep2, FourBits
<1>2. /\ call.op \in {"inc", "dec", "restore"} /\ call.block \in Data
      /\ call.arg \in Int32 \cap Nat
  BY DEF OpsInv, CallInv, TwoStep2
<1>3. here # None => C.want = [op |-> call.op, block |-> call.block] \/ C.link = "idle"
  BY DEF OpsInv, WantInv, TwoStep2
<1>4. here # None =>
        /\ r.card \in Card /\ r.card.blocks = C.blocks /\ Settled(r.card)
        /\ r.card.reg # None => fits /\ r.reply = "none" /\ r.card.reg = v
  BY <1>2, <1>3, HereIs, OnAmountIs
<1>5. here # None => v \in Int
  BY <1>2, HereIs, ChangedIs
<1>6. /\ UNCHANGED <<here, granted, swapped, History>> /\ UNCHANGED <<buf, uid, crypto>>
      /\ UNCHANGED Reading /\ call' = call
      /\ due' = IF ~result' THEN due ELSE IF here # None /\ fits THEN v ELSE None
  BY DEF TwoStep2, History
<1>7. pc' = "free" /\ result' \in BOOLEAN /\ (reply = "none" => result' = TRUE)
  BY <1>1 DEF Return, Accepted
<1>8. /\ granted \in [Cards -> Access] /\ cards \in [Cards -> Card]
      /\ here \in Cards \cup {None} /\ due \in Int \cup {None}
  BY DEF OpsInv, TypeOK
<1> HIDE DEF r, v, fits
<1>9. due' \in Int \cup {None}
  BY <1>5, <1>6, <1>8
<1>10. SUFFICES /\ cards' \in [Cards -> Card] /\ CardInv'
                /\ \A c \in Cards : cards'[c].blocks = cards[c].blocks
  BY <1>2, <1>6, <1>7, <1>8, <1>9, StepOther
<1>11. CASE here = None
  <2>1. cards' = cards
    BY <1>1, <1>11, GetsIs DEF OpsInv
  <2>2. \A c \in Cards : c # here
    BY <1>11, OpsConstants
  <2>3. \A c \in Cards : cards[c].reg = None
    BY <2>2 DEF OpsInv, CardInv, Settled
  <2> QED
    BY <1>6, <1>8, <2>1, <2>3 DEF OpsInv, CardInv, Settled, Steady
<1>12. CASE here # None
  <2>1. here \in Cards /\ C \in Card /\ Settled(C) /\ C = cards[here]
    BY <1>12, HereIs DEF C
  <2>2. C.blocks[TrailerBlock] = Trailer(granted[here])
    BY <2>1 DEF OpsInv, CardInv
  <2>3. here' = here /\ granted' = granted
    BY <1>6
  <2>4. ASSUME NEW n \in Card, n.blocks = C.blocks, Settled(n),
               Steady(n) /\ n.reg # None => n.reg = due', cards' = [cards EXCEPT ![here] = n]
        PROVE  /\ cards' \in [Cards -> Card] /\ CardInv'
               /\ \A c \in Cards : cards'[c].blocks = cards[c].blocks
    <3>1. cards' \in [Cards -> Card] /\ CardInv'
      BY <1>8, <2>1, <2>2, <2>3, <2>4, OneCard DEF OpsInv
    <3>2. \A c \in Cards : cards'[c].blocks = cards[c].blocks
      BY <1>8, <2>1, <2>4
    <3> QED
      BY <3>1, <3>2
  <2>5. CASE cards' = [cards EXCEPT ![here] = Missed(C)]
    <3> DEFINE m == Missed(C)
    <3>1. /\ m \in Card /\ m.blocks = C.blocks /\ Settled(m) /\ m.want = C.want /\ m.reg = C.reg
      BY <2>1, MissedIs DEF Plain
    <3> HIDE DEF m
    <3>2. Steady(m) /\ m.reg # None => m.reg = due'
      <4>1. CASE C.link = "idle"
        BY <2>1, <3>1, <4>1 DEF Settled
      <4>2. CASE C.want = [op |-> call.op, block |-> call.block]
        <5>1. call.op \in Op \cup {"write"} /\ call.block \in Block /\ call.op # "write"
          BY <1>2, FourBlocks DEF Op
        <5>2. C.want # None /\ C.want.op # "write"
          BY <4>2, <5>1, CommandFields
        <5> QED
          BY <3>1, <5>2 DEF Steady
      <4> QED
        BY <1>3, <1>12, <4>1, <4>2
    <3> QED
      BY <2>4, <2>5, <3>1, <3>2 DEF m
  <2>6. CASE cards' = [cards EXCEPT ![here] = r.card] /\ reply \in {r.reply, "none"}
    <3>1. /\ r.card \in Card /\ r.card.blocks = C.blocks /\ Settled(r.card)
          /\ (r.card.reg # None => fits /\ r.reply = "none" /\ r.card.reg = v)
      BY <1>4, <1>12
    <3>2. r.card.reg # None => r.card.reg = due'
      BY <1>6, <1>7, <1>12, <2>6, <3>1
    <3> QED
      BY <2>4, <2>6, <3>1, <3>2
  <2> QED
    BY <1>1, <1>12, <2>5, <2>6, GetsIs DEF OpsInv
<1> QED
  BY <1>11, <1>12

\* Another card takes the place of the one in the field.
LEMMA StepExchanged ==
  ASSUME OpsInv, Exchanged
  PROVE  OpsInv' /\ \A c \in Cards : cards'[c].blocks = cards[c].blocks
<1>1. /\ UNCHANGED <<pc, result, buf, uid, crypto, due, granted>> /\ UNCHANGED History
      /\ UNCHANGED Reading /\ call' = call /\ swapped' = TRUE
  BY DEF Exchanged, History
<1>2. /\ granted \in [Cards -> Access] /\ cards \in [Cards -> Card] /\ here \in Cards \cup {None}
  BY DEF OpsInv, TypeOK
<1>3. ASSUME cards' \in [Cards -> Card], CardInv', WantInv', here' \in Cards \cup {None}
      PROVE  OpsInv'
  <2>1. TypeOK'
    BY <1>1, <1>3 DEF OpsInv, TypeOK, History, Reading
  <2>2. CallInv'
    BY <1>1 DEF OpsInv, CallInv, LengthFits
  <2> QED
    BY <1>3, <2>1, <2>2 DEF OpsInv
<1>4. CASE here # None /\ here' = None /\ cards' = [cards EXCEPT ![here] = Off(@)]
  <2>1. here \in Cards /\ C \in Card /\ C = cards[here]
    BY <1>4, HereIs DEF C
  <2> DEFINE n == Off(C)
  <2>2. /\ n \in Card /\ n.blocks = C.blocks /\ Settled(n) /\ n.link = "idle" /\ n.reg = None
    BY <2>1, OffIs DEF Plain
  <2>3. C.blocks[TrailerBlock] = Trailer(granted[here])
    BY <2>1 DEF OpsInv, CardInv
  <2>4. cards' = [cards EXCEPT ![here] = n]
    BY <1>4, <2>1
  <2> HIDE DEF n
  <2>5. granted' = granted
    BY <1>1
  <2>6. cards' \in [Cards -> Card] /\ CardInv'
    BY <1>2, <1>4, <2>1, <2>2, <2>3, <2>4, <2>5, OneCard DEF OpsInv
  <2>7. \A c \in Cards : cards'[c].blocks = cards[c].blocks
    BY <1>2, <2>1, <2>2, <2>4
  <2>8. WantInv'
    BY <1>4 DEF WantInv
  <2> QED
    BY <1>3, <1>4, <2>6, <2>7, <2>8
<1>5. CASE here = None /\ here' \in Cards /\ cards' = cards
  <2>1. \A c \in Cards : c # here
    BY <1>5, OpsConstants
  <2>2. \A c \in Cards : cards[c].link = "idle" /\ cards[c].want = None
    BY <2>1 DEF OpsInv, CardInv, Settled
  <2>3. CardInv'
    BY <1>1, <1>5, <2>2 DEF OpsInv, CardInv, Settled, Steady
  <2>4. WantInv'
    BY <1>5, <2>2 DEF WantInv, C
  <2> QED
    BY <1>2, <1>3, <1>5, <2>3, <2>4
<1> QED
  BY <1>4, <1>5 DEF Exchanged

\* The cards as they are bought, and no call.
LEMMA OpsInit ==
  ASSUME Init
  PROVE  OpsInv
<1> DEFINE blocks(c) == [b \in Block |-> IF b = 0 THEN c
                                         ELSE IF b = TrailerBlock THEN Trailer(Transport)
                                         ELSE ValueBlock(0, b)]
           k(c) == [link |-> "idle", want |-> None, reg |-> None, blocks |-> blocks(c)]
<1>1. Transport \in Access
  BY DEF Transport, Access
<1>2. ASSUME NEW c \in Cards
      PROVE  /\ k(c) \in Card /\ k(c).blocks[TrailerBlock] = Trailer(Transport)
             /\ k(c).link = "idle" /\ k(c).want = None /\ k(c).reg = None
  <2>1. c \in Bytes16 /\ Trailer(Transport) \in Bytes16
    BY <1>1, OpsConstants, TrailerIs DEF Bytes16
  <2>2. ASSUME NEW b \in Block PROVE ValueBlock(0, b) \in Bytes16
    <3>1. b \in Byte /\ 0 \in Int32
      BY FourBlocks DEF Byte, Int32
    <3> QED
      BY <3>1, ValueStored
  <2>3. blocks(c) \in [Block -> Bytes16]
    BY <2>1, <2>2
  <2>4. blocks(c)[TrailerBlock] = Trailer(Transport)
    BY FourBlocks
  <2> HIDE DEF blocks
  <2> QED
    BY <2>3, <2>4 DEF Card, Bytes16
<1>3. cards = [c \in Cards |-> k(c)]
  BY DEF Init
<1> HIDE DEF k
<1>4. cards \in [Cards -> Card]
  BY <1>2, <1>3
<1>5. /\ buf \in [1 .. 16 -> Byte] /\ uid \in [1 .. 4 -> Byte]
  <2>1. uid \in [1 .. 4 -> Byte]
    BY DEF Init, Zeros, Byte
  <2> QED
    BY <2>1, ZeroBlock DEF Init, Bytes16
<1>6. TypeOK
  <2>1. /\ got \in Int32 /\ shown \in [Block -> [access : 0 .. 7, value : Int32 \cup {None}] \cup {None}]
        /\ blk \in Block /\ access \in Access \cup {None} /\ call.op = None /\ call.block \in Block
    BY BlankIs, FourBlocks DEF Init, Int32, NoCall
  <2>2. calls \in 0 .. MaxCalls /\ granted \in [Cards -> Access]
        /\ before \in [Cards -> [Block -> [1 .. 16 -> Byte]] \cup {None}]
    BY <1>1, OpsConstants DEF Init
  <2> QED
    BY <1>4, <1>5, <2>1, <2>2 DEF Init, TypeOK
<1>7. CallInv /\ WantInv
  BY DEF Init, CallInv, WantInv
<1>8. CardInv
  BY <1>2, <1>3 DEF Init, CardInv, Settled, Steady
<1> QED
  BY <1>6, <1>7, <1>8 DEF OpsInv

\* Nothing happens.
LEMMA OpsStays ==
  ASSUME OpsInv, UNCHANGED vars
  PROVE  OpsInv'
<1>1. TypeOK'
  BY DEF OpsInv, TypeOK, vars
<1>2. CallInv' /\ WantInv'
  BY DEF OpsInv, CallInv, WantInv, LengthFits, C, vars
<1>3. CardInv'
  BY DEF OpsInv, CardInv, Settled, Steady, vars
<1> QED
  BY <1>1, <1>2, <1>3 DEF OpsInv

\* Every step keeps the invariant.
LEMMA OpsStep ==
  ASSUME OpsInv, [Next]_vars
  PROVE  OpsInv'
BY OpsStays, StepCallBegins, StepIsNewCardPresent, StepReadCardSerial, StepAuthenticate,
   StepStopCrypto1, StepWrite1, StepWrite2, StepTwoStep1, StepTwoStep2, StepTransfer, StepGetValue, StepDumpAuth,
   StepDumpRead, StepUidAuth, StepUidRequest, StepUidSelect, StepUidAgain, StepUidRead, StepHaltA,
   StepMagic40, StepMagic43, StepWake, StepExchanged DEF Next

\* It holds.
LEMMA OpsInvHolds == Spec => []OpsInv
<1>1. Init => OpsInv
  BY OpsInit
<1>2. OpsInv /\ [Next]_vars => OpsInv'
  BY OpsStep
<1> QED
  BY <1>1, <1>2, PTL DEF Spec

\* Every variable of MifareOps holds a value of its type: the values, the blocks of 16
\* bytes and the access bits that the driver makes fit their types for every call, and
\* what a card counts stays within an int32_t.
THEOREM OpsTyping == Spec => []TypeOK
<1>1. OpsInv => TypeOK
  BY DEF OpsInv
<1> QED
  BY <1>1, OpsInvHolds, PTL

-----------------------------------------------------------------------------
(* What a reported success means *)

\* The steps that can end a call with a success.
LEMMA WhoReturns ==
  ASSUME OpsInv, Next, pc' = "free", result', ~swapped'
  PROVE  Write2 \/ TwoStep2 \/ Transfer \/ GetValue \/ DumpRead \/ Wake
<1>1. ~CallBegins
  BY DEF CallBegins, Begin
<1>2. ~IsNewCardPresent /\ ~ReadCardSerial /\ ~Authenticate /\ ~StopCrypto1
  BY DEF IsNewCardPresent, ReadCardSerial, Authenticate, StopCrypto1, BetweenCalls
<1>3. ~Write1 /\ ~TwoStep1
  BY DEF Write1, TwoStep1, FourBits, GoTo, Return
<1>4. ~DumpAuth /\ ~UidRequest /\ ~UidSelect /\ ~UidAgain /\ ~UidRead
  BY DEF DumpAuth, UidRequest, UidSelect, UidAgain, UidRead, GoTo, Return
<1>5. ~UidAuth /\ ~HaltA
  BY DEF UidAuth, HaltA, GoTo, Return
<1>6. ~Magic40 /\ ~Magic43
  BY DEF Magic40, Magic43, NoBackdoor, GoTo, Return
<1>7. ~Exchanged
  BY DEF Exchanged
<1> QED
  BY <1>1, <1>2, <1>3, <1>4, <1>5, <1>6, <1>7 DEF Next

\* The call that each of these belongs to.
LEMMA WhoseCall ==
  ASSUME OpsInv
  PROVE  /\ Write2 => call.op \in {"set", "access", "setUid", "unbrick"} /\ call' = call
         /\ TwoStep2 => call.op \in {"inc", "dec", "restore"} /\ call' = call
         /\ Transfer => call.op = "transfer" /\ call' = call
         /\ GetValue => call.op = "get" /\ call' = call
         /\ DumpRead => call.op = "dump" /\ call' = call
         /\ Wake => call.op = "setUid" /\ call' = call
BY DEF OpsInv, CallInv, Write2, TwoStep2, Transfer, GetValue, DumpRead, Wake, History

\* A transfer reported done has stored the result of the last change of a value that was
\* reported done, whatever was lost or exchanged: MIFARE_Transfer after
\* MIFARE_TwoStepHelper, which takes a missing answer for a success.
THEOREM TransferIsDone == Spec => []TransferDone
<1>1. Init => TransferDone
  BY DEF Init, TransferDone, Succeeded
<1>2. ASSUME OpsInv, TransferDone, [Next]_vars PROVE TransferDone'
  <2>1. CASE UNCHANGED vars
    BY <1>2, <2>1 DEF TransferDone, Succeeded, C, vars
  <2>2. ASSUME Next, pc' = "free", result', call'.op = "transfer", here' # None, ~swapped'
        PROVE  due' # None /\ CardNumber(cards'[here'].blocks[call'.block]) = due'
    <3>1. Transfer
      BY <1>2, <2>2, WhoReturns, WhoseCall
    <3>2. /\ call' = call /\ due' = due /\ here' = here
          /\ due # None /\ CardNumber(cards'[here].blocks[call.block]) = due
      BY <1>2, <2>2, <3>1, StepTransfer
    <3> QED
      BY <3>2
  <2>3. CASE Next
    BY <2>2, <2>3 DEF TransferDone, Succeeded, C
  <2> QED
    BY <1>2, <2>1, <2>3
<1> QED
  BY <1>1, <1>2, OpsInvHolds, PTL DEF Spec

\* What MIFARE_SetValue reports stored is a value block with its value for the card, and
\* what MIFARE_GetValue returns is the value the card counts with.
THEOREM ValuesDoAgree == Spec => []ValuesAgree
<1>1. Init => ValuesAgree
  BY DEF Init, ValuesAgree, Succeeded
<1>2. ASSUME OpsInv, ValuesAgree, [Next]_vars PROVE ValuesAgree'
  <2>1. CASE UNCHANGED vars
    BY <1>2, <2>1 DEF ValuesAgree, Succeeded, C, vars
  <2>2. ASSUME Next, pc' = "free", result', call'.op = "set", here' # None, ~swapped'
        PROVE  LET b == cards'[here'].blocks[call'.block]
               IN  IsValueBlock(b) /\ CardNumber(b) = call'.arg
    <3>1. Write2 /\ call' = call /\ call.op = "set"
      BY <1>2, <2>2, WhoReturns, WhoseCall
    <3>2. here' = here /\ cards'[here].blocks = [C.blocks EXCEPT ![call.block] = Bytes]
      BY <1>2, <2>2, <3>1, StepWrite2
    <3>3. call.block \in Data /\ call.arg \in Int32
      BY <1>2, <3>1 DEF OpsInv, CallInv, Write2
    <3>4. call.block \in Byte /\ call.block \in Block
      BY <3>3, FourBlocks DEF Data, Byte
    <3>5. Bytes = ValueBlock(call.arg, call.block)
      BY <3>1, SMT DEF Bytes
    <3>6. C.blocks \in [Block -> Bytes16]
      BY <1>2, <2>2, <3>2, HereBlocks
    <3>7. cards'[here].blocks[call.block] = ValueBlock(call.arg, call.block)
      BY <3>2, <3>4, <3>5, <3>6
    <3> QED
      BY <3>1, <3>2, <3>3, <3>4, <3>7, ValueStored
  <2>3. ASSUME Next, pc' = "free", result', call'.op = "get", here' # None, ~swapped'
        PROVE  got' = CardNumber(cards'[here'].blocks[call'.block])
    <3>1. GetValue /\ call' = call
      BY <1>2, <2>3, WhoReturns, WhoseCall
    <3>2. here' = here /\ got' = ReadValue(C.blocks[call.block])
      BY <2>3, <3>1 DEF GetValue, Return
    <3>3. here \in Cards /\ call.block \in Block
      BY <1>2, <2>3, <3>2 DEF OpsInv, TypeOK
    <3>4. cards'[here].blocks[call.block] = C.blocks[call.block]
      BY <1>2, <3>1, <3>3, StepGetValue DEF C
    <3> DEFINE b == C.blocks[call.block]
    <3>5. b \in Bytes16
      BY <1>2, <2>3, <3>2, <3>3, HereBlocks
    <3> HIDE DEF b
    <3>6. ReadValue(b) = CardNumber(b)
      BY <3>5, ReadsAlike DEF Bytes16
    <3> QED
      BY <3>1, <3>2, <3>4, <3>6 DEF b
  <2>4. CASE Next
    BY <2>2, <2>3, <2>4 DEF ValuesAgree, Succeeded, C
  <2> QED
    BY <1>2, <2>1, <2>4
<1> QED
  BY <1>1, <1>2, OpsInvHolds, PTL DEF Spec

\* A step within MIFARE_SetUid that leaves the blocks alone.
LEMMA UidKept ==
  ASSUME OpsInv, UidInv, UNCHANGED <<here, swapped, History, buf>>,
         \A c \in Cards : cards'[c].blocks = cards[c].blocks,
         call.op = "setUid" =>
           /\ pc' \notin {"free", "wake"} => pc \notin {"free", "wake"}
           /\ pc' \in {"halt", "magic40", "magic43", "write1", "write2"} =>
                pc \in {"halt", "magic40", "magic43", "write1", "write2"}
           /\ (pc' = "wake" \/ (pc' = "free" /\ result')) =>
                (pc = "wake" \/ (pc = "free" /\ result))
  PROVE  UidInv'
<1>1. call' = call /\ before' = before /\ here' = here /\ swapped' = swapped /\ buf' = buf
  BY DEF History
<1>2. here # None => cards'[here].blocks = C.blocks
  BY HereIs DEF C
<1>3. here # None => C'.blocks = C.blocks
  BY <1>1, <1>2 DEF C
<1> QED
  BY <1>1, <1>3 DEF UidInv, NewBlocks

\* A step of another call.
LEMMA UidElse ==
  ASSUME call'.op = "setUid" => swapped'
  PROVE  UidInv'
BY DEF UidInv

\* Every step keeps what is known of block 0.
LEMMA UidStep ==
  ASSUME OpsInv, UidInv, [Next]_vars
  PROVE  UidInv'
<1>1. CASE UNCHANGED vars
  BY <1>1 DEF UidInv, NewBlocks, C, vars
<1>2. CASE CallBegins
  <2>1. ASSUME NEW o, NEW b, NEW a, NEW at, Begin(o, b, a, at),
               at \in {"uidAuth", "free"} \/ o # "setUid"
        PROVE  UidInv'
    <3>1. /\ call'.op = o /\ pc' = at /\ result' = FALSE /\ here' = here /\ cards' = cards
          /\ before' = [c \in Cards |-> IF o = "setUid" THEN cards[c].blocks ELSE None]
      BY <2>1 DEF Begin
    <3>2. CASE o # "setUid"
      BY <3>1, <3>2, UidElse
    <3>3. CASE o = "setUid" /\ at \in {"uidAuth", "free"}
      <4>1. here # None => C'.blocks = before'[here'] /\ before'[here'] \in [Block -> Bytes16]
        BY <3>1, <3>3, HereIs, HereBlocks DEF C
      <4> QED
        BY <3>1, <3>3, <4>1 DEF UidInv, Bytes16
    <3> QED
      BY <2>1, <3>2, <3>3
  <2> QED
    BY <1>2, <2>1 DEF CallBegins
<1>3. CASE IsNewCardPresent \/ ReadCardSerial \/ Authenticate \/ StopCrypto1
  <2>1. pc' = "free" /\ result' = FALSE
    BY <1>3 DEF IsNewCardPresent, ReadCardSerial, Authenticate, StopCrypto1, BetweenCalls
  <2> QED
    BY <2>1 DEF UidInv
<1>4. CASE Write1
  <2>1. pc = "write1" /\ (pc' = "write2" \/ (pc' = "free" /\ result' = FALSE))
        /\ UNCHANGED <<here, swapped, History, buf>>
    BY <1>4 DEF Write1, FourBits, GoTo, Return
  <2> QED
    BY <1>4, <2>1, StepWrite1, UidKept
<1>5. CASE Write2
  <2>1. /\ pc = "write2" /\ UNCHANGED <<here, swapped, History, buf>> /\ call' = call
        /\ before' = before
    BY <1>5 DEF Write2, History
  <2>2. CASE call.op # "setUid"
    BY <2>1, <2>2, UidElse
  <2>3. CASE call.op = "setUid" /\ pc' = "free" /\ result' = FALSE
    BY <2>3 DEF UidInv
  <2>4. CASE /\ call.op = "setUid" /\ pc' = "wake"
             /\ here # None /\ cards'[here].blocks = [C.blocks EXCEPT ![call.block] = Bytes]
    <3>1. Bytes = buf
      BY <2>4, SMT DEF Bytes
    <3>2. call.block = 0
      BY <2>1, <2>4 DEF OpsInv, CallInv
    <3>3. ~swapped => C.blocks = before[here] /\ buf = NewBlock0(before[here][0], call.arg)
      BY <2>1, <2>4 DEF UidInv
    <3>4. ~swapped => cards'[here].blocks = NewBlocks(here)
      BY <2>4, <3>1, <3>2, <3>3 DEF NewBlocks
    <3> QED
      BY <2>1, <2>4, <3>4 DEF UidInv, NewBlocks, C
  <2> QED
    BY <1>5, <2>2, <2>3, <2>4, StepWrite2
<1>6. CASE TwoStep1 \/ TwoStep2 \/ Transfer \/ GetValue \/ DumpAuth \/ DumpRead
  <2>1. call' = call
    BY <1>6 DEF TwoStep1, TwoStep2, Transfer, GetValue, DumpAuth, DumpRead, History
  <2>2. call.op # "setUid"
    BY <1>6 DEF TwoStep1, TwoStep2, Transfer, GetValue, DumpAuth, DumpRead, OpsInv, CallInv
  <2> QED
    BY <2>1, <2>2, UidElse
<1>7. CASE UidAuth
  <2>1. /\ pc = "uidAuth" /\ (pc' \in {"uidRead", "uidRequest"} \/ (pc' = "free" /\ result' = FALSE))
        /\ UNCHANGED <<here, swapped, History, buf>>
    BY <1>7 DEF UidAuth, GoTo, Return
  <2> QED
    BY <1>7, <2>1, StepUidAuth, UidKept
<1>8. CASE UidRequest
  <2>1. /\ pc = "uidRequest" /\ (pc' = "uidSelect" \/ (pc' = "free" /\ result' = FALSE))
        /\ UNCHANGED <<here, swapped, History, buf>>
    BY <1>8 DEF UidRequest, GoTo, Return
  <2> QED
    BY <1>8, <2>1, StepUidRequest, UidKept
<1>9. CASE UidSelect
  <2>1. /\ pc = "uidSelect" /\ (pc' = "uidAgain" \/ (pc' = "free" /\ result' = FALSE))
        /\ UNCHANGED <<here, swapped, History, buf>>
    BY <1>9 DEF UidSelect, GoTo, Return
  <2> QED
    BY <1>9, <2>1, StepUidSelect, UidKept
<1>10. CASE UidAgain
  <2>1. /\ pc = "uidAgain" /\ (pc' = "uidRead" \/ (pc' = "free" /\ result' = FALSE))
        /\ UNCHANGED <<here, swapped, History, buf>>
    BY <1>10 DEF UidAgain, GoTo, Return
  <2> QED
    BY <1>10, <2>1, StepUidAgain, UidKept
<1>11. CASE UidRead
  <2>1. /\ pc = "uidRead" /\ UNCHANGED <<here, swapped, History>> /\ call' = call /\ before' = before
        /\ \/ pc' = "halt" /\ buf' = NewBlock0(C.blocks[0], call.arg)
           \/ pc' = "free" /\ result' = FALSE
    BY <1>11 DEF UidRead, GoTo, Return, History
  <2>2. here # None => C'.blocks = C.blocks
    BY <1>11, <2>1, StepUidRead, HereIs DEF C
  <2> QED
    BY <2>1, <2>2 DEF UidInv
<1>12. CASE HaltA
  <2>1. pc = "halt" /\ pc' = "magic40" /\ UNCHANGED <<here, swapped, History, buf>>
    BY <1>12 DEF HaltA, GoTo
  <2> QED
    BY <1>12, <2>1, StepHaltA, UidKept
<1>13. CASE Magic40
  <2>1. /\ pc = "magic40" /\ UNCHANGED <<here, swapped, History, buf>>
        /\ pc' \in {"magic43", "write1"} \/ (pc' = "free" /\ result' = FALSE)
    BY <1>13 DEF Magic40, NoBackdoor, GoTo, Return
  <2> QED
    BY <1>13, <2>1, StepMagic40, UidKept
<1>14. CASE Magic43
  <2>1. /\ pc = "magic43" /\ UNCHANGED <<here, swapped, History, buf>>
        /\ pc' = "write1" \/ (pc' = "free" /\ result' = FALSE)
    BY <1>14 DEF Magic43, NoBackdoor, GoTo, Return
  <2> QED
    BY <1>14, <2>1, StepMagic43, UidKept
<1>15. CASE Wake
  <2>1. pc = "wake" /\ pc' = "free" /\ UNCHANGED <<here, swapped, History, buf>>
    BY <1>15 DEF Wake, Return
  <2> QED
    BY <1>15, <2>1, StepWake, UidKept
<1>16. CASE Exchanged
  BY <1>16, UidElse DEF Exchanged
<1> QED
  BY <1>1, <1>2, <1>3, <1>4, <1>5, <1>6, <1>7, <1>8, <1>9, <1>10, <1>11, <1>12, <1>13,
     <1>14, <1>15, <1>16 DEF Next

\* If MIFARE_SetUid returns true, the card has the new UID with its BCC, and the rest of
\* its blocks as they were: what the magic commands, the copy of block 0 in
\* block0_buffer and its writing come to, for every length of the UID.
THEOREM UidIsReplaced == Spec => []UidReplaced
<1>1. Init => UidInv
  BY DEF Init, UidInv
<1>2. OpsInv /\ UidInv /\ [Next]_vars => UidInv'
  BY UidStep
<1>3. OpsInv /\ UidInv => UidReplaced
  <2> SUFFICES ASSUME OpsInv, UidInv, Succeeded("setUid")
               PROVE  LET old == before[here]
                          n   == Len(call.arg)
                      IN  /\ SubSeq(C.blocks[0], 1, n) = call.arg
                          /\ SubSeq(C.blocks[0], n + 2, 16) = SubSeq(old[0], n + 2, 16)
                          /\ \A b \in Block \ {0} : C.blocks[b] = old[b]
                          /\ n = 4 => Selectable(C)
    BY DEF UidReplaced
  <2> DEFINE old == before[here]
             u == call.arg
  <2>1. /\ pc = "free" /\ result /\ call.op = "setUid" /\ here # None /\ ~swapped
    BY DEF Succeeded
  <2>2. C.blocks = [old EXCEPT ![0] = NewBlock0(old[0], u)]
    BY <2>1 DEF UidInv, NewBlocks
  <2>3. u \in Seq(Byte) /\ LengthFits(u)
    BY <2>1 DEF OpsInv, CallInv
  <2>4. old \in [Block -> Bytes16]
    BY <2>1 DEF UidInv, Bytes16
  <2>5. old[0] \in Bytes16 /\ C.blocks[0] = NewBlock0(old[0], u)
        /\ \A b \in Block \ {0} : C.blocks[b] = old[b]
    BY <2>2, <2>4, FourBlocks
  <2> HIDE DEF old, u
  <2>6. /\ SubSeq(C.blocks[0], 1, Len(u)) = u
        /\ SubSeq(C.blocks[0], Len(u) + 2, 16) = SubSeq(old[0], Len(u) + 2, 16)
        /\ Len(u) = 4 => C.blocks[0][5] = Bcc(SubSeq(C.blocks[0], 1, 4))
    BY <2>3, <2>5, NewUid
  <2> QED
    BY <2>5, <2>6 DEF old, u, Selectable, UidOf
<1> QED
  BY <1>1, <1>2, <1>3, OpsInvHolds, PTL DEF Spec

\* A step of another call, or one after which the dump has ended without a success.
LEMMA DumpElse ==
  ASSUME pc' \notin {"dumpAuth", "dumpRead"},
         call'.op # "dump" \/ swapped' \/ (pc' = "free" /\ result' = FALSE)
  PROVE  DumpInv'
BY DEF DumpInv

\* The steps of other calls.
LEMMA DumpOthers ==
  ASSUME OpsInv,
         Write1 \/ Write2 \/ TwoStep1 \/ TwoStep2 \/ Transfer \/ GetValue \/ UidAuth
           \/ UidRequest \/ UidSelect \/ UidAgain \/ UidRead \/ HaltA \/ Magic40 \/ Magic43 \/ Wake
  PROVE  pc' \notin {"dumpAuth", "dumpRead"} /\ call'.op # "dump"
<1>1. call.op # "dump"
  BY DEF Write1, Write2, TwoStep1, TwoStep2, Transfer, GetValue, UidAuth, UidRequest,
         UidSelect, UidAgain, UidRead, HaltA, Magic40, Magic43, Wake, OpsInv, CallInv
<1>2. call' = call
  BY DEF Write1, Write2, TwoStep1, TwoStep2, Transfer, GetValue, UidAuth, UidRequest,
         UidSelect, UidAgain, UidRead, HaltA, Magic40, Magic43, Wake, History
<1>3. Write1 \/ TwoStep1 \/ TwoStep2 \/ Transfer => pc' \notin {"dumpAuth", "dumpRead"}
  BY DEF Write1, TwoStep1, TwoStep2, Transfer, FourBits, GoTo, Return
<1>4. Write2 \/ GetValue \/ HaltA \/ Wake => pc' \notin {"dumpAuth", "dumpRead"}
  BY DEF Write2, FourBits, GetValue, HaltA, Wake, GoTo, Return
<1>5. UidAuth \/ UidRequest \/ UidSelect \/ UidAgain \/ UidRead => pc' \notin {"dumpAuth", "dumpRead"}
  BY DEF UidAuth, UidRequest, UidSelect, UidAgain, UidRead, GoTo, Return
<1>6. Magic40 \/ Magic43 => pc' \notin {"dumpAuth", "dumpRead"}
  BY DEF Magic40, Magic43, NoBackdoor, GoTo, Return
<1> QED
  BY <1>1, <1>2, <1>3, <1>4, <1>5, <1>6

\* The dump reads a block: what it shows of it, and of those it has read before, is true.
LEMMA DumpReads ==
  ASSUME OpsInv, DumpInv, DumpRead
  PROVE  DumpInv'
<1> DEFINE bytes == C.blocks[blk]
           g == access'[Group(NoOfBlocks(Sector), blk)]
<1>1. PICK reply \in {"ack", "none"} :
        /\ Gets(OnCommand(C, "read", blk), reply)
        /\ IF reply = "none" THEN UNCHANGED <<shown, access>>
           ELSE /\ access' = IF access # None THEN access
                             ELSE ParseAccessBits(SubSeq(bytes, 7, 9))
                /\ shown' = [shown EXCEPT ![blk] = Shows(g, bytes)]
  BY DEF DumpRead
<1>2. /\ pc = "dumpRead" /\ UNCHANGED <<here, granted, swapped>> /\ call' = call
      /\ call.op = "dump"
      /\ \/ blk = 0 /\ pc' = "free" /\ blk' = blk
         \/ blk # 0 /\ blk' = blk - 1 /\ pc' \in {"dumpAuth", "dumpRead"}
  BY DEF DumpRead, GoTo, Return, History, OpsInv, CallInv
<1>3. blk \in 0 .. 3 /\ shown \in [Block -> [access : 0 .. 7, value : Int32 \cup {None}] \cup {None}]
      /\ granted \in [Cards -> Access] /\ access \in Access \cup {None}
  BY OldTypes, FourBlocks DEF OpsInv, TypeOK
<1>4. /\ access = None => shown = Blank
      /\ \A b \in Block : b <= blk => shown[b] = None
      /\ blk = TrailerBlock => access = None
  BY <1>2 DEF DumpInv
<1>5. here # None /\ ~swapped /\ shown[TrailerBlock] # None =>
        /\ access = granted[here]
        /\ \A b \in Block : shown[b] # None =>
             /\ shown[b].access = granted[here][b]
             /\ shown[b].value # None => shown[b].value = CardNumber(C.blocks[b])
  BY <1>2 DEF DumpInv
<1>6. here # None => /\ C'.blocks = C.blocks /\ here \in Cards
                     /\ C.blocks[TrailerBlock] = Trailer(granted[here])
  <2>1. here' = here
    BY <1>2
  <2>2. here # None => here \in Cards /\ cards[here].blocks[TrailerBlock] = Trailer(granted[here])
    BY HereIs DEF OpsInv, CardInv
  <2> QED
    BY <2>1, <2>2, StepDumpRead DEF C
<1>7. TrailerBlock \in Block /\ TrailerBlock = 3 /\ Block = 0 .. 3
  BY FourBlocks DEF TrailerBlock
<1>8. CASE reply = "none"
  <2>1. access' = access /\ shown' = shown
    BY <1>1, <1>8
  <2>2. pc' \in {"dumpAuth", "dumpRead"} =>
          /\ access' = None => shown' = Blank
          /\ \A b \in Block : b <= blk' => shown'[b] = None
          /\ blk' = TrailerBlock => access' = None
    BY <1>2, <1>3, <1>4, <1>7, <2>1
  <2>3. here' # None /\ ~swapped' /\ shown'[TrailerBlock] # None =>
          /\ access' = granted'[here']
          /\ \A b \in Block : shown'[b] # None =>
               /\ shown'[b].access = granted'[here'][b]
               /\ shown'[b].value # None => shown'[b].value = CardNumber(C'.blocks[b])
    BY <1>2, <1>5, <1>6, <2>1
  <2> QED
    BY <2>2, <2>3 DEF DumpInv, Blank
<1>9. CASE reply = "ack"
  <2>1. here # None
    BY <1>1, <1>9, GetsIs DEF OpsInv
  <2>2. shown' = [shown EXCEPT ![blk] = Shows(g, bytes)]
        /\ access' = IF access # None THEN access ELSE ParseAccessBits(SubSeq(bytes, 7, 9))
    BY <1>1, <1>9
  <2>3. bytes \in Bytes16
    BY <1>3, <1>7, <2>1, HereBlocks
  <2>4. ReadValue(bytes) = CardNumber(bytes)
    BY <2>3, ReadsAlike DEF Bytes16
  <2>5. access' \in Access \cup {None}
    BY StepDumpRead DEF OpsInv, TypeOK
  <2>6. access' # None
    <3>1. CASE access # None
      BY <2>2, <3>1
    <3>2. CASE access = None
      <4>1. SubSeq(bytes, 7, 9) \in [1 .. 3 -> Byte]
        <5>1. \A i \in 7 .. 9 : bytes[i] \in Byte
          BY <2>3 DEF Bytes16
        <5> HIDE DEF bytes
        <5>2. SubSeq(bytes, 7, 9) \in Seq(Byte) /\ Len(SubSeq(bytes, 7, 9)) = 3
          BY <5>1, SubSeqProperties
        <5> QED
          BY <5>2, LenProperties
      <4>2. access' \in Access
        BY <2>2, <3>2, <4>1, ParseIs
      <4> QED
        BY <4>2, OpsConstants
    <3> QED
      BY <3>1, <3>2
  <2>7. Shows(g, bytes).access = g
        /\ (Shows(g, bytes).value # None => Shows(g, bytes).value = CardNumber(bytes))
    BY <2>4 DEF Shows
  <2>8. \A b \in Block : b # blk => shown'[b] = shown[b]
    BY <1>3, <2>2
  <2>9. shown'[blk] = Shows(g, bytes)
    BY <1>3, <1>7, <2>2
  <2>10. g = access'[blk]
    BY <1>3, <1>7, FourBlocks
  <2> HIDE DEF g
  <2>11. pc' \in {"dumpAuth", "dumpRead"} =>
           /\ access' = None => shown' = Blank
           /\ \A b \in Block : b <= blk' => shown'[b] = None
           /\ blk' = TrailerBlock => access' = None
    <3>1. ASSUME pc' \in {"dumpAuth", "dumpRead"}, NEW b \in Block, b <= blk'
          PROVE  shown'[b] = None
      <4>1. b # blk /\ b <= blk
        BY <1>2, <1>3, <1>7, <3>1
      <4> QED
        BY <1>4, <2>8, <4>1
    <3>2. pc' \in {"dumpAuth", "dumpRead"} => blk' # TrailerBlock
      BY <1>2, <1>3, <1>7
    <3> QED
      BY <2>6, <3>1, <3>2
  <2>12. ASSUME ~swapped, shown'[TrailerBlock] # None
         PROVE  /\ access' = granted[here]
                /\ \A b \in Block : shown'[b] # None =>
                     /\ shown'[b].access = granted[here][b]
                     /\ shown'[b].value # None => shown'[b].value = CardNumber(C.blocks[b])
    <3>1. CASE blk = TrailerBlock
      <4>1. access = None /\ shown = Blank
        BY <1>4, <3>1
      <4>2. bytes = Trailer(granted[here]) /\ granted[here] \in Access
        BY <1>3, <1>6, <2>1, <3>1
      <4> HIDE DEF bytes
      <4>3. access' = granted[here]
        BY <2>2, <4>1, <4>2, TrailerIs
      <4>4. \A b \in Block : b # blk => shown'[b] = None
        BY <2>8, <4>1 DEF Blank
      <4> QED
        BY <2>7, <2>9, <2>10, <4>3, <4>4 DEF bytes
    <3>2. CASE blk # TrailerBlock
      <4>1. shown[TrailerBlock] # None
        BY <1>7, <2>8, <2>12, <3>2
      <4>2. access = granted[here]
        BY <1>5, <2>1, <2>12, <4>1
      <4>3. access' = granted[here]
        <5>1. granted[here] \in Access
          BY <1>3, <1>6, <2>1
        <5>2. access # None
          BY <4>2, <5>1, OpsConstants
        <5> QED
          BY <2>2, <4>2, <5>2
      <4>4. ASSUME NEW b \in Block, shown'[b] # None, b # blk
            PROVE  /\ shown'[b].access = granted[here][b]
                   /\ shown'[b].value # None => shown'[b].value = CardNumber(C.blocks[b])
        BY <1>5, <2>1, <2>8, <2>12, <4>1, <4>4
      <4>5. /\ shown'[blk].access = granted[here][blk]
            /\ shown'[blk].value # None => shown'[blk].value = CardNumber(C.blocks[blk])
        BY <2>7, <2>9, <2>10, <4>3
      <4> QED
        BY <4>3, <4>4, <4>5
    <3> QED
      BY <3>1, <3>2
  <2>13. here' = here /\ granted' = granted /\ swapped' = swapped /\ C'.blocks = C.blocks
    BY <1>2, <1>6, <2>1
  <2> QED
    BY <2>11, <2>12, <2>13 DEF DumpInv, Blank
<1> QED
  BY <1>8, <1>9

\* Every step keeps what is known of a dump.
LEMMA DumpStep ==
  ASSUME OpsInv, DumpInv, [Next]_vars
  PROVE  DumpInv'
<1>1. CASE UNCHANGED vars
  BY <1>1 DEF DumpInv, Blank, C, vars
<1>2. CASE CallBegins
  <2>1. ASSUME NEW o, NEW b, NEW a, NEW at, Begin(o, b, a, at), at # "dumpRead",
               at = "dumpAuth" <=> o = "dump"
        PROVE  DumpInv'
    <3>1. /\ call'.op = o /\ pc' = at /\ shown' = Blank /\ access' = None
      BY <2>1 DEF Begin
    <3>2. \A n \in Block : shown'[n] = None
      BY <3>1 DEF Blank
    <3>3. shown'[TrailerBlock] = None
      BY <3>2, FourBlocks
    <3> QED
      BY <3>1, <3>2, <3>3 DEF DumpInv, Blank
  <2> QED
    BY <1>2, <2>1 DEF CallBegins
<1>3. CASE IsNewCardPresent \/ ReadCardSerial \/ Authenticate \/ StopCrypto1
  <2>1. pc' = "free" /\ result' = FALSE
    BY <1>3 DEF IsNewCardPresent, ReadCardSerial, Authenticate, StopCrypto1, BetweenCalls
  <2> QED
    BY <2>1, DumpElse
<1>4. CASE DumpAuth
  <2>1. /\ pc = "dumpAuth" /\ UNCHANGED <<here, granted, swapped, shown, access, blk>>
        /\ call' = call
    BY <1>4 DEF DumpAuth, Reading, History
  <2>2. CASE pc' = "free" /\ result' = FALSE
    BY <2>2, DumpElse
  <2>3. CASE pc' = "dumpRead" /\ result' = result
    <3>1. here # None => C'.blocks = C.blocks
      BY <1>4, <2>1, StepDumpAuth, HereIs DEF C
    <3>2. call.op = "dump"
      BY <2>1 DEF OpsInv, CallInv
    <3> QED
      BY <2>1, <2>3, <3>1, <3>2 DEF DumpInv, Blank
  <2> QED
    BY <1>4, <2>2, <2>3 DEF DumpAuth, GoTo, Return
<1>5. CASE DumpRead
  BY <1>5, DumpReads
<1>6. CASE Exchanged
  <2>1. /\ UNCHANGED <<pc, shown, access, blk>> /\ call' = call /\ swapped' = TRUE
    BY <1>6 DEF Exchanged, Reading, History
  <2> QED
    BY <2>1 DEF DumpInv, Blank
<1>7. CASE Write1 \/ Write2 \/ TwoStep1 \/ TwoStep2 \/ Transfer \/ GetValue \/ UidAuth
             \/ UidRequest \/ UidSelect \/ UidAgain \/ UidRead \/ HaltA \/ Magic40 \/ Magic43 \/ Wake
  BY <1>7, DumpOthers, DumpElse
<1> QED
  BY <1>1, <1>2, <1>3, <1>4, <1>5, <1>6, <1>7 DEF Next

\* The access bits the dump shows are those the card was given, and the values are those
\* of its value blocks: PICC_DumpMifareClassicSectorToSerial goes from the trailer, whose
\* bits it keeps, down to the first block, and MIFARE_SetAccessBits made them.
THEOREM AccessIsShown == Spec => []AccessShown
<1>1. Init => DumpInv
  BY DEF Init, DumpInv, NoCall
<1>2. OpsInv /\ DumpInv /\ [Next]_vars => DumpInv'
  BY DumpStep
<1>3. DumpInv => AccessShown
  BY DEF DumpInv, AccessShown, Succeeded
<1> QED
  BY <1>1, <1>2, <1>3, OpsInvHolds, PTL DEF Spec
=============================================================================
