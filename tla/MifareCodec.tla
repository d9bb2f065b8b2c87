---------------------------- MODULE MifareCodec ----------------------------
(***************************************************************************)
(* The encodings of the MFRC522 driver, on bytes as they are: value blocks,  *)
(* access bits, the geometry of sectors, the BCC of a UID.  The shifts and    *)
(* masks of the code are \div and % here; \div rounds down, so that both see  *)
(* a negative int32_t in two's complement.                                    *)
(***************************************************************************)
EXTENDS Integers, Sequences, FiniteSets

Byte  == 0 .. 255
Int32 == {v \in Int : -2147483647 - 1 <= v /\ v <= 2147483647}

Bit(x, mask) == (x \div mask) % 2

-----------------------------------------------------------------------------
(* Value blocks *)

\* A slip: division that rounds towards zero.
ValueBytes_Truncated(v) ==
  LET w == IF v < 0 THEN -v ELSE v
  IN  <<v % 256, (w \div 256) % 256, (w \div 65536) % 256, (w \div 16777216) % 256>>

\* An int32_t in memory: the lowest byte first.
ValueBytes(v) ==
  <<v % 256, (v \div 256) % 256, (v \div 65536) % 256, (v \div 16777216) % 256>>

Inverted(bytes) == [i \in DOMAIN bytes |-> 255 - bytes[i]]

\* The 16 bytes MIFARE_SetValue writes.
ValueBlock(v, addr) ==
  ValueBytes(v) \o Inverted(ValueBytes(v)) \o ValueBytes(v)
    \o <<addr, 255 - addr, addr, 255 - addr>>

\* What MIFARE_GetValue and the dump make of the bytes of a block.
ReadValue(bytes) ==
  LET top == IF bytes[4] >= 128 THEN bytes[4] - 256 ELSE bytes[4]
  IN  top * 16777216 + bytes[3] * 65536 + bytes[2] * 256 + bytes[1]

\* What the card makes of it: a value block has its value three times, once
\* inverted, and its address four times, twice inverted.
IsValueBlock(block) ==
  /\ SubSeq(block, 9, 12) = SubSeq(block, 1, 4)
  /\ SubSeq(block, 5, 8) = Inverted(SubSeq(block, 1, 4))
  /\ block[15] = block[13] /\ block[14] = 255 - block[13] /\ block[16] = block[14]

\* A negative number -n is stored as the complement of n - 1.
CardNumber(bytes) ==
  LET Magnitude(b) == ((b[4] * 256 + b[3]) * 256 + b[2]) * 256 + b[1]
  IN  IF bytes[4] < 128 THEN Magnitude(bytes) ELSE -1 - Magnitude(Inverted(bytes))

-----------------------------------------------------------------------------
(* Access bits: one tuple [C1 C2 C3], a number of 0 .. 7, for each group of a *)
(* sector's blocks                                                            *)

Access == [0 .. 3 -> 0 .. 7]

\* One bit of each of the four tuples.
Nibble(g, mask) ==
  Bit(g[0], mask) + 2 * Bit(g[1], mask) + 4 * Bit(g[2], mask) + 8 * Bit(g[3], mask)

\* A slip: C2 and C3 swapped in the last byte.
SetAccessBits_Swapped(g) ==
  LET c1 == Nibble(g, 4)
      c2 == Nibble(g, 2)
      c3 == Nibble(g, 1)
  IN  <<(15 - c2) * 16 + (15 - c1), c1 * 16 + (15 - c3), c2 * 16 + c3>>

\* Bytes 6, 7 and 8 of a sector's trailer.
SetAccessBits(g) ==
  LET c1 == Nibble(g, 4)
      c2 == Nibble(g, 2)
      c3 == Nibble(g, 1)
  IN  <<(15 - c2) * 16 + (15 - c1), c1 * 16 + (15 - c3), c3 * 16 + c2>>

\* PICC_DumpMifareClassicSectorToSerial takes them apart again ...
ParseAccessBits(b) ==
  LET mask(o) == <<1, 2, 4, 8>>[o + 1]
  IN  [o \in 0 .. 3 |-> 4 * Bit(b[2] \div 16, mask(o)) + 2 * Bit(b[3] % 16, mask(o))
                          + Bit(b[3] \div 16, mask(o))]

\* ... and checks that they were inverted.
InvertedError(b) ==
  \/ b[2] \div 16 # 15 - (b[1] % 16)
  \/ b[3] % 16 # 15 - (b[1] \div 16)
  \/ b[3] \div 16 # 15 - (b[2] % 16)

-----------------------------------------------------------------------------
(* Sectors *)

NoOfBlocks(sector) == IF sector < 32 THEN 4 ELSE 16
FirstBlock(sector) == IF sector < 32 THEN sector * 4 ELSE 128 + (sector - 32) * 16

\* The group of access bits of a block of a sector.
Group(blocks, offset) == IF blocks = 4 THEN offset ELSE offset \div 5

-----------------------------------------------------------------------------
(* UIDs *)

\* The XOR of the bytes: a bit of it is set if an odd number of them have it.
Bcc(uid) ==
  LET bit(mask) == mask * (Cardinality({i \in DOMAIN uid : Bit(uid[i], mask) = 1}) % 2)
  IN  bit(1) + bit(2) + bit(4) + bit(8) + bit(16) + bit(32) + bit(64) + bit(128)

\* A slip: the BCC is left as it was.
NewBlock0_OldBcc(block0, uid) == uid \o SubSeq(block0, Len(uid) + 1, 16)

\* Block 0 with a new UID of any length, its BCC behind it.
NewBlock0(block0, uid) == uid \o <<Bcc(uid)>> \o SubSeq(block0, Len(uid) + 2, 16)

\* What MIFARE_UnbrickUidSector writes.
UnbrickBlock0 == <<1, 2, 3, 4, 4, 8, 4>> \o [i \in 1 .. 9 |-> 0]
=============================================================================
