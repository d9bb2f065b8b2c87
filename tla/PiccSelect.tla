----------------------------- MODULE PiccSelect -----------------------------
(***************************************************************************)
(* PICC_Select: the anticollision loop that singles out one of the cards in *)
(* state READY and learns its UID, 32 bits per cascade level.  The reader   *)
(* calls MFRC522Extended::PICC_Select, an override of MFRC522::PICC_Select; *)
(* the two differ in which bit they set after a collision; extended says    *)
(* which one runs.  Both are called without known UID bits.                 *)
(*                                                                          *)
(* A cascade level of a UID, and the bytes 2 to 5 of the buffer, are the    *)
(* set of the bit positions, 1 to 32, that hold a one, in the order of      *)
(* transmission: position p is bit (p - 1) % 8 of byte 2 + (p - 1) \div 8.  *)
(***************************************************************************)
EXTENDS Integers, Sequences, FiniteSets

CONSTANTS
  Card,     \* the cards
  Uid,      \* each card's UID: one to three cascade levels
  Versions  \* which of the two functions may run: TRUE is the override

Bit      == 1 .. 32
ByteBits == 8

\* The first byte of a level that another level follows: PICC_CMD_CT, 0x88.
CascadeTag == {4, 8}

ASSUME SelectConstants ==
  /\ Uid \in [Card -> Seq(SUBSET Bit)]
  /\ \A c \in Card :
       /\ Len(Uid[c]) \in 1 .. 3
       /\ \A i \in 1 .. Len(Uid[c]) :
            i < Len(Uid[c]) <=> Uid[c][i] \cap (1 .. ByteBits) = CascadeTag
  /\ \A c, d \in Card : Uid[c] = Uid[d] => c = d
  /\ Versions \subseteq BOOLEAN

VARIABLES
  extended, \* the override runs
  state,  \* "busy", or what PICC_Select returned: "ok" or "error"
  level,  \* cascadeLevel
  known,  \* currentLevelKnownBits
  buffer, \* bytes 2 to 5 of buffer
  uid,    \* the levels copied to uid->uidByte
  ready,  \* the cards that still take part; when "ok", the selected ones
  calm    \* history: no card left and no frame was lost

vars == <<extended, state, level, known, buffer, uid, ready, calm>>

\* Every variable holds a value of its type.
TypeOK ==
  /\ state \in {"busy", "ok", "error"}
  /\ level \in 1 .. 3 /\ known \in 0 .. 32
  /\ buffer \subseteq Bit
  /\ uid \in Seq(SUBSET Bit)
  /\ ready \subseteq Card /\ calm \in BOOLEAN /\ extended \in Versions

Init ==
  /\ state = "busy" /\ level = 1 /\ known = 0 /\ uid = <<>>
  /\ buffer = {}
  /\ ready \in SUBSET Card /\ ready # {}
  /\ calm = TRUE /\ extended \in Versions

-----------------------------------------------------------------------------
\* The first n bits.
Prefix(bits, n) == bits \cap (1 .. n)

\* A card's bits in this cascade level.
Bits(c) == Uid[c][level]

\* The cards that answer a frame with the known bits; the others fall back to
\* IDLE.
Answering == {c \in ready : Prefix(Bits(c), known) = Prefix(buffer, known)}

\* The positions at which those cards' answers collide.
Collisions ==
  LET sent == {Bits(c) : c \in Answering}
  IN  {p \in UNION sent : p > known /\ \E bits \in sent : p \notin bits}

FirstCollision ==
  LET all == Collisions IN CHOOSE p \in all : \A q \in all : p <= q

\* A slip: the bit is shifted by the count that selects the byte.
BitToSet_ByCount(pos) ==
  LET count == pos % ByteBits
      index == 1 + pos \div ByteBits + (IF count # 0 THEN 1 ELSE 0)
  IN  ByteBits * (index - 2) + count + 1

\* The bit position that buffer[index] |= 1 << ... sets when the answers collide
\* at pos; index 1 is the NVB byte and index 6 the BCC, both written anew.
BitToSet(pos) ==
  LET checkBit == (pos - 1) % ByteBits
      count    == IF extended THEN checkBit ELSE pos % ByteBits
      index    == 1 + pos \div ByteBits + (IF count # 0 THEN 1 ELSE 0)
  IN  ByteBits * (index - 2) + checkBit + 1

\* What the buffer holds after the answers agreed up to position n: the known
\* bits and the received ones, the later ones cleared (ValuesAfterColl = 0).
Received(n) ==
  UNION {Prefix(buffer, known) \cup (Prefix(Bits(c), n) \ (1 .. known)) :
           c \in Answering}

-----------------------------------------------------------------------------
\* ANTICOLLISION: nobody answers ...
AnticollisionTimeout ==
  /\ state = "busy" /\ known < 32
  /\ Answering = {}
  /\ state' = "error" /\ ready' = {}
  /\ UNCHANGED <<extended, level, known, buffer, uid, calm>>

\* A slip: the number of known bits is not updated.
AnticollisionCollides_NoProgress ==
  /\ state = "busy" /\ known < 32
  /\ Collisions # {}
  /\ LET pos == FirstCollision
     IN  buffer' = (Received(pos - 1) \cup {BitToSet(pos)}) \cap Bit
  /\ ready' = Answering
  /\ UNCHANGED <<extended, state, level, known, uid, calm>>

\* ... the answers collide: go on with those that have the bit just set ...
AnticollisionCollides ==
  /\ state = "busy" /\ known < 32
  /\ Collisions # {}
  /\ LET pos == FirstCollision
     IN  /\ known' = pos
         /\ buffer' = (Received(pos - 1) \cup {BitToSet(pos)}) \cap Bit
  /\ ready' = Answering
  /\ UNCHANGED <<extended, state, level, uid, calm>>

\* ... or all 32 bits arrive.
AnticollisionDone ==
  /\ state = "busy" /\ known < 32
  /\ Answering # {} /\ Collisions = {}
  /\ known' = 32 /\ buffer' = Received(32)
  /\ ready' = Answering
  /\ UNCHANGED <<extended, state, level, uid, calm>>

\* A slip: SELECT is not followed by another cascade level.
Select_FirstLevelOnly ==
  /\ state = "busy" /\ known = 32
  /\ ready' = Answering
  /\ IF Answering = {}
     THEN state' = "error" /\ UNCHANGED <<level, known, uid>>
     ELSE uid' = Append(uid, buffer) /\ state' = "ok" /\ UNCHANGED <<level, known>>
  /\ UNCHANGED <<extended, buffer, calm>>

\* SELECT: the card answers with its SAK, whose cascade bit says whether there
\* is another level, or nobody does.
Select ==
  /\ state = "busy" /\ known = 32
  /\ ready' = Answering
  /\ IF Answering = {}
     THEN state' = "error" /\ UNCHANGED <<level, known, uid>>
     ELSE /\ uid' = Append(uid, buffer)
          /\ IF \E c \in Answering : level < Len(Uid[c])
             THEN level' = level + 1 /\ known' = 0 /\ UNCHANGED state
             ELSE state' = "ok" /\ UNCHANGED <<level, known>>
  /\ UNCHANGED <<extended, buffer, calm>>

\* Any other result of PCD_TransceiveData is returned.
FrameLost ==
  /\ state = "busy" /\ state' = "error" /\ calm' = FALSE
  /\ ready' \in SUBSET ready
  /\ UNCHANGED <<extended, level, known, buffer, uid>>

\* A card is taken away.
Leaves(c) ==
  /\ state = "busy" /\ c \in ready
  /\ ready' = ready \ {c} /\ calm' = FALSE
  /\ UNCHANGED <<extended, state, level, known, buffer, uid>>

SelectStep ==
  \/ AnticollisionTimeout \/ AnticollisionCollides \/ AnticollisionDone \/ Select

Next == SelectStep \/ FrameLost \/ \E c \in Card : Leaves(c)

Spec == Init /\ [][Next]_vars

\* The function goes on as long as it has not returned.
FairSpec == Spec /\ WF_vars(SelectStep)

-----------------------------------------------------------------------------
(* Properties *)

\* If PICC_Select returns STATUS_OK, exactly one card is selected, and uid is
\* that card's complete UID, although every level was learnt from several cards
\* answering at once and cards were taken away meanwhile.
SelectsOne ==
  state = "ok" => \E c \in ready : ready = {c} /\ uid = Uid[c]

\* PICC_Select returns: every round of the loop gains at least one bit, so that
\* "No progress - should not happen" does not.
Returns == <>(state # "busy")

\* The function of the base class fails only if a card is taken away or a frame
\* is lost, whichever UIDs collide.  (The override does not keep this: see
\* BitToSet.)
BaseFailsOnlyIfDisturbed == (~extended /\ state = "error") => ~calm
=============================================================================
