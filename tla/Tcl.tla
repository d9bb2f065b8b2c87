-------------------------------- MODULE Tcl --------------------------------
(***************************************************************************)
(* ISO/IEC 14443-4 in MFRC522Extended: activation by PICC_Select (ATS, PPS), *)
(* I-blocks with chained answers, and deselection, with one card at a time   *)
(* in the field.  A step is an exchange as module Exchange promises it: the  *)
(* frame or its answer may be lost, but an answer is that of this frame.     *)
(* That takes a card which answers within the 25 ms of the reader's timer,   *)
(* and no damage that parity misses once the chip does the CRC: nobody looks *)
(* at the CRCErr bit.                                                        *)
(*                                                                           *)
(* Speeds are 0 for 106 and 1 for 212 kBaud.                                 *)
(***************************************************************************)
EXTENDS Integers, Sequences

CONSTANTS
  Kinds,     \* the cards: whether they know ISO 14443-4, T0 and interface bytes of
             \* the ATS, whether they take a CID, the speeds they switch to
  MaxCalls,  \* bound: calls of TCL_Transceive
  MaxChunks, \* bound: blocks of a chained answer
  Rooms      \* the sizes of the caller's buffer, in blocks

Speed == {0, 1}

ASSUME TclConstants ==
  /\ Kinds \subseteq [iso : BOOLEAN, t0 : 0 .. 127, bytes : Seq(0 .. 255), cid : BOOLEAN,
                      speeds : SUBSET (Speed \X Speed)]
  /\ MaxCalls \in Nat /\ MaxChunks \in Nat \ {0} /\ Rooms \subseteq Nat

VARIABLES
  pc,     \* where the driver is; "ready" when a card is selected
  tx, rx, \* TxModeReg and RxModeReg: speed, and CRC by the chip
  ats,    \* the local Ats of PICC_Select
  block,  \* tag.blockNumber
  call,   \* the number of the last command
  room,   \* totalBackLen
  back,   \* backData: the blocks <<command, number>> of answers
  status, \* what TCL_Transceive returned: "OK" or "failed"
  card,   \* the card in the field
  calm    \* history: nothing was lost and no card taken away in this session

vars == <<pc, tx, rx, ats, block, call, room, back, status, card, calm>>

Mode == [speed : Speed, crc : BOOLEAN]
Ats  == [ds : 0 .. 7, dr : 0 .. 7, fwi : 0 .. 15, sfgi : 0 .. 15, cid : BOOLEAN, nad : BOOLEAN]
Card ==
  [kind : Kinds, state : {"gone", "idle", "ready", "active", "protocol", "halt"},
   snd : Speed, rcv : Speed, \* its speeds
   num : {0, 1},             \* its block number
   fresh : BOOLEAN,          \* it received no PPS and no block yet: a PPS is in order
   of : 0 .. MaxCalls, sent : 0 .. MaxChunks, left : 0 .. MaxChunks] \* its answer

\* Every variable holds a value of its type.
TypeOK ==
  /\ pc \in {"idle", "request", "select", "rats", "halt", "short", "pps", "ready", "ack",
            "crashed"}
  /\ tx \in Mode /\ rx \in Mode /\ ats \in Ats /\ block \in {0, 1}
  /\ call \in 0 .. MaxCalls /\ room \in Nat /\ back \in Seq((1 .. MaxCalls) \X (1 .. MaxChunks))
  /\ Len(back) <= room
  /\ status \in {"none", "OK", "failed"} /\ card \in Card /\ calm \in BOOLEAN

-----------------------------------------------------------------------------
(* The ATS *)

Has(byte, mask) == (byte \div mask) % 2 = 1

\* The i-th interface byte; the buffer was cleared before.
ByteAt(bytes, i) == IF i <= Len(bytes) THEN bytes[i] ELSE 0

Count(set) == IF set THEN 1 ELSE 0

\* The fields of an ATS in which ta1, tb1 and tc1 say which bytes are there.
Fields(bytes, ta1, tb1, tc1) ==
  LET a == ByteAt(bytes, 1)
      b == ByteAt(bytes, 1 + Count(ta1))
      c == ByteAt(bytes, 1 + Count(ta1) + Count(tb1))
  IN  [ds   |-> IF ta1 THEN (a \div 16) % 8 ELSE 0,
       dr   |-> IF ta1 THEN a % 8 ELSE 0,
       fwi  |-> IF tb1 THEN b \div 16 ELSE 0,
       sfgi |-> IF tb1 THEN b % 16 ELSE 0,
       cid  |-> tc1 => Has(c, 2),
       nad  |-> tc1 /\ Has(c, 1)]

\* PICC_RequestATS takes 0x40 of T0 for TA1 and 0x10 for TC1.
DecodeAts(t0, bytes) == Fields(bytes, Has(t0, 64), Has(t0, 32), Has(t0, 16))

-----------------------------------------------------------------------------
Slow == [speed |-> 0, crc |-> FALSE]
Idle(kind) == [kind |-> kind, state |-> "idle", snd |-> 0, rcv |-> 0, num |-> 1,
               fresh |-> TRUE, of |-> 0, sent |-> 0, left |-> 0]

Init ==
  /\ pc = "idle" /\ tx = Slow /\ rx = Slow /\ block = 0
  /\ ats = Fields(<<>>, FALSE, FALSE, FALSE)
  /\ call = 0 /\ room = 0 /\ back = <<>> /\ status = "none" /\ calm = TRUE
  /\ card \in {[Idle(k) EXCEPT !.state = "gone"] : k \in Kinds}

\* The frame reaches a card in this state; frames before the protocol's carry
\* their CRC, or none.
Audible(state) == card.state = state /\ card.rcv = tx.speed
Plain(state) == Audible(state) /\ ~tx.crc

\* The three ways an exchange ends, of a frame that the card hears if heard: it
\* becomes after, and its answer arrives, if sent as fast as the reader receives;
\* the answer is not received, which is a loss only if it is sent that fast; the
\* frame is lost.
Answered(heard, after) ==
  heard /\ card.snd = rx.speed /\ card' = after /\ UNCHANGED calm
AnswerLost(heard, after) ==
  heard /\ card' = after /\ calm' = (calm /\ card.snd # rx.speed)
Unheard(heard) == UNCHANGED card /\ calm' = (calm /\ ~heard)
NoAnswer(heard, after) == AnswerLost(heard, after) \/ Unheard(heard)

\* A slip: the speeds are left as the last card had them.
ResetModes_TxOnly == tx' = Slow /\ UNCHANGED rx

ResetModes == tx' = Slow /\ rx' = Slow

\* PICC_IsNewCardPresent resets the speeds ...
IsNewCardPresent ==
  /\ pc \in {"idle", "ready"} /\ pc' = "request"
  /\ ResetModes /\ calm' = TRUE
  /\ UNCHANGED <<ats, block, call, room, back, status, card>>

\* ... sends REQA, and resets the tag if there is an answer.
RequestA ==
  /\ pc = "request"
  /\ LET heard == Plain("idle")
         after == [card EXCEPT !.state = "ready"]
     IN  \/ Answered(heard, after) /\ pc' = "select" /\ block' = 0
         \/ NoAnswer(heard, after) /\ pc' = "idle" /\ UNCHANGED block
  /\ UNCHANGED <<tx, rx, ats, call, room, back, status>>

\* PICC_Select up to the SAK; (sak & 0x24) == 0x20 says ISO 14443-4.
Select ==
  /\ pc = "select"
  /\ LET heard == Plain("ready")
         after == [card EXCEPT !.state = "active"]
     IN  \/ Answered(heard, after) /\ pc' = (IF card.kind.iso THEN "rats" ELSE "ready")
         \/ NoAnswer(heard, after) /\ pc' = "idle"
  /\ UNCHANGED <<tx, rx, ats, block, call, room, back, status>>

\* An ATS starts the protocol; PPS follows if the ATS is taken to have TA1.  If
\* the chip does not get the frame's CRC done, nothing is sent; if the answer is
\* lost, bufferSize is still that of the buffer, and if it is damaged and shorter
\* than its CRC, bufferSize is 0 or 1.  PICC_Select returns STATUS_OK in any case.
RequestATS ==
  /\ pc = "rats"
  /\ LET heard == Plain("active")
         after == [card EXCEPT !.state = "protocol", !.num = 1, !.fresh = TRUE]
     IN  \/ /\ Answered(heard, after)
            /\ ats' = DecodeAts(card.kind.t0, card.kind.bytes)
            /\ pc' = IF Has(card.kind.t0, 64) THEN "pps" ELSE "ready"
         \/ NoAnswer(heard, after) /\ pc' = "halt" /\ UNCHANGED ats
         \/ AnswerLost(heard, after) /\ pc' = "short" /\ UNCHANGED ats
         \/ Unheard(heard) /\ pc' = "ready" /\ UNCHANGED ats
  /\ UNCHANGED <<tx, rx, block, call, room, back, status>>

\* Without an ATS the card is halted, if it still listens to that; memcpy then
\* copies bufferSize - 2 bytes, which may be a negative number.
RatsHalt ==
  /\ \/ pc = "halt" /\ pc' = "ready"
     \/ pc = "short" /\ pc' = "crashed"
  /\ \/ AnswerLost(Plain("active"), [card EXCEPT !.state = "halt"])
     \/ Unheard(Plain("active"))
  /\ UNCHANGED <<tx, rx, ats, block, call, room, back, status>>

\* A slip: the two directions mixed up.
Switch_Swapped(ds, dr) ==
  tx' = [speed |-> ds, crc |-> TRUE] /\ rx' = [speed |-> dr, crc |-> TRUE]

\* What the reader sends at is what the card receives at, and the other way round.
Switch(ds, dr) ==
  tx' = [speed |-> dr, crc |-> TRUE] /\ rx' = [speed |-> ds, crc |-> TRUE]

\* The card confirms one PPS, before any other block, and switches to its speeds
\* if it has them.
TakesPps == Plain("protocol") /\ card.fresh
TakesSpeeds(ds, dr) == TakesPps /\ <<ds, dr>> \in card.kind.speeds

\* PICC_PPS with the speeds of TA1, of which only 212 kBaud is tried; its result
\* is not looked at.
PPS ==
  /\ pc = "pps" /\ pc' = "ready"
  /\ LET ds == ats.ds % 2
         dr == ats.dr % 2
         after == [card EXCEPT !.snd = ds, !.rcv = dr, !.fresh = FALSE]
     IN  \/ Answered(TakesSpeeds(ds, dr), after) /\ Switch(ds, dr)
         \/ NoAnswer(TakesSpeeds(ds, dr), after) /\ UNCHANGED <<tx, rx>>
  /\ UNCHANGED <<ats, block, call, room, back, status>>

\* PICC_PPS() without speeds leaves them alone and has the chip do the CRC.
PlainPPS ==
  /\ pc = "ready"
  /\ LET after == [card EXCEPT !.fresh = FALSE]
     IN  \/ /\ Answered(TakesPps, after)
            /\ tx' = [tx EXCEPT !.crc = TRUE] /\ rx' = [rx EXCEPT !.crc = TRUE]
         \/ NoAnswer(TakesPps, after) /\ UNCHANGED <<tx, rx>>
  /\ UNCHANGED <<pc, ats, block, call, room, back, status>>

-----------------------------------------------------------------------------
(* Blocks *)

\* tag.ats is never set from the card's ATS, so that its default, CIDs are
\* supported, stands: a card that takes none ignores the block.
HearsBlocks == Audible("protocol") /\ card.kind.cid

\* The card runs the command, whatever the block's number, and its answer has k
\* blocks.
Runs(k) == [card EXCEPT !.num = 1 - @, !.of = call + 1, !.sent = 1, !.left = k - 1,
                        !.fresh = FALSE]

\* Only the first block of an answer says so to the loop: an answer of several
\* blocks is collected until an error ends it, and never returned with STATUS_OK.
Chained(k) == k > 1

NoRoom(len, total) == len > total

\* TCL_Transceive: an I-block.
TransceiveFails ==
  /\ pc = "ready" /\ call < MaxCalls
  /\ call' = call + 1 /\ status' = "failed" /\ back' = <<>> /\ room' \in Rooms
  /\ \E k \in 1 .. MaxChunks : NoAnswer(HearsBlocks, Runs(k))
  /\ UNCHANGED <<pc, tx, rx, ats, block>>

Transceive ==
  /\ pc = "ready" /\ call < MaxCalls
  /\ call' = call + 1 /\ block' = 1 - block /\ room' \in Rooms
  /\ \E k \in 1 .. MaxChunks :
       /\ Answered(HearsBlocks, Runs(k))
       /\ IF NoRoom(1, room')
          THEN back' = <<>> /\ status' = "failed" /\ UNCHANGED pc
          ELSE /\ back' = << <<call', 1>> >>
               /\ IF Chained(k)
                  THEN pc' = "ack" /\ status' = "none"
                  ELSE status' = "OK" /\ UNCHANGED pc
  /\ UNCHANGED <<tx, rx, ats>>

\* An R(ACK) with the card's own number asks for its last block again; with the
\* other one, for the next.
NextBlock == [card EXCEPT !.num = 1 - @, !.sent = @ + 1, !.left = @ - 1, !.fresh = FALSE]
SendsAgain == HearsBlocks /\ block = card.num /\ card.sent > 0
SendsNext  == HearsBlocks /\ block # card.num /\ card.left > 0

\* A slip: an acknowledgement that fails is tried again.
AckFails_Retry ==
  /\ pc = "ack"
  /\ NoAnswer(SendsNext, NextBlock) \/ NoAnswer(SendsAgain, card)
  /\ UNCHANGED <<pc, tx, rx, ats, block, call, room, back, status>>

\* A slip: the number is swapped before the result is looked at, and the next block
\* asked for all the same.
AckFails_Swapped ==
  /\ pc = "ack" /\ block' = 1 - block
  /\ NoAnswer(SendsNext, NextBlock) \/ NoAnswer(SendsAgain, card)
  /\ UNCHANGED <<pc, tx, rx, ats, call, room, back, status>>

\* TCL_TransceiveRBlock in the loop that collects a chained answer.
AckFails ==
  /\ pc = "ack" /\ pc' = "ready" /\ status' = "failed"
  /\ NoAnswer(SendsNext, NextBlock) \/ NoAnswer(SendsAgain, card)
  /\ UNCHANGED <<tx, rx, ats, block, call, room, back>>

\* A slip: TCL_TransceiveRBlock leaves the block number as it was.
Toggled_Kept == block

Toggled == 1 - block

\* The loop goes on, whatever block arrives: it looks at the first one only.
AckAnswered ==
  /\ pc = "ack" /\ block' = Toggled
  /\ Answered(SendsNext, NextBlock) \/ Answered(SendsAgain, card)
  /\ IF NoRoom(Len(back) + 1, room)
     THEN pc' = "ready" /\ status' = "failed" /\ UNCHANGED back
     ELSE back' = Append(back, <<card'.of, card'.sent>>) /\ UNCHANGED <<pc, status>>
  /\ UNCHANGED <<tx, rx, ats, call, room>>

\* TCL_Deselect adds no CRC: the card hears the block if the chip does.
Deselect ==
  /\ pc = "ready"
  /\ LET heard == HearsBlocks /\ tx.crc
         after == [card EXCEPT !.state = "halt", !.snd = 0, !.rcv = 0]
     IN  Answered(heard, after) \/ NoAnswer(heard, after)
  /\ UNCHANGED <<pc, tx, rx, ats, block, call, room, back, status>>

\* PCD_Init, also of a restarted process: the field is off for a while.
PcdInit ==
  /\ pc \in {"ready", "idle", "crashed"} /\ pc' = "idle"
  /\ tx' = Slow /\ rx' = Slow
  /\ card' = IF card.state = "gone" THEN card ELSE Idle(card.kind)
  /\ UNCHANGED <<ats, block, call, room, back, status, calm>>

-----------------------------------------------------------------------------
Leaves ==
  /\ card.state # "gone" /\ card' = [card EXCEPT !.state = "gone"] /\ calm' = FALSE
  /\ UNCHANGED <<pc, tx, rx, ats, block, call, room, back, status>>

Arrives(kind) ==
  /\ card.state = "gone" /\ card' = Idle(kind) /\ calm' = FALSE
  /\ UNCHANGED <<pc, tx, rx, ats, block, call, room, back, status>>

Ack == AckFails \/ AckAnswered

Next ==
  \/ IsNewCardPresent \/ RequestA \/ Select \/ RequestATS \/ RatsHalt
  \/ PPS \/ PlainPPS \/ TransceiveFails \/ Transceive \/ Ack \/ Deselect \/ PcdInit
  \/ Leaves \/ \E k \in Kinds : Arrives(k)

Spec == Init /\ [][Next]_vars

\* A call goes on to its end.
FairSpec == Spec /\ WF_vars(Ack)

-----------------------------------------------------------------------------
(* Properties *)

\* What TCL_Transceive has put together in backData, at every turn of its loop and
\* however it ends, are blocks of the answer to this command, from the first one on
\* and none left out, whatever was lost before and however far the two block numbers
\* are out of step; and while nothing was lost, no block comes twice.
ChainInOrder ==
  \A i \in 1 .. Len(back) :
    /\ back[i][1] = call
    /\ back[i][2] \in IF i = 1 THEN {1} ELSE {back[i - 1][2], back[i - 1][2] + 1}
    /\ pc = "ack" /\ calm => back[i][2] = i

\* As long as nothing is lost, the reader's block number stays one ahead of the
\* card's, through answers, chains and commands that fail for want of room.
InStep == calm /\ card.state = "protocol" /\ pc \in {"ready", "ack"} => block # card.num

\* The reader sends or receives faster only with the chip's CRC on in both
\* directions, and it talks to a card in the protocol as fast as the card does.
\* There is one exception, which nothing in the code repairs: the card confirmed a
\* PPS and switched, and the reader, which lost the confirmation, did neither.
ModesAgree ==
  /\ tx.crc = rx.crc
  /\ tx.speed > 0 \/ rx.speed > 0 => tx.crc
  /\ card.state = "protocol" /\ pc \in {"ready", "ack"} =>
       \/ tx.speed = card.rcv /\ rx.speed = card.snd
       \/ /\ tx = Slow /\ rx = Slow /\ ~calm
          /\ ~card.fresh /\ <<card.snd, card.rcv>> \in card.kind.speeds

\* Whatever speed and CRC mode the last card was left with, a new card in the field
\* is found by the next REQA, unless a frame is lost.
NewCardFound ==
  [][pc = "request" /\ pc' = "idle" /\ card.state = "idle" => ~calm']_vars

\* The loop that collects a chained answer ends.
ChainEnds == pc = "ack" ~> pc # "ack"
=============================================================================
