----------------------------- MODULE TclProofs -----------------------------
(***************************************************************************)
(* Proofs about Tcl, for any cards, any number of calls and chunks and any  *)
(* sizes of the caller's buffer.                                            *)
(***************************************************************************)
EXTENDS Tcl, SequenceTheorems, TLAPS

\* Whichever bytes the card sends, the fields of its ATS fit theirs.
LEMMA FieldsFit ==
  ASSUME NEW bytes \in Seq(0 .. 255), NEW ta1 \in BOOLEAN, NEW tb1 \in BOOLEAN,
         NEW tc1 \in BOOLEAN
  PROVE  Fields(bytes, ta1, tb1, tc1) \in Ats
<1> DEFINE a == ByteAt(bytes, 1)
           b == ByteAt(bytes, 1 + Count(ta1))
           c == ByteAt(bytes, 1 + Count(ta1) + Count(tb1))
<1>1. \A i \in Nat \ {0} : ByteAt(bytes, i) \in 0 .. 255
  BY ElementOfSeq, LenProperties DEF ByteAt
<1>2. a \in 0 .. 255 /\ b \in 0 .. 255 /\ c \in 0 .. 255
  <2>1. Count(ta1) \in {0, 1} /\ Count(tb1) \in {0, 1}
    BY DEF Count
  <2>2. /\ 1 + Count(ta1) \in Nat \ {0}
        /\ 1 + Count(ta1) + Count(tb1) \in Nat \ {0}
    BY <2>1
  <2> QED
    BY <1>1, <2>2
<1> HIDE DEF a, b, c
<1>3. /\ (IF ta1 THEN (a \div 16) % 8 ELSE 0) \in 0 .. 7
      /\ (IF ta1 THEN a % 8 ELSE 0) \in 0 .. 7
      /\ (IF tb1 THEN b \div 16 ELSE 0) \in 0 .. 15
      /\ (IF tb1 THEN b % 16 ELSE 0) \in 0 .. 15
  BY <1>2
<1>4. (tc1 => Has(c, 2)) \in BOOLEAN /\ (tc1 /\ Has(c, 1)) \in BOOLEAN
  BY Zenon
<1> QED
  BY <1>3, <1>4, Zenon DEF Fields, Ats, a, b, c

-----------------------------------------------------------------------------
\* The card's block counters fit its answer, which has a command.
CardInv ==
  /\ card.sent + card.left <= MaxChunks
  /\ card.sent > 0 \/ card.left > 0 => card.of > 0
  /\ card.state \in {"idle", "ready", "active"} => card.snd = 0 /\ card.rcv = 0

\* Only a selected card is talked to faster; on the way there it has no speeds yet.
ModeInv ==
  /\ pc \notin {"ready", "ack"} => tx = Slow /\ rx = Slow
  /\ pc \in {"select", "rats"} => card.state # "protocol"
  /\ pc \in {"halt", "short", "pps"} /\ card.state = "protocol" =>
       card.snd = 0 /\ card.rcv = 0
  /\ pc \in {"select", "rats", "pps"} => block = 0
  /\ ModesAgree

\* As long as nothing was lost the reader knows in which state the card is.
CalmInv ==
  calm =>
    /\ pc \notin {"halt", "short", "crashed"}
    /\ pc = "select" => card.state = "ready"
    /\ pc = "rats" => card.state = "active"
    /\ pc = "pps" => card.state = "protocol" /\ card.num = 1
    /\ pc = "ack" => card.state = "protocol"
    /\ pc \in {"ready", "ack"} /\ card.state = "protocol" => block # card.num

\* While an answer is collected, the last block in backData is the card's last one.
AnswerInv ==
  /\ pc = "ack" =>
       /\ Len(back) > 0
       /\ card.state = "protocol" => card.of = call /\ card.sent = back[Len(back)][2]
  /\ ChainInOrder

TclInv == TypeOK /\ CardInv /\ ModeInv /\ CalmInv /\ AnswerInv

\* What the field holds, after any of the steps, is a card.
LEMMA CardKept ==
  ASSUME card \in Card
  PROVE  /\ card.kind \in Kinds /\ card.kind.iso \in BOOLEAN /\ card.kind.cid \in BOOLEAN
         /\ \A s \in {"gone", "ready", "active", "halt", "protocol"} :
              [card EXCEPT !.state = s] \in Card
         /\ [card EXCEPT !.state = "protocol", !.num = 1, !.fresh = TRUE] \in Card
         /\ [card EXCEPT !.state = "halt", !.snd = 0, !.rcv = 0] \in Card
         /\ \A ds, dr \in Speed : [card EXCEPT !.snd = ds, !.rcv = dr, !.fresh = FALSE] \in Card
         /\ [card EXCEPT !.fresh = FALSE] \in Card
<1> USE DEF Card, Speed
<1>1. card.kind \in Kinds
  OBVIOUS
<1>2. card.kind.iso \in BOOLEAN /\ card.kind.cid \in BOOLEAN
  BY <1>1, TclConstants
<1>3. \A s \in {"gone", "ready", "active", "halt", "protocol"} : [card EXCEPT !.state = s] \in Card
  OBVIOUS
<1>4. [card EXCEPT !.state = "protocol", !.num = 1, !.fresh = TRUE] \in Card
  OBVIOUS
<1>5. [card EXCEPT !.fresh = FALSE] \in Card
  OBVIOUS
<1>6. [card EXCEPT !.state = "halt", !.snd = 0, !.rcv = 0] \in Card
  OBVIOUS
<1>7. \A ds, dr \in Speed : [card EXCEPT !.snd = ds, !.rcv = dr, !.fresh = FALSE] \in Card
  OBVIOUS
<1> QED
  BY <1>1, <1>2, <1>3, <1>4, <1>5, <1>6, <1>7

\* A new card in the field is a card.
LEMMA IdleCard == \A k \in Kinds : Idle(k) \in Card
BY TclConstants DEF Idle, Card, Speed

LEMMA InitInv == Init => TclInv
<1> SUFFICES ASSUME Init PROVE TclInv
  OBVIOUS
<1> USE TclConstants
<1>1. PICK k \in Kinds : card = [Idle(k) EXCEPT !.state = "gone"]
  BY DEF Init
<1>2. /\ card.state = "gone" /\ card.snd = 0 /\ card.rcv = 0 /\ card.of = 0
      /\ card.sent = 0 /\ card.left = 0
  BY <1>1 DEF Idle
<1>3. card \in Card
  <2>1. Idle(k) \in Card
    BY IdleCard
  <2> QED
    BY <1>1, <2>1 DEF Card
<1>4. ats \in Ats
  <2>1. <<>> \in Seq(0 .. 255)
    OBVIOUS
  <2> QED
    BY <2>1, FieldsFit DEF Init
<1>5. tx \in Mode /\ rx \in Mode
  BY DEF Init, Slow, Mode, Speed
<1>6. TypeOK
  <2>1. back \in Seq((1 .. MaxCalls) \X (1 .. MaxChunks)) /\ Len(back) = 0
    BY DEF Init
  <2>2. calm \in BOOLEAN /\ call \in 0 .. MaxCalls /\ room \in Nat /\ block \in {0, 1}
    BY DEF Init
  <2>3. status \in {"none", "OK", "failed"} /\ Len(back) <= room
    BY <2>1 DEF Init
  <2> QED
    BY <1>3, <1>4, <1>5, <2>1, <2>2, <2>3 DEF Init, TypeOK
<1>7. CardInv /\ ModeInv /\ CalmInv /\ AnswerInv
  BY <1>2 DEF Init, CardInv, ModeInv, ModesAgree, CalmInv, AnswerInv, ChainInOrder, Slow
<1> QED
  BY <1>6, <1>7 DEF TclInv

-----------------------------------------------------------------------------
\* A card that hears a frame answers as fast as the reader receives, unless
\* something was lost already: an answer that does not arrive is a loss.
LEMMA MissedIsLost ==
  ASSUME TclInv,
         \/ pc \notin {"ready", "ack"} /\ card.state \in {"idle", "ready", "active"}
         \/ pc \in {"pps", "ready", "ack"} /\ card.state = "protocol"
  PROVE  (calm /\ card.snd # rx.speed) = FALSE
<1> USE DEF TclInv, ModeInv
<1>1. CASE pc \notin {"ready", "ack"} /\ card.state \in {"idle", "ready", "active"}
  BY <1>1 DEF CardInv, Slow
<1>2. CASE pc = "pps" /\ card.state = "protocol"
  BY <1>2 DEF Slow
<1>3. CASE pc \in {"ready", "ack"} /\ card.state = "protocol"
  BY <1>3 DEF ModesAgree
<1> QED
  BY <1>1, <1>2, <1>3

\* A step that leaves backData alone keeps it in order.
LEMMA ChainKept ==
  ASSUME AnswerInv, UNCHANGED <<back, call>>, pc' # "ack"
  PROVE  AnswerInv'
BY DEF AnswerInv, ChainInOrder

\* A step after which no selected card is in the protocol keeps the modes right, if
\* it resets them or leaves them alone.
LEMMA ModesAside ==
  ASSUME ModesAgree, UNCHANGED <<tx, rx>> \/ (tx' = Slow /\ rx' = Slow),
         pc' \notin {"ready", "ack"} \/ card'.state # "protocol"
  PROVE  ModesAgree'
<1>1. CASE UNCHANGED <<tx, rx>>
  BY <1>1 DEF ModesAgree
<1>2. CASE tx' = Slow /\ rx' = Slow
  BY <1>2 DEF ModesAgree, Slow
<1> QED
  BY <1>1, <1>2

\* A step with a selected card keeps the modes right, if neither side changes its
\* speed.
LEMMA ModesKept ==
  ASSUME ModesAgree, pc \in {"ready", "ack"}, UNCHANGED <<tx, rx>>, calm' => calm,
         card.state = card'.state /\ card.snd = card'.snd /\ card.rcv = card'.rcv,
         card.kind = card'.kind /\ (card'.fresh => card.fresh)
  PROVE  ModesAgree'
BY DEF ModesAgree, Slow

-----------------------------------------------------------------------------
(* The steps that find and select a card *)

LEMMA IsNewCardPresentStep == TclInv /\ IsNewCardPresent => TclInv'
<1> SUFFICES ASSUME TclInv, IsNewCardPresent PROVE TclInv'
  OBVIOUS
<1> USE TclConstants DEF TclInv, IsNewCardPresent, ResetModes
<1>1. TypeOK'
  <2>1. calm' \in BOOLEAN
    OBVIOUS
  <2> QED
    BY <2>1 DEF TypeOK, Slow, Mode, Speed
<1>2. CardInv' /\ AnswerInv'
  BY ChainKept DEF CardInv
<1>4. ModeInv'
  BY ModesAside DEF ModeInv
<1>3. CalmInv'
  BY DEF CalmInv
<1> QED
  BY <1>1, <1>2, <1>3, <1>4

LEMMA RequestAStep == TclInv /\ RequestA => TclInv'
<1> SUFFICES ASSUME TclInv, RequestA PROVE TclInv'
  OBVIOUS
<1> USE TclConstants DEF TclInv, RequestA, Answered, NoAnswer, AnswerLost, Unheard
<1>1. TypeOK'
  <2>1. calm' \in BOOLEAN
    BY DEF TypeOK
  <2>2. card' \in Card
    BY CardKept DEF TypeOK
  <2> QED
    BY <2>1, <2>2 DEF TypeOK
<1>0. /\ card'.of = card.of /\ card'.sent = card.sent /\ card'.left = card.left
      /\ card'.snd = card.snd /\ card'.rcv = card.rcv
      /\ card'.state = card.state \/ (card.state = "idle" /\ card'.state = "ready")
  BY DEF TypeOK, Card, Plain, Audible
<1>2. CardInv' /\ AnswerInv'
  <2>1. CardInv'
    BY <1>0 DEF CardInv, TypeOK, Card
  <2> QED
    BY <2>1, ChainKept
<1>4. ModeInv'
  <2>1. pc' = "select" => card'.state = "ready"
    BY DEF TypeOK, Card
  <2>2. pc' \in {"select", "idle"} /\ block' \in {0, block} /\ (pc' = "select" => block' = 0)
    OBVIOUS
  <2>3. ModesAgree'
    BY <2>2, ModesAside DEF ModeInv
  <2> QED
    BY <2>1, <2>2, <2>3 DEF ModeInv
<1>3. CalmInv'
  BY DEF CalmInv, TypeOK, Card
<1> QED
  BY <1>1, <1>2, <1>3, <1>4

LEMMA SelectStep == TclInv /\ Select => TclInv'
<1> SUFFICES ASSUME TclInv, Select PROVE TclInv'
  OBVIOUS
<1> USE TclConstants DEF TclInv, Select, Answered, NoAnswer, AnswerLost, Unheard
<1>1. TypeOK'
  <2>1. calm' \in BOOLEAN
    BY DEF TypeOK
  <2>2. card' \in Card
    BY CardKept DEF TypeOK
  <2> QED
    BY <2>1, <2>2 DEF TypeOK
<1>0. /\ card'.of = card.of /\ card'.sent = card.sent /\ card'.left = card.left
      /\ card'.snd = card.snd /\ card'.rcv = card.rcv
      /\ card'.state = card.state \/ (card.state = "ready" /\ card'.state = "active")
  BY DEF TypeOK, Card, Plain, Audible
<1>2. CardInv' /\ AnswerInv'
  <2>1. CardInv'
    BY <1>0 DEF CardInv, TypeOK, Card
  <2> QED
    BY <2>1, ChainKept
<1>4. ModeInv'
  <2>1. pc' # "ack" /\ card'.state # "protocol"
    BY <1>0 DEF ModeInv
  <2> QED
    BY <1>0, <2>1, ModesAside DEF ModeInv
<1>3. CalmInv'
  BY DEF CalmInv, TypeOK, Card
<1> QED
  BY <1>1, <1>2, <1>3, <1>4

LEMMA RequestATSStep == TclInv /\ RequestATS => TclInv'
<1> SUFFICES ASSUME TclInv, RequestATS PROVE TclInv'
  OBVIOUS
<1> USE TclConstants DEF TclInv, RequestATS, Answered, NoAnswer, AnswerLost, Unheard
<1>1. TypeOK'
  <2>1. calm' \in BOOLEAN
    BY DEF TypeOK
  <2>2. card' \in Card
    BY CardKept DEF TypeOK
  <2>3. ats' \in Ats
    <3>1. DecodeAts(card.kind.t0, card.kind.bytes) \in Ats
      <4>1. card.kind.bytes \in Seq(0 .. 255)
        BY CardKept DEF TypeOK
      <4>2. \A m \in {16, 32, 64} : Has(card.kind.t0, m) \in BOOLEAN
        BY DEF Has
      <4> QED
        BY <4>1, <4>2, FieldsFit DEF DecodeAts
    <3> QED
      BY <3>1 DEF TypeOK
  <2> QED
    BY <2>1, <2>2, <2>3 DEF TypeOK
<1>0. /\ card'.of = card.of /\ card'.sent = card.sent /\ card'.left = card.left
      /\ card'.snd = card.snd /\ card'.rcv = card.rcv
      /\ card'.state = card.state \/ (card.state = "active" /\ card'.state = "protocol")
  <2>1. CASE UNCHANGED card
    BY <2>1
  <2>2. CASE /\ card' = [card EXCEPT !.state = "protocol", !.num = 1, !.fresh = TRUE]
             /\ Plain("active")
    BY <2>2 DEF TypeOK, Card, Plain, Audible
  <2> QED
    BY <2>1, <2>2
<1>2. CardInv' /\ AnswerInv'
  <2>1. CardInv'
    BY <1>0 DEF CardInv, TypeOK, Card
  <2> QED
    BY <2>1, ChainKept
<1>4. ModeInv'
  <2>1. tx' = Slow /\ rx' = Slow
    BY DEF ModeInv
  <2>2. card'.state = "protocol" => card'.snd = 0 /\ card'.rcv = 0
    BY <1>0 DEF ModeInv, CardInv
  <2> QED
    BY <2>1, <2>2 DEF ModeInv, ModesAgree, Slow
<1>3. CalmInv'
  <2>1. CASE /\ card' = [card EXCEPT !.state = "protocol", !.num = 1, !.fresh = TRUE]
             /\ Plain("active") /\ UNCHANGED calm /\ pc' \in {"pps", "ready"}
    <3>1. card'.num = 1 /\ card'.state = "protocol"
      BY <2>1 DEF TypeOK, Card
    <3>2. block' = 0
      BY DEF ModeInv
    <3> QED
      BY <2>1, <3>1, <3>2 DEF CalmInv
  <2>2. CASE calm' = FALSE
    BY <2>2 DEF CalmInv
  <2>3. CASE Unheard(Plain("active"))
    <3>1. card.state = "active" => card.rcv = 0
      BY DEF CardInv
    <3>2. tx.speed = 0 /\ ~tx.crc
      BY DEF ModeInv, Slow
    <3>3. calm => Plain("active")
      BY <3>1, <3>2 DEF CalmInv, Plain, Audible
    <3>4. ~calm'
      BY <2>3, <3>3 DEF Unheard
    <3> QED
      BY <3>4 DEF CalmInv
  <2>4. CASE AnswerLost(Plain("active"), [card EXCEPT !.state = "protocol", !.num = 1,
                                                      !.fresh = TRUE])
    <3>1. card.state = "active" /\ pc = "rats"
      BY <2>4 DEF Plain, Audible
    <3>2. (calm /\ card.snd # rx.speed) = FALSE
      BY <3>1, MissedIsLost
    <3>3. calm' = (calm /\ card.snd # rx.speed)
      BY <2>4
    <3> QED
      BY <3>2, <3>3, <2>2
  <2> QED
    BY <2>1, <2>3, <2>4
<1> QED
  BY <1>1, <1>2, <1>3, <1>4

LEMMA RatsHaltStep == TclInv /\ RatsHalt => TclInv'
<1> SUFFICES ASSUME TclInv, RatsHalt PROVE TclInv'
  OBVIOUS
<1> USE TclConstants DEF TclInv, RatsHalt, AnswerLost, Unheard
<1>1. TypeOK'
  <2>1. calm' \in BOOLEAN
    BY DEF TypeOK
  <2>2. card' \in Card
    BY CardKept DEF TypeOK
  <2> QED
    BY <2>1, <2>2 DEF TypeOK
<1>0. /\ card'.of = card.of /\ card'.sent = card.sent /\ card'.left = card.left
      /\ card'.snd = card.snd /\ card'.rcv = card.rcv
      /\ card'.state = card.state \/ (card.state = "active" /\ card'.state = "halt")
  <2>1. CASE UNCHANGED card
    BY <2>1
  <2>2. CASE card' = [card EXCEPT !.state = "halt"] /\ Plain("active")
    BY <2>2 DEF TypeOK, Card, Plain, Audible
  <2> QED
    BY <2>1, <2>2
<1>2. CardInv' /\ AnswerInv'
  <2>1. CardInv'
    BY <1>0 DEF CardInv, TypeOK, Card
  <2> QED
    BY <2>1, ChainKept
<1>4. ModeInv'
  <2>1. tx' = Slow /\ rx' = Slow
    BY DEF ModeInv
  <2>2. card'.state = "protocol" => card'.snd = 0 /\ card'.rcv = 0
    BY <1>0 DEF ModeInv
  <2> QED
    BY <2>1, <2>2 DEF ModeInv, ModesAgree, Slow
<1>3. CalmInv'
  BY DEF CalmInv, TypeOK, Card
<1> QED
  BY <1>1, <1>2, <1>3, <1>4

LEMMA PPSStep == TclInv /\ PPS => TclInv'
<1> SUFFICES ASSUME TclInv, PPS PROVE TclInv'
  OBVIOUS
<1> USE TclConstants DEF TclInv
<1> DEFINE ds == ats.ds % 2
           dr == ats.dr % 2
<1>1. /\ pc = "pps" /\ pc' = "ready"
      /\ UNCHANGED <<ats, block, call, room, back, status>>
  BY DEF PPS
<1>2. ds \in Speed /\ dr \in Speed
  BY DEF TypeOK, Ats, Speed
<1>3. CASE /\ card' = [card EXCEPT !.snd = ds, !.rcv = dr, !.fresh = FALSE] /\ TakesSpeeds(ds, dr)
           /\ UNCHANGED calm /\ Switch(ds, dr)
  <2>1. /\ card'.of = card.of /\ card'.sent = card.sent /\ card'.left = card.left
        /\ card'.num = card.num /\ card'.state = "protocol" /\ card.state = "protocol"
        /\ card'.snd = ds /\ card'.rcv = dr
    BY <1>3 DEF TypeOK, Card, TakesSpeeds, TakesPps, Plain, Audible
  <2>2. tx'.speed = dr /\ rx'.speed = ds /\ tx' \in Mode /\ rx' \in Mode
    BY <1>2, <1>3 DEF Switch, Mode
  <2> HIDE DEF ds, dr
  <2>3. TypeOK'
    <3>1. card' \in Card
      BY <1>2, <1>3, CardKept DEF TypeOK
    <3>2. calm' \in BOOLEAN
      BY <1>3 DEF TypeOK
    <3> QED
      BY <1>1, <2>2, <3>1, <3>2 DEF TypeOK
  <2>4. CardInv' /\ ModeInv' /\ AnswerInv'
    <3>1. tx'.crc = rx'.crc /\ tx'.crc
      BY <1>3 DEF Switch
    <3>2. ModeInv'
      BY <1>1, <2>1, <2>2, <3>1 DEF ModeInv, ModesAgree
    <3> QED
      BY <1>1, <2>1, <3>2, ChainKept DEF CardInv
  <2>5. CalmInv'
    BY <1>1, <1>3, <2>1, <2>2 DEF CalmInv, ModeInv
  <2> QED
    BY <2>3, <2>4, <2>5
<1>4. CASE NoAnswer(TakesSpeeds(ds, dr), [card EXCEPT !.snd = ds, !.rcv = dr, !.fresh = FALSE])
           /\ UNCHANGED <<tx, rx>>
  <2>1. tx.speed = 0 /\ rx.speed = 0
    BY <1>1 DEF ModeInv, Slow
  <2>2. CASE UNCHANGED card /\ calm' = (calm /\ ~TakesSpeeds(ds, dr))
    <3> HIDE DEF ds, dr
    <3>1. TypeOK'
      <4>1. calm' \in BOOLEAN
        BY <2>2
      <4> QED
        BY <1>1, <1>4, <2>2, <4>1 DEF TypeOK
    <3>2. CardInv' /\ ModeInv' /\ AnswerInv'
      BY <1>1, <1>4, <2>1, <2>2, ChainKept DEF CardInv, ModeInv, ModesAgree
    <3>3. CalmInv'
      <4>1. calm' => calm
        BY <2>2
      <4>2. block = 0
        BY <1>1 DEF ModeInv
      <4> QED
        BY <1>1, <1>4, <2>1, <2>2, <4>1, <4>2 DEF CalmInv
    <3> QED
      BY <3>1, <3>2, <3>3
  <2>3. CASE /\ card' = [card EXCEPT !.snd = ds, !.rcv = dr, !.fresh = FALSE] /\ calm' = FALSE
             /\ TakesSpeeds(ds, dr)
    <3>1. /\ card'.of = card.of /\ card'.sent = card.sent /\ card'.left = card.left
          /\ card'.state = card.state
      BY <2>3 DEF TypeOK, Card
    <3>2. card.state = "protocol"
      BY <2>3 DEF TakesSpeeds, TakesPps, Plain, Audible
    <3> HIDE DEF ds, dr
    <3>3. TypeOK'
      <4>1. card' \in Card
        BY <1>2, <2>3, CardKept DEF TypeOK
      <4>2. calm' \in BOOLEAN
        BY <2>3
      <4> QED
        BY <1>1, <1>4, <4>1, <4>2 DEF TypeOK
    <3>4. CardInv' /\ ModeInv' /\ AnswerInv'
      <4>1. ~card'.fresh /\ <<card'.snd, card'.rcv>> \in card'.kind.speeds
        BY <2>3 DEF TypeOK, Card, TakesSpeeds
      <4>2. tx' = Slow /\ rx' = Slow /\ ~calm'
        BY <1>1, <1>4, <2>3 DEF ModeInv
      <4>3. ModeInv'
        BY <1>1, <4>1, <4>2 DEF ModeInv, ModesAgree, Slow
      <4> QED
        BY <1>1, <3>1, <3>2, <4>3, ChainKept DEF CardInv
    <3>5. CalmInv'
      BY <2>3 DEF CalmInv
    <3> QED
      BY <3>3, <3>4, <3>5
  <2>4. TakesSpeeds(ds, dr) => (calm /\ card.snd # rx.speed) = FALSE
    BY <1>1, MissedIsLost DEF TakesSpeeds, TakesPps, Plain, Audible
  <2> QED
    BY <1>4, <2>2, <2>3, <2>4 DEF NoAnswer, AnswerLost, Unheard
<1> QED
  BY <1>3, <1>4 DEF PPS, Answered

LEMMA PlainPPSStep == TclInv /\ PlainPPS => TclInv'
<1> SUFFICES ASSUME TclInv, PlainPPS PROVE TclInv'
  OBVIOUS
<1> USE TclConstants DEF TclInv
<1> DEFINE after == [card EXCEPT !.fresh = FALSE]
           heard == TakesPps
<1>1. /\ pc = "ready" /\ UNCHANGED <<pc, ats, block, call, room, back, status>>
      /\ \/ /\ heard /\ card.snd = rx.speed /\ card' = after /\ UNCHANGED calm
            /\ tx' = [tx EXCEPT !.crc = TRUE] /\ rx' = [rx EXCEPT !.crc = TRUE]
         \/ heard /\ card' = after /\ calm' = FALSE /\ UNCHANGED <<tx, rx>>
         \/ UNCHANGED card /\ calm' = (calm /\ ~heard) /\ UNCHANGED <<tx, rx>>
  <2>1. pc = "ready" /\ heard => (calm /\ card.snd # rx.speed) = FALSE
    BY MissedIsLost DEF TakesPps, Plain, Audible
  <2> QED
    BY <2>1 DEF PlainPPS, Answered, NoAnswer, AnswerLost, Unheard
<1>2. heard => card.rcv = tx.speed
  BY DEF TakesPps, Plain, Audible
<1> HIDE DEF heard
<1>3. card \in Card /\ tx \in Mode /\ rx \in Mode /\ calm \in BOOLEAN
  BY DEF TypeOK
<1>4. calm' \in BOOLEAN /\ (calm' => calm)
  <2>1. calm' = calm \/ calm' = FALSE \/ calm' = (calm /\ ~heard)
    BY <1>1
  <2>2. CASE calm' = calm
    BY <1>3, <2>2
  <2>3. CASE calm' = FALSE
    BY <2>3
  <2>4. CASE calm' = (calm /\ ~heard)
    BY <1>3, <2>4
  <2> QED
    BY <2>1, <2>2, <2>3, <2>4
<1>5. /\ card' \in Card /\ card'.state = card.state /\ card'.snd = card.snd
      /\ card'.rcv = card.rcv /\ card'.kind = card.kind /\ card'.num = card.num
      /\ card'.sent = card.sent /\ card'.left = card.left /\ card'.of = card.of
      /\ card'.fresh => card.fresh
  <2>1. CASE card' = after
    <3>1. after \in Card
      BY <1>3, CardKept
    <3>2. after.fresh = FALSE
      BY <1>3 DEF Card
    <3>3. /\ after.state = card.state /\ after.snd = card.snd /\ after.rcv = card.rcv
          /\ after.kind = card.kind /\ after.num = card.num /\ after.sent = card.sent
          /\ after.left = card.left /\ after.of = card.of
      BY <1>3 DEF Card
    <3> QED
      BY <2>1, <3>1, <3>2, <3>3
  <2> QED
    BY <1>1, <1>3, <2>1
<1>6. /\ tx' \in Mode /\ rx' \in Mode
      /\ tx'.speed = tx.speed /\ rx'.speed = rx.speed
      /\ UNCHANGED <<tx, rx>> \/ (tx'.crc /\ rx'.crc)
  <2>1. UNCHANGED <<tx, rx>> \/ (tx' = [tx EXCEPT !.crc = TRUE] /\ rx' = [rx EXCEPT !.crc = TRUE])
    BY <1>1
  <2>2. \A m \in Mode : /\ [m EXCEPT !.crc = TRUE] \in Mode
                         /\ [m EXCEPT !.crc = TRUE].speed = m.speed
                         /\ [m EXCEPT !.crc = TRUE].crc
    BY DEF Mode
  <2>3. CASE UNCHANGED <<tx, rx>>
    BY <1>3, <2>3
  <2>4. CASE tx' = [tx EXCEPT !.crc = TRUE] /\ rx' = [rx EXCEPT !.crc = TRUE]
    BY <1>3, <2>2, <2>4
  <2> QED
    BY <2>1, <2>3, <2>4
<1>7. TypeOK'
  BY <1>1, <1>4, <1>5, <1>6 DEF TypeOK
<1>8. ModesAgree'
  <2>1. CASE UNCHANGED <<tx, rx>>
    BY <1>1, <1>4, <1>5, <2>1, ModesKept DEF ModeInv
  <2>2. CASE heard /\ card.snd = rx.speed /\ tx'.crc /\ rx'.crc
    BY <1>2, <1>5, <1>6, <2>2 DEF ModesAgree
  <2> QED
    BY <1>1, <1>6, <2>1, <2>2
<1>9. CardInv' /\ ModeInv' /\ AnswerInv'
  BY <1>1, <1>5, <1>8, ChainKept DEF CardInv, ModeInv
<1>10. CalmInv'
  BY <1>1, <1>4, <1>5 DEF CalmInv
<1> QED
  BY <1>7, <1>9, <1>10

-----------------------------------------------------------------------------
(* Blocks *)

\* The card after a block it heard.
WithBlock(n, o, s, l) ==
  [card EXCEPT !.num = n, !.of = o, !.sent = s, !.left = l, !.fresh = FALSE]

LEMMA BlockCard ==
  ASSUME card \in Card, NEW n \in {0, 1}, NEW o \in 0 .. MaxCalls,
         NEW s \in 0 .. MaxChunks, NEW l \in 0 .. MaxChunks
  PROVE  LET new == WithBlock(n, o, s, l)
         IN  /\ new \in Card /\ new.num = n /\ new.of = o /\ new.sent = s /\ new.left = l
             /\ new.state = card.state /\ new.snd = card.snd /\ new.rcv = card.rcv
             /\ new.kind = card.kind /\ ~new.fresh
BY DEF WithBlock, Card

\* The card that ran a command, and the one that sent its next block, keep the
\* session.
LEMMA RunsCard ==
  ASSUME card \in Card, call \in 0 .. MaxCalls, call < MaxCalls, NEW k \in 1 .. MaxChunks
  PROVE  /\ Runs(k) \in Card
         /\ Runs(k).num = 1 - card.num /\ Runs(k).of = call + 1
         /\ Runs(k).sent = 1 /\ Runs(k).left = k - 1 /\ Runs(k).state = card.state
         /\ Runs(k).snd = card.snd /\ Runs(k).rcv = card.rcv
         /\ Runs(k).kind = card.kind /\ ~Runs(k).fresh
<1> USE TclConstants
<1>1. 1 - card.num \in {0, 1} /\ call + 1 \in 0 .. MaxCalls /\ k - 1 \in 0 .. MaxChunks
      /\ 1 \in 0 .. MaxChunks
  BY DEF Card
<1>2. Runs(k) = WithBlock(1 - card.num, call + 1, 1, k - 1)
  BY DEF Runs, WithBlock
<1> QED
  BY <1>1, <1>2, BlockCard

LEMMA NextBlockCard ==
  ASSUME card \in Card, CardInv, card.left > 0
  PROVE  /\ NextBlock \in Card
         /\ NextBlock.num = 1 - card.num /\ NextBlock.of = card.of
         /\ NextBlock.sent = card.sent + 1 /\ NextBlock.left = card.left - 1
         /\ NextBlock.state = card.state
         /\ NextBlock.snd = card.snd /\ NextBlock.rcv = card.rcv
         /\ NextBlock.kind = card.kind /\ ~NextBlock.fresh
<1> USE TclConstants
<1>1. 1 - card.num \in {0, 1} /\ card.sent + 1 \in 0 .. MaxChunks
      /\ card.left - 1 \in 0 .. MaxChunks
  BY DEF Card, CardInv
<1>2. /\ NextBlock.num = 1 - card.num /\ NextBlock.of = card.of
      /\ NextBlock.sent = card.sent + 1 /\ NextBlock.left = card.left - 1
      /\ NextBlock.state = card.state
      /\ NextBlock.snd = card.snd /\ NextBlock.rcv = card.rcv
      /\ NextBlock.kind = card.kind /\ ~NextBlock.fresh
  BY DEF NextBlock, Card
<1>3. NextBlock \in Card
  <2>1. ASSUME NEW n \in {0, 1}, NEW s \in 0 .. MaxChunks, NEW l \in 0 .. MaxChunks
        PROVE  [card EXCEPT !.num = n, !.sent = s, !.left = l, !.fresh = FALSE] \in Card
    BY ZenonT(60) DEF Card
  <2> QED
    BY <1>1, <2>1 DEF NextBlock
<1> QED
  BY <1>2, <1>3

LEMMA TransceiveFailsStep == TclInv /\ TransceiveFails => TclInv'
<1> SUFFICES ASSUME TclInv, TransceiveFails PROVE TclInv'
  OBVIOUS
<1> USE TclConstants DEF TclInv
<1>1. /\ pc = "ready" /\ call < MaxCalls /\ call' = call + 1 /\ status' = "failed"
      /\ back' = <<>> /\ room' \in Rooms /\ UNCHANGED <<pc, tx, rx, ats, block>>
  BY DEF TransceiveFails
<1>2. PICK k \in 1 .. MaxChunks : NoAnswer(HearsBlocks, Runs(k))
  BY DEF TransceiveFails
<1>3. \/ UNCHANGED card /\ calm' = (calm /\ ~HearsBlocks)
      \/ card' = Runs(k) /\ calm' = FALSE
  <2>1. HearsBlocks => (calm /\ card.snd # rx.speed) = FALSE
    BY <1>1, MissedIsLost DEF HearsBlocks, Audible
  <2> QED
    BY <1>2, <2>1 DEF NoAnswer, AnswerLost, Unheard
<1>4. calm' \in BOOLEAN /\ (calm' => calm /\ UNCHANGED card)
  <2>1. CASE UNCHANGED card /\ calm' = (calm /\ ~HearsBlocks)
    <3> DEFINE h == HearsBlocks
    <3>1. calm' = (calm /\ ~h)
      BY <2>1
    <3> HIDE DEF h
    <3>2. calm' \in BOOLEAN /\ (calm' => calm)
      BY <3>1
    <3> QED
      BY <2>1, <3>2
  <2>2. CASE card' = Runs(k) /\ calm' = FALSE
    BY <2>2
  <2> QED
    BY <1>3, <2>1, <2>2
<1>5. card \in Card /\ call \in 0 .. MaxCalls
  BY DEF TypeOK
<1>6. /\ card' \in Card
      /\ card'.sent + card'.left <= MaxChunks
      /\ card'.sent > 0 \/ card'.left > 0 => card'.of > 0
      /\ card'.state = card.state /\ card'.snd = card.snd /\ card'.rcv = card.rcv
      /\ card'.kind = card.kind /\ (card'.fresh => card.fresh)
  <2>1. CASE UNCHANGED card
    BY <1>5, <2>1 DEF CardInv
  <2>2. CASE card' = Runs(k)
    BY <1>1, <1>5, <2>2, RunsCard
  <2> QED
    BY <1>3, <2>1, <2>2
<1>7. TypeOK'
  <2>1. back' \in Seq((1 .. MaxCalls) \X (1 .. MaxChunks)) /\ Len(back') = 0
    BY <1>1
  <2>2. call' \in 0 .. MaxCalls /\ room' \in Nat
    BY <1>1, <1>5
  <2> QED
    BY <1>1, <1>4, <1>6, <2>1, <2>2 DEF TypeOK
<1>8. CardInv' /\ ModeInv' /\ AnswerInv'
  <2>1. CardInv'
    BY <1>6 DEF CardInv
  <2>2. ModeInv'
    BY <1>1, <1>4, <1>6, ModesKept DEF ModeInv
  <2>3. AnswerInv'
    BY <1>1 DEF AnswerInv, ChainInOrder
  <2> QED
    BY <2>1, <2>2, <2>3
<1>9. CalmInv'
  BY <1>1, <1>4 DEF CalmInv
<1> QED
  BY <1>7, <1>8, <1>9

LEMMA TransceiveStep == TclInv /\ Transceive => TclInv'
<1> SUFFICES ASSUME TclInv, Transceive PROVE TclInv'
  OBVIOUS
<1> USE TclConstants DEF TclInv
<1>1. PICK k \in 1 .. MaxChunks :
         /\ HearsBlocks /\ card' = Runs(k) /\ UNCHANGED calm
         /\ IF NoRoom(1, room')
            THEN back' = <<>> /\ status' = "failed" /\ UNCHANGED pc
            ELSE /\ back' = << <<call', 1>> >>
                 /\ IF Chained(k)
                    THEN pc' = "ack" /\ status' = "none"
                    ELSE status' = "OK" /\ UNCHANGED pc
  BY DEF Transceive, Answered
<1>2. /\ pc = "ready" /\ call < MaxCalls /\ call' = call + 1 /\ block' = 1 - block
      /\ room' \in Rooms /\ UNCHANGED <<tx, rx, ats>>
  BY DEF Transceive
<1>3. card \in Card /\ call \in 0 .. MaxCalls /\ block \in {0, 1}
  BY DEF TypeOK
<1>4. /\ card' \in Card
      /\ card'.num = 1 - card.num /\ card'.of = call + 1
      /\ card'.sent = 1 /\ card'.left = k - 1 /\ card'.state = card.state
      /\ card'.snd = card.snd /\ card'.rcv = card.rcv
      /\ card'.kind = card.kind /\ ~card'.fresh
  BY <1>1, <1>2, <1>3, RunsCard
<1>5. call' \in 1 .. MaxCalls /\ room' \in Nat /\ block' \in {0, 1}
  BY <1>2, <1>3
<1>6. \/ back' = <<>> /\ status' = "failed" /\ pc' = "ready"
      \/ back' = << <<call', 1>> >> /\ 1 <= room' /\ status' = "none" /\ pc' = "ack"
      \/ back' = << <<call', 1>> >> /\ 1 <= room' /\ status' = "OK" /\ pc' = "ready" /\ k = 1
  BY <1>1, <1>2, <1>5 DEF NoRoom, Chained
<1>7. TypeOK'
  <2>1. back' \in Seq((1 .. MaxCalls) \X (1 .. MaxChunks)) /\ Len(back') <= room'
    <3>1. <<call', 1>> \in (1 .. MaxCalls) \X (1 .. MaxChunks)
      BY <1>5
    <3>2. << <<call', 1>> >> \in Seq((1 .. MaxCalls) \X (1 .. MaxChunks))
      BY <3>1
    <3>3. <<>> \in Seq((1 .. MaxCalls) \X (1 .. MaxChunks))
      OBVIOUS
    <3>4. CASE back' = <<>>
      BY <1>5, <3>3, <3>4
    <3>5. CASE back' = << <<call', 1>> >> /\ 1 <= room'
      BY <3>2, <3>5
    <3> QED
      BY <1>6, <3>4, <3>5
  <2>2. calm' \in BOOLEAN
    BY <1>1 DEF TypeOK
  <2> QED
    BY <1>2, <1>4, <1>5, <1>6, <2>1, <2>2 DEF TypeOK
<1>8. CardInv' /\ ModeInv'
  <2>1. CardInv'
    BY <1>3, <1>4 DEF CardInv
  <2> QED
    BY <1>1, <1>2, <1>4, <1>6, <2>1, ModesKept DEF ModeInv
<1>9. AnswerInv'
  <2>1. CASE back' = <<>> /\ pc' = "ready"
    BY <2>1 DEF AnswerInv, ChainInOrder
  <2>2. CASE back' = << <<call', 1>> >>
    <3>1. Len(back') = 1 /\ back'[1] = <<call', 1>>
      BY <2>2
    <3>2. ChainInOrder'
      BY <3>1 DEF ChainInOrder
    <3> QED
      BY <1>2, <1>4, <3>1, <3>2 DEF AnswerInv
  <2> QED
    BY <1>6, <2>1, <2>2
<1>10. CalmInv'
  <2>1. block # card.num => block' # card'.num
    BY <1>2, <1>3, <1>4 DEF Card
  <2>2. card.state = "protocol"
    BY <1>1 DEF HearsBlocks, Audible
  <2> QED
    BY <1>1, <1>2, <1>4, <1>6, <2>1, <2>2 DEF CalmInv
<1> QED
  BY <1>7, <1>8, <1>9, <1>10

LEMMA AckFailsStep == TclInv /\ AckFails => TclInv'
<1> SUFFICES ASSUME TclInv, AckFails PROVE TclInv'
  OBVIOUS
<1> USE TclConstants DEF TclInv
<1>1. /\ pc = "ack" /\ pc' = "ready" /\ status' = "failed"
      /\ UNCHANGED <<tx, rx, ats, block, call, room, back>>
  BY DEF AckFails
<1>2. \/ card' = NextBlock /\ SendsNext /\ calm' = FALSE
      \/ UNCHANGED card /\ calm' = FALSE
      \/ UNCHANGED card /\ calm' = (calm /\ ~SendsNext)
      \/ UNCHANGED card /\ calm' = (calm /\ ~SendsAgain)
  <2>1. SendsNext \/ SendsAgain => (calm /\ card.snd # rx.speed) = FALSE
    BY <1>1, MissedIsLost DEF SendsNext, SendsAgain, HearsBlocks, Audible
  <2> QED
    BY <2>1 DEF AckFails, NoAnswer, AnswerLost, Unheard
<1>3. calm' \in BOOLEAN /\ (calm' => calm /\ UNCHANGED card)
  <2> DEFINE h == SendsNext
             g == SendsAgain
  <2>1. calm' = FALSE \/ (UNCHANGED card /\ (calm' = (calm /\ ~h) \/ calm' = (calm /\ ~g)))
    BY <1>2
  <2> HIDE DEF h, g
  <2>2. CASE calm' = FALSE
    BY <2>2
  <2>3. CASE UNCHANGED card /\ calm' = (calm /\ ~h)
    BY <2>3
  <2>4. CASE UNCHANGED card /\ calm' = (calm /\ ~g)
    BY <2>4
  <2> QED
    BY <2>1, <2>2, <2>3, <2>4
<1>4. card \in Card
  BY DEF TypeOK
<1>5. /\ card' \in Card
      /\ card'.sent + card'.left <= MaxChunks
      /\ card'.sent > 0 \/ card'.left > 0 => card'.of > 0
      /\ card'.state = card.state /\ card'.snd = card.snd /\ card'.rcv = card.rcv
      /\ card'.kind = card.kind /\ (card'.fresh => card.fresh)
  <2>1. CASE UNCHANGED card
    BY <1>4, <2>1 DEF CardInv
  <2>2. CASE card' = NextBlock /\ card.left > 0
    BY <1>4, <2>2, NextBlockCard DEF CardInv, Card
  <2> QED
    BY <1>2, <2>1, <2>2 DEF SendsNext
<1>6. TypeOK'
  BY <1>1, <1>3, <1>5 DEF TypeOK
<1>7. CardInv' /\ ModeInv' /\ AnswerInv'
  <2>1. CardInv'
    BY <1>5 DEF CardInv
  <2>2. ModeInv'
    BY <1>1, <1>3, <1>5, ModesKept DEF ModeInv
  <2>3. AnswerInv'
    BY <1>1, ChainKept
  <2> QED
    BY <2>1, <2>2, <2>3
<1>8. CalmInv'
  BY <1>1, <1>3 DEF CalmInv
<1> QED
  BY <1>6, <1>7, <1>8

LEMMA AckAnsweredStep == TclInv /\ AckAnswered => TclInv'
<1> SUFFICES ASSUME TclInv, AckAnswered PROVE TclInv'
  OBVIOUS
<1> USE TclConstants DEF TclInv
<1>1. /\ pc = "ack" /\ block' = 1 - block /\ UNCHANGED <<tx, rx, ats, call, room, calm>>
      /\ \/ SendsNext /\ card' = NextBlock
         \/ SendsAgain /\ UNCHANGED card
  BY DEF AckAnswered, Answered, Toggled
<1>2. \/ pc' = "ready" /\ status' = "failed" /\ UNCHANGED back
      \/ /\ back' = Append(back, <<card'.of, card'.sent>>) /\ Len(back) + 1 <= room
         /\ UNCHANGED <<pc, status>>
  BY DEF AckAnswered, NoRoom, TypeOK
<1>3. card \in Card /\ block \in {0, 1}
  BY DEF TypeOK
<1>4. /\ card' \in Card /\ card'.sent > 0 /\ card'.of > 0
      /\ card'.sent + card'.left <= MaxChunks
      /\ card'.state = card.state /\ card'.snd = card.snd /\ card'.rcv = card.rcv
      /\ card'.kind = card.kind /\ (card'.fresh => card.fresh)
      /\ card'.num = card.num => block = card.num
  <2>1. CASE SendsAgain /\ UNCHANGED card
    BY <1>3, <2>1 DEF SendsAgain, CardInv
  <2>2. CASE SendsNext /\ card' = NextBlock
    BY <1>3, <2>2, NextBlockCard DEF SendsNext, CardInv, Card
  <2> QED
    BY <1>1, <2>1, <2>2
<1>5. TypeOK'
  <2>1. /\ back' \in Seq((1 .. MaxCalls) \X (1 .. MaxChunks))
        /\ Len(back') <= room'
    <3>1. CASE UNCHANGED back
      BY <1>1, <3>1 DEF TypeOK
    <3>2. CASE back' = Append(back, <<card'.of, card'.sent>>) /\ Len(back) + 1 <= room
      <4>1. <<card'.of, card'.sent>> \in (1 .. MaxCalls) \X (1 .. MaxChunks)
        BY <1>4 DEF Card
      <4>2. back \in Seq((1 .. MaxCalls) \X (1 .. MaxChunks))
        BY DEF TypeOK
      <4> QED
        BY <1>1, <3>2, <4>1, <4>2, AppendProperties
    <3> QED
      BY <1>2, <3>1, <3>2
  <2>2. calm' \in BOOLEAN
    BY <1>1 DEF TypeOK
  <2>3. block' \in {0, 1}
    BY <1>1, <1>3
  <2>4. pc' \in {"ready", "ack"} /\ status' \in {"none", "OK", "failed"}
    BY <1>1, <1>2 DEF TypeOK
  <2> QED
    BY <1>1, <1>4, <2>1, <2>2, <2>3, <2>4 DEF TypeOK
<1>6. CardInv' /\ ModeInv'
  <2>1. CardInv'
    BY <1>4 DEF CardInv
  <2>2. pc' \in {"ready", "ack"}
    BY <1>1, <1>2
  <2> QED
    BY <1>1, <1>4, <2>1, <2>2, ModesKept DEF ModeInv
<1>8. AnswerInv'
  <2>1. CASE UNCHANGED back /\ pc' = "ready"
    BY <1>1, <2>1, ChainKept
  <2>2. CASE back' = Append(back, <<card'.of, card'.sent>>) /\ UNCHANGED pc
    <3>1. card.state = "protocol" /\ card'.state = "protocol"
      BY <1>1, <1>4 DEF SendsNext, SendsAgain, HearsBlocks, Audible
    <3>2. /\ back \in Seq((1 .. MaxCalls) \X (1 .. MaxChunks)) /\ Len(back) \in Nat \ {0}
          /\ card.of = call /\ card.sent = back[Len(back)][2]
      BY <1>1, <3>1, LenProperties DEF AnswerInv, TypeOK
    <3>3. card'.of = call' /\ card'.sent \in {card.sent, card.sent + 1}
      BY <1>1, <1>3, <3>2, NextBlockCard DEF SendsNext
    <3>4. calm => card'.sent = card.sent + 1
      <4>1. calm => ~SendsAgain
        BY <1>1, <3>1 DEF CalmInv, SendsAgain
      <4> QED
        BY <1>1, <1>3, <4>1, NextBlockCard DEF SendsNext
    <3>5. <<card'.of, card'.sent>> \in (1 .. MaxCalls) \X (1 .. MaxChunks)
      BY <1>4 DEF Card
    <3> DEFINE n == Len(back)
    <3>6. /\ Len(back') = n + 1
          /\ \A i \in 1 .. n : back'[i] = back[i]
          /\ back'[n + 1] = <<card'.of, card'.sent>>
      BY <2>2, <3>2, <3>5, AppendProperties
    <3>7. calm => back[n][2] = n
      <4>1. n \in 1 .. Len(back)
        BY <3>2
      <4>2. ChainInOrder
        BY DEF AnswerInv
      <4> HIDE DEF n
      <4> QED
        BY <1>1, <4>1, <4>2 DEF ChainInOrder
    <3> HIDE DEF n
    <3>8. n \in Nat \ {0}
      BY <3>2 DEF n
    <3>9. ASSUME NEW i \in 1 .. Len(back')
          PROVE  /\ back'[i][1] = call'
                 /\ back'[i][2] \in IF i = 1 THEN {1} ELSE {back'[i - 1][2], back'[i - 1][2] + 1}
                 /\ pc' = "ack" /\ calm' => back'[i][2] = i
      <4>1. CASE i \in 1 .. n
        <5>1. /\ back[i][1] = call
              /\ back[i][2] \in IF i = 1 THEN {1} ELSE {back[i - 1][2], back[i - 1][2] + 1}
              /\ calm => back[i][2] = i
          BY <1>1, <4>1 DEF AnswerInv, ChainInOrder, n
        <5>2. back'[i] = back[i] /\ (i # 1 => back'[i - 1] = back[i - 1])
          BY <3>6, <3>8, <4>1
        <5> QED
          BY <1>1, <5>1, <5>2
      <4>2. CASE i = n + 1
        <5>1. back'[i] = <<card'.of, card'.sent>> /\ back'[i - 1] = back[n] /\ i # 1
          BY <3>6, <3>8, <4>2
        <5>2. card.sent = back[n][2]
          BY <3>2 DEF n
        <5> QED
          BY <1>1, <3>3, <3>4, <3>7, <4>2, <5>1, <5>2
      <4> QED
        BY <3>6, <3>8, <4>1, <4>2
    <3>10. ChainInOrder'
      BY <3>9 DEF ChainInOrder
    <3> QED
      BY <1>1, <3>3, <3>6, <3>8, <3>10 DEF AnswerInv
  <2> QED
    BY <1>2, <2>1, <2>2
<1>7. CalmInv'
  <2>1. card.state = "protocol"
    BY <1>1 DEF SendsNext, SendsAgain, HearsBlocks, Audible
  <2>2. block # card.num => block' # card'.num
    BY <1>1, <1>3, <1>4 DEF Card
  <2> QED
    BY <1>1, <1>2, <1>4, <2>1, <2>2 DEF CalmInv
<1> QED
  BY <1>5, <1>6, <1>7, <1>8

-----------------------------------------------------------------------------
(* The end of a session *)

LEMMA DeselectStep == TclInv /\ Deselect => TclInv'
<1> SUFFICES ASSUME TclInv, Deselect PROVE TclInv'
  OBVIOUS
<1> USE TclConstants DEF TclInv
<1> DEFINE heard == HearsBlocks /\ tx.crc
<1>1. /\ pc = "ready" /\ UNCHANGED <<pc, tx, rx, ats, block, call, room, back, status>>
      /\ \/ card' = [card EXCEPT !.state = "halt", !.snd = 0, !.rcv = 0]
            /\ (calm' = calm \/ calm' = FALSE)
         \/ UNCHANGED card /\ calm' = (calm /\ ~heard)
  <2>1. pc = "ready" /\ heard => (calm /\ card.snd # rx.speed) = FALSE
    BY MissedIsLost DEF HearsBlocks, Audible
  <2> QED
    BY <2>1 DEF Deselect, Answered, NoAnswer, AnswerLost, Unheard
<1>2. calm' \in BOOLEAN /\ (calm' => calm)
  <2> HIDE DEF heard
  <2>1. calm' = calm \/ calm' = FALSE \/ calm' = (calm /\ ~heard)
    BY <1>1
  <2>2. CASE calm' = calm
    BY <2>2 DEF TypeOK
  <2>3. CASE calm' = FALSE
    BY <2>3
  <2>4. CASE calm' = (calm /\ ~heard)
    BY <2>4
  <2> QED
    BY <2>1, <2>2, <2>3, <2>4
<1>3. \/ UNCHANGED card
      \/ /\ card' \in Card /\ card'.state = "halt" /\ card'.of = card.of
         /\ card'.sent = card.sent /\ card'.left = card.left
  <2>1. card \in Card
    BY DEF TypeOK
  <2>2. CASE card' = [card EXCEPT !.state = "halt", !.snd = 0, !.rcv = 0]
    BY <2>1, <2>2, CardKept DEF Card
  <2> QED
    BY <1>1, <2>2
<1> HIDE DEF heard
<1>4. TypeOK'
  BY <1>1, <1>2, <1>3 DEF TypeOK
<1>5. CardInv' /\ ModeInv' /\ AnswerInv'
  <2>1. CardInv'
    BY <1>3 DEF CardInv
  <2>2. ModeInv'
    <3>1. CASE UNCHANGED card
      BY <1>1, <1>2, <3>1, ModesKept DEF ModeInv
    <3>2. CASE card'.state = "halt"
      BY <1>1, <3>2, ModesAside DEF ModeInv
    <3> QED
      BY <1>3, <3>1, <3>2
  <2> QED
    BY <1>1, <2>1, <2>2, ChainKept
<1>6. CalmInv'
  BY <1>1, <1>2, <1>3 DEF CalmInv
<1> QED
  BY <1>4, <1>5, <1>6

LEMMA PcdInitStep == TclInv /\ PcdInit => TclInv'
<1> SUFFICES ASSUME TclInv, PcdInit PROVE TclInv'
  OBVIOUS
<1> USE TclConstants DEF TclInv
<1>1. /\ pc' = "idle" /\ tx' = Slow /\ rx' = Slow
      /\ UNCHANGED <<ats, block, call, room, back, status, calm>>
  BY DEF PcdInit
<1>2. \/ UNCHANGED card
      \/ /\ card' \in Card /\ card'.of = 0 /\ card'.sent = 0 /\ card'.left = 0
         /\ card'.snd = 0 /\ card'.rcv = 0 /\ card'.state = "idle"
  <2>1. UNCHANGED card \/ card' = Idle(card.kind)
    BY DEF PcdInit
  <2>2. card.kind \in Kinds
    BY CardKept DEF TypeOK
  <2> QED
    BY <2>1, <2>2, IdleCard DEF Idle
<1>3. TypeOK'
  <2>1. calm' \in BOOLEAN
    BY <1>1 DEF TypeOK
  <2>2. tx' \in Mode /\ rx' \in Mode
    BY <1>1 DEF Slow, Mode, Speed
  <2> QED
    BY <1>1, <1>2, <2>1, <2>2 DEF TypeOK
<1>4. CardInv' /\ ModeInv'
  BY <1>1, <1>2, ModesAside DEF CardInv, ModeInv
<1>5. AnswerInv'
  BY <1>1, ChainKept
<1>6. CalmInv'
  BY <1>1 DEF CalmInv
<1> QED
  BY <1>3, <1>4, <1>5, <1>6

LEMMA FieldStep == TclInv /\ (Leaves \/ \E k \in Kinds : Arrives(k)) => TclInv'
<1> SUFFICES ASSUME TclInv, Leaves \/ \E k \in Kinds : Arrives(k) PROVE TclInv'
  OBVIOUS
<1> USE TclConstants DEF TclInv
<1>1. calm' = FALSE /\ UNCHANGED <<pc, tx, rx, ats, block, call, room, back, status>>
  BY DEF Leaves, Arrives
<1>2. \/ /\ card' \in Card /\ card'.state = "gone" /\ card'.of = card.of
         /\ card'.sent = card.sent /\ card'.left = card.left
      \/ /\ card' \in Card /\ card'.of = 0 /\ card'.sent = 0 /\ card'.left = 0
         /\ card'.snd = 0 /\ card'.rcv = 0 /\ card'.state = "idle"
  <2>1. CASE Leaves
    BY <2>1, CardKept DEF Leaves, TypeOK, Card
  <2>2. CASE \E k \in Kinds : Arrives(k)
    BY <2>2, IdleCard DEF Arrives, Idle
  <2> QED
    BY <2>1, <2>2
<1>3. TypeOK'
  <2>1. calm' \in BOOLEAN
    BY <1>1
  <2> QED
    BY <1>1, <1>2, <2>1 DEF TypeOK
<1>4. CardInv' /\ ModeInv'
  BY <1>1, <1>2, ModesAside DEF CardInv, ModeInv
<1>5. AnswerInv'
  BY <1>1, <1>2 DEF AnswerInv, ChainInOrder
<1>6. CalmInv'
  BY <1>1 DEF CalmInv
<1> QED
  BY <1>3, <1>4, <1>5, <1>6

-----------------------------------------------------------------------------
LEMMA StutterStep == TclInv /\ UNCHANGED vars => TclInv'
<1> SUFFICES ASSUME TclInv, UNCHANGED vars PROVE TclInv'
  OBVIOUS
<1>1. TypeOK'
  BY DEF TclInv, vars, TypeOK
<1>2. CardInv' /\ ModeInv'
  BY DEF TclInv, vars, CardInv, ModeInv, ModesAgree
<1>3. CalmInv'
  BY DEF TclInv, vars, CalmInv
<1>4. AnswerInv'
  BY DEF TclInv, vars, AnswerInv, ChainInOrder
<1> QED
  BY <1>1, <1>2, <1>3, <1>4 DEF TclInv

LEMMA Invariance == Spec => []TclInv
<1>1. TclInv /\ [Next]_vars => TclInv'
  BY IsNewCardPresentStep, RequestAStep, SelectStep, RequestATSStep, RatsHaltStep, PPSStep,
     PlainPPSStep, TransceiveFailsStep, TransceiveStep, AckFailsStep, AckAnsweredStep,
     DeselectStep, PcdInitStep, FieldStep, StutterStep DEF Next, Ack
<1> QED
  BY InitInv, <1>1, PTL DEF Spec

\* Every variable of the driver and of the card in the field keeps its type, for
\* any cards and any losses: backData never outgrows the caller's buffer
\* (TCL_Transceive).
THEOREM Typing == Spec => []TypeOK
<1>1. TclInv => TypeOK
  BY DEF TclInv
<1> QED
  BY Invariance, <1>1, PTL

\* Whatever TCL_Transceive collects in backData is the beginning of the answer to this
\* command, with no block left out, for answers of any length, buffers of any size and
\* whichever frames are lost; in step, no block comes twice.
THEOREM AnswerInOrder == Spec => []ChainInOrder
<1>1. TclInv => ChainInOrder
  BY DEF TclInv, AnswerInv
<1> QED
  BY Invariance, <1>1, PTL

\* As long as nothing is lost, the two block numbers stay in step through
\* TCL_Transceive and the loop over a chained answer of any length.
THEOREM BlocksInStep == Spec => []InStep
<1>1. TclInv => InStep
  BY DEF TclInv, CalmInv, InStep
<1> QED
  BY Invariance, <1>1, PTL

\* After PICC_PPS, for any speeds that the cards offer and whichever frame is lost,
\* reader and card agree on the speeds of both directions, or the confirmation of the
\* PPS was lost and the reader is as slow as before; its two mode registers go together.
THEOREM SameModes == Spec => []ModesAgree
<1>1. TclInv => ModesAgree
  BY DEF TclInv, ModeInv
<1> QED
  BY Invariance, <1>1, PTL

\* PICC_IsNewCardPresent puts the reader back to what a card that was just switched on
\* expects, so that its REQA is heard by one, whatever speeds, CRC mode or half of a call
\* the last card was left with; only a lost frame keeps it from being found.
THEOREM FoundAgain == Spec => NewCardFound
<1>1. TclInv /\ [Next]_vars => [pc = "request" /\ pc' = "idle" /\ card.state = "idle" => ~calm']_vars
  <2> SUFFICES ASSUME TclInv, Next, pc = "request", pc' = "idle", card.state = "idle"
               PROVE  ~calm'
    OBVIOUS
  <2>1. RequestA
    BY DEF Next, IsNewCardPresent, Select, RequestATS, RatsHalt, PPS, PlainPPS,
       TransceiveFails, Transceive, Ack, AckFails, AckAnswered, Deselect, PcdInit, Leaves, Arrives
  <2>2. Plain("idle") /\ (calm /\ card.snd # rx.speed) = FALSE
    BY MissedIsLost DEF TclInv, ModeInv, CardInv, Slow, Plain, Audible
  <2> QED
    BY <2>1, <2>2 DEF RequestA, NoAnswer, AnswerLost, Unheard
<1> QED
  BY Invariance, <1>1, PTL DEF Spec, NewCardFound
=============================================================================
