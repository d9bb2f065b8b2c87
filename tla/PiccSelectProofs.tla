-------------------------- MODULE PiccSelectProofs --------------------------
(***************************************************************************)
(* Proofs about PiccSelect, for any set of cards in the field, any UIDs of  *)
(* one to three cascade levels, and both versions of PICC_Select.           *)
(***************************************************************************)
EXTENDS PiccSelect, WellFoundedInduction, TLAPS

\* The part of the types that the proof needs.
Shape ==
  /\ level \in 1 .. 3
  /\ buffer \subseteq Bit
  /\ uid \in Seq(SUBSET Bit)
  /\ ready \subseteq Card

\* The levels copied so far are those of every card that still takes part, and
\* each of these cards has the level that is being learnt.
Learnt ==
  state = "busy" =>
    /\ Len(uid) = level - 1
    /\ \A c \in ready :
         /\ level <= Len(Uid[c])
         /\ \A i \in 1 .. Len(uid) : uid[i] = Uid[c][i]

SelectInv == Shape /\ Learnt /\ SelectsOne

-----------------------------------------------------------------------------
\* A card that answers a SELECT has exactly the buffer's bits in this level.
LEMMA SelectAnswers ==
  ASSUME Shape, Learnt, state = "busy", known = 32, NEW c \in Answering
  PROVE  c \in Card /\ c \in ready /\ Bits(c) = buffer
<1>1. c \in ready /\ c \in Card
  BY DEF Answering, Shape
<1>2. Bits(c) \subseteq Bit
  BY <1>1, SelectConstants DEF Bits, Learnt, Shape
<1>3. Prefix(Bits(c), 32) = Prefix(buffer, 32)
  BY DEF Answering
<1> QED
  BY <1>1, <1>2, <1>3 DEF Shape, Prefix, Bit

\* A SELECT that is answered keeps the levels learnt equal to those of every
\* card that answered it.
LEMMA SelectLearns ==
  ASSUME Shape, Learnt, state = "busy", known = 32, NEW c \in Answering,
         uid' = Append(uid, buffer)
  PROVE  /\ uid' \in Seq(SUBSET Bit) /\ Len(uid') = level
         /\ level <= Len(Uid[c])
         /\ \A i \in 1 .. level : uid'[i] = Uid[c][i]
<1>1. c \in ready /\ Bits(c) = buffer
  BY SelectAnswers
<1>2. uid' \in Seq(SUBSET Bit) /\ Len(uid') = Len(uid) + 1
  BY DEF Shape
<1>3. \A i \in 1 .. Len(uid') : uid'[i] = IF i <= Len(uid) THEN uid[i] ELSE buffer
  BY DEF Shape
<1> QED
  BY <1>1, <1>2, <1>3 DEF Shape, Learnt, Bits

\* The cards that answer a SELECT agree on whether another level follows.
LEMMA SelectAgrees ==
  ASSUME Shape, Learnt, state = "busy", known = 32,
         NEW c \in Answering, NEW d \in Answering, level < Len(Uid[c])
  PROVE  level < Len(Uid[d])
<1>1. /\ c \in Card /\ d \in Card /\ Uid[c][level] = Uid[d][level]
      /\ level \in 1 .. Len(Uid[c]) /\ level \in 1 .. Len(Uid[d])
  BY SelectAnswers, SelectConstants DEF Bits, Shape, Learnt
<1> QED
  BY <1>1, SelectConstants

\* SelectInv is an inductive invariant.
LEMMA Learning == Spec => []SelectInv
<1>1. Init => SelectInv
  <2> SUFFICES ASSUME Init PROVE SelectInv
    OBVIOUS
  <2>1. Shape
    <3>1. <<>> \in Seq(SUBSET Bit)
      OBVIOUS
    <3> QED
      BY <3>1 DEF Init, Shape
  <2>2. Learnt
    <3>1. Len(uid) = 0 /\ level = 1 /\ ready \subseteq Card
      BY DEF Init
    <3>2. \A c \in Card : 1 <= Len(Uid[c])
      <4>1. \A c \in Card : Len(Uid[c]) \in 1 .. 3
        BY SelectConstants, Zenon
      <4> QED
        BY <4>1
    <3> QED
      BY <3>1, <3>2 DEF Learnt
  <2> QED
    BY <2>1, <2>2 DEF SelectInv, SelectsOne, Init
<1>2. SelectInv /\ [Next]_vars => SelectInv'
  <2> SUFFICES ASSUME SelectInv, [Next]_vars PROVE SelectInv'
    OBVIOUS
  <2>1. ASSUME ready' \subseteq ready, buffer' \subseteq Bit,
               UNCHANGED <<level, uid>>, state' \in {state, "error"},
               state = "busy"
        PROVE  SelectInv'
    BY <2>1 DEF SelectInv, Shape, Learnt, SelectsOne
  <2>2. CASE AnticollisionTimeout
    BY <2>1, <2>2 DEF AnticollisionTimeout, SelectInv, Shape
  <2>3. CASE AnticollisionCollides
    BY <2>1, <2>3 DEF AnticollisionCollides, Answering
  <2>4. CASE AnticollisionDone
    <3>1. Received(32) \subseteq Bit
      BY DEF Received, Prefix, Bit, SelectInv, Shape
    <3> QED
      BY <2>1, <2>4, <3>1 DEF AnticollisionDone, Answering
  <2>5. CASE Select /\ Answering = {}
    BY <2>1, <2>5 DEF Select, SelectInv, Shape
  <2>6. CASE Select /\ \E c \in Answering : level < Len(Uid[c])
    <3>1. /\ state = "busy" /\ state' = "busy" /\ known = 32
          /\ ready' = Answering /\ uid' = Append(uid, buffer)
          /\ level' = level + 1 /\ buffer' = buffer
      BY <2>6 DEF Select
    <3>2. \A c \in Answering : level < Len(Uid[c])
      BY <2>6, <3>1, SelectAgrees DEF SelectInv
    <3>3. Shape'
      <4> PICK c \in Answering : level < Len(Uid[c])
        BY <2>6
      <4>1. c \in Card /\ uid' \in Seq(SUBSET Bit)
        BY <3>1, SelectAnswers, SelectLearns DEF SelectInv
      <4>2. Len(Uid[c]) \in 1 .. 3
        BY <4>1, SelectConstants, Zenon
      <4>3. level' \in 1 .. 3
        <5>1. \A m, n \in 1 .. 3 : m < n => m + 1 \in 1 .. 3
          OBVIOUS
        <5> QED
          BY <3>1, <4>2, <5>1, Zenon DEF SelectInv, Shape
      <4> QED
        BY <3>1, <4>1, <4>3 DEF SelectInv, Shape, Answering
    <3>4. Learnt'
      <4>1. level \in 1 .. 3
        BY DEF SelectInv, Shape
      <4>2. ASSUME NEW c \in Answering
            PROVE  /\ Len(uid') = level
                   /\ level + 1 <= Len(Uid[c])
                   /\ \A i \in 1 .. level : uid'[i] = Uid[c][i]
        <5>1. Len(Uid[c]) \in 1 .. 3
          BY <3>1, SelectAnswers, SelectConstants, Zenon DEF SelectInv
        <5>2. level + 1 <= Len(Uid[c])
          <6>1. \A m, n \in 1 .. 3 : m < n => m + 1 <= n
            OBVIOUS
          <6> QED
            BY <3>2, <4>1, <5>1, <6>1, Zenon
        <5> QED
          BY <3>1, <5>2, SelectLearns, Zenon DEF SelectInv
      <4>3. Len(uid') = level' - 1
        <5>1. Len(uid') = level
          BY <2>6, <4>2
        <5> QED
          BY <3>1, <4>1, <5>1
      <4>4. Len(uid') = level
        BY <2>6, <4>2
      <4> QED
        BY <3>1, <4>2, <4>3, <4>4, Zenon DEF Learnt
    <3> QED
      BY <3>1, <3>3, <3>4 DEF SelectInv, SelectsOne
  <2>7. CASE Select /\ Answering # {} /\ ~\E c \in Answering : level < Len(Uid[c])
    <3>1. /\ state = "busy" /\ state' = "ok" /\ known = 32
          /\ ready' = Answering /\ uid' = Append(uid, buffer)
          /\ level' = level /\ buffer' = buffer
      BY <2>7 DEF Select
    <3>2. \A c \in Answering : c \in Card /\ uid' = Uid[c]
      <4> SUFFICES ASSUME NEW c \in Answering PROVE c \in Card /\ uid' = Uid[c]
        OBVIOUS
      <4>1. c \in Card /\ Uid[c] \in Seq(SUBSET Bit)
        BY <3>1, SelectAnswers, SelectConstants DEF SelectInv
      <4>2. /\ uid' \in Seq(SUBSET Bit) /\ Len(uid') = level
            /\ Len(Uid[c]) = level
            /\ \A i \in 1 .. level : uid'[i] = Uid[c][i]
        <5>1. ~(level < Len(Uid[c])) /\ level \in Nat /\ Len(Uid[c]) \in Nat
          BY <2>7, <4>1 DEF SelectInv, Shape
        <5> QED
          BY <3>1, <5>1, SelectLearns DEF SelectInv
      <4> QED
        BY <4>1, <4>2
    <3>3. \E c \in Answering : Answering = {c} /\ uid' = Uid[c]
      BY <2>7, <3>2, SelectConstants
    <3>4. Shape'
      BY <2>7, <3>1, SelectLearns DEF SelectInv, Shape, Answering
    <3> QED
      BY <3>1, <3>3, <3>4 DEF SelectInv, Learnt, SelectsOne
  <2>8. CASE FrameLost
    BY <2>1, <2>8 DEF FrameLost, SelectInv, Shape
  <2>9. ASSUME NEW c \in Card, Leaves(c) PROVE SelectInv'
    BY <2>1, <2>9 DEF Leaves, SelectInv, Shape
  <2>10. CASE UNCHANGED vars
    BY <2>10 DEF vars, SelectInv, Shape, Learnt, SelectsOne
  <2>11. Select => \/ Select /\ Answering = {}
                   \/ Select /\ \E c \in Answering : level < Len(Uid[c])
                   \/ /\ Select /\ Answering # {}
                      /\ ~\E c \in Answering : level < Len(Uid[c])
    BY Zenon
  <2> QED
    BY <2>2, <2>3, <2>4, <2>5, <2>6, <2>7, <2>8, <2>9, <2>10, <2>11
    DEF Next, SelectStep
<1> QED
  BY <1>1, <1>2, PTL DEF Spec

\* PICC_Select never returns STATUS_OK with a UID that no card has, that two
\* cards might have, or with more than one card selected: whichever cards are
\* there, wherever their UIDs collide, whoever leaves and whatever is lost.
THEOREM SelectsOneCard == Spec => []SelectsOne
<1>1. SelectInv => SelectsOne
  BY DEF SelectInv
<1> QED
  BY <1>1, Learning, PTL
-----------------------------------------------------------------------------
(* The function of the base class never loses all the cards. *)

\* The rest of the types.
Domains ==
  /\ state \in {"busy", "ok", "error"}
  /\ known \in 0 .. 32
  /\ calm \in BOOLEAN /\ extended \in Versions

\* As long as nothing disturbs it, the base class's function has a card that
\* answers the next frame.
NobodyLost ==
  ~extended /\ calm => /\ state # "error"
                       /\ state = "busy" => Answering # {}

\* A nonempty set of natural numbers has a least element.
LEMMA LeastOf ==
  ASSUME NEW S \in SUBSET Nat, S # {}
  PROVE  \E p \in S : \A q \in S : p <= q
<1>1. PICK p \in S : \A q \in S : <<q, p>> \notin OpToRel(<, Nat)
  BY NatLessThanWellFounded, WFMin, Zenon
<1>2. \A q \in S : ~(q < p)
  BY <1>1 DEF OpToRel
<1> QED
  BY <1>2

\* What the cards that take part send is 32 bits.
LEMMA BitsAreBits ==
  ASSUME SelectInv, state = "busy", NEW c \in Answering
  PROVE  c \in ready /\ c \in Card /\ Bits(c) \subseteq Bit
<1>1. c \in ready /\ c \in Card
  BY DEF Answering, SelectInv, Shape
<1>2. Uid[c] \in Seq(SUBSET Bit) /\ level \in 1 .. Len(Uid[c])
  BY <1>1, SelectConstants DEF SelectInv, Shape, Learnt
<1> QED
  BY <1>1, <1>2 DEF Bits

\* The first collision is one, and before it all answers agree.
LEMMA FirstIsFirst ==
  ASSUME SelectInv, state = "busy", Collisions # {}
  PROVE  /\ FirstCollision \in Collisions
         /\ \A q \in Collisions : FirstCollision <= q
<1>1. Collisions \in SUBSET Nat
  <2>1. \A p \in Collisions : \E c \in Answering : p \in Bits(c)
    BY DEF Collisions
  <2> QED
    BY <2>1, BitsAreBits DEF Bit
<1>2. \E p \in Collisions : \A q \in Collisions : p <= q
  BY <1>1, LeastOf
<1> QED
  BY <1>2 DEF FirstCollision

\* A bit behind the known ones at which no answers collide is the same in every
\* answer.
LEMMA Agreed ==
  ASSUME NEW q, q > known, q \notin Collisions,
         NEW c \in Answering, NEW d \in Answering, q \in Bits(c)
  PROVE  q \in Bits(d)
BY DEF Collisions

\* The base class sets the bit at which the answers collide.
LEMMA SetsTheCollidingBit ==
  ASSUME ~extended, NEW pos \in Bit
  PROVE  BitToSet(pos) = pos
BY DEF BitToSet, Bit, ByteBits

\* If no answers collide in the first n bits, what is received up to n is what
\* each of the answering cards has there.
LEMMA ReceivedIsSent ==
  ASSUME SelectInv, state = "busy", known \in 0 .. 32,
         NEW n \in known .. 32, \A q \in Collisions : q > n,
         NEW c \in Answering, NEW q \in 1 .. n
  PROVE  q \in Received(n) <=> q \in Bits(c)
<1>1. CASE q <= known
  <2>1. q \in Bits(c) <=> q \in buffer
    BY <1>1 DEF Answering, Prefix
  <2>2. q \in Received(n) <=> q \in buffer
    BY <1>1 DEF Received, Prefix
  <2> QED
    BY <2>1, <2>2
<1>2. CASE q > known
  <2>1. q \notin Collisions
    OBVIOUS
  <2>2. q \in Received(n) <=> \E d \in Answering : q \in Bits(d)
    BY <1>2 DEF Received, Prefix
  <2> QED
    BY <1>2, <2>1, <2>2, Agreed
<1> QED
  BY <1>1, <1>2

\* After a collision the cards that have the bit just set answer again.
LEMMA CollisionKeepsOne ==
  ASSUME SelectInv, Domains, ~extended, AnticollisionCollides
  PROVE  /\ Answering' # {} /\ known' \in 0 .. 32
         /\ state' = "busy" /\ Answering # {}
<1> DEFINE pos == FirstCollision
<1>1. /\ state = "busy" /\ state' = "busy" /\ Collisions # {} /\ level' = level
      /\ known' = pos /\ ready' = Answering
      /\ buffer' = (Received(pos - 1) \cup {BitToSet(pos)}) \cap Bit
  BY DEF AnticollisionCollides
<1>2. pos \in Collisions /\ \A q \in Collisions : q > pos - 1
  <2>1. pos \in Collisions /\ \A q \in Collisions : pos <= q
    BY <1>1, FirstIsFirst
  <2>2. \A q \in Collisions : q \in Bit
    BY <1>1, BitsAreBits DEF Collisions
  <2> QED
    BY <2>1, <2>2 DEF Bit
<1>3. PICK c \in Answering : pos \in Bits(c)
  BY <1>2 DEF Collisions
<1>4. /\ pos \in Bit /\ pos > known /\ known \in 0 .. 32
      /\ Bits(c) \subseteq Bit
  BY <1>1, <1>2, <1>3, BitsAreBits DEF Collisions, Domains
<1>5. buffer' = (Received(pos - 1) \cup {pos}) \cap Bit
  BY <1>1, <1>4, SetsTheCollidingBit
<1>6. pos - 1 \in known .. 32 /\ pos \in 1 .. 32
  BY <1>4 DEF Bit
<1>7. \A q \in 1 .. pos - 1 : q \in Received(pos - 1) <=> q \in Bits(c)
  BY <1>1, <1>2, <1>4, <1>6, ReceivedIsSent
<1>8. \A q \in 1 .. pos : q \in Bits(c) <=> q \in buffer'
  <2> SUFFICES ASSUME NEW q \in 1 .. pos PROVE q \in Bits(c) <=> q \in buffer'
    OBVIOUS
  <2>1. q \in Bit
    BY <1>6 DEF Bit
  <2>2. CASE q = pos
    BY <1>3, <1>4, <1>5, <2>2
  <2>3. CASE q # pos
    <3>1. q \in 1 .. pos - 1
      BY <1>6, <2>3
    <3> QED
      BY <1>5, <1>7, <2>1, <2>3, <3>1
  <2> QED
    BY <2>2, <2>3
<1>9. (Bits(c) \cap (1 .. pos)) = (buffer' \cap (1 .. pos))
  BY <1>8
<1>10. c \in Answering'
  BY <1>1, <1>3, <1>9 DEF Answering, Bits, Prefix
<1> QED
  BY <1>1, <1>3, <1>6, <1>10

\* Once all 32 bits have arrived, every card that sent them answers SELECT.
LEMMA DoneKeepsAll ==
  ASSUME SelectInv, Domains, AnticollisionDone
  PROVE  Answering' # {} /\ known' \in 0 .. 32 /\ state' = "busy"
<1>1. /\ state = "busy" /\ state' = "busy" /\ Collisions = {} /\ level' = level
      /\ known' = 32 /\ ready' = Answering /\ buffer' = Received(32)
      /\ Answering # {} /\ known \in 0 .. 32
  BY DEF AnticollisionDone, Domains
<1>2. PICK c \in Answering : TRUE
  BY <1>1
<1>3. \A q \in 1 .. 32 : q \in Received(32) <=> q \in Bits(c)
  BY <1>1, ReceivedIsSent
<1>4. (Bits(c) \cap (1 .. 32)) = (buffer' \cap (1 .. 32))
  BY <1>1, <1>3
<1>5. c \in Answering'
  BY <1>1, <1>4 DEF Answering, Bits, Prefix
<1> QED
  BY <1>1, <1>5

\* The rest of the types hold, and the cards that take part are never all lost.
LEMMA Keeping == Spec => [](Domains /\ NobodyLost)
<1>1. Init => Domains /\ NobodyLost
  BY DEF Init, Domains, NobodyLost, Answering, Prefix
<1>2. SelectInv /\ Domains /\ NobodyLost /\ [Next]_vars => Domains' /\ NobodyLost'
  <2> SUFFICES ASSUME SelectInv, Domains, NobodyLost, [Next]_vars
               PROVE  Domains' /\ NobodyLost'
    OBVIOUS
  <2>1. CASE AnticollisionTimeout
    BY <2>1 DEF AnticollisionTimeout, Domains, NobodyLost
  <2>2. CASE AnticollisionCollides
    <3>1. /\ extended' = extended /\ calm' = calm /\ state' = "busy"
          /\ FirstCollision \in Bit /\ known' = FirstCollision
      <4>1. /\ state = "busy" /\ state' = state /\ Collisions # {}
            /\ known' = FirstCollision /\ extended' = extended /\ calm' = calm
        BY <2>2 DEF AnticollisionCollides
      <4>2. FirstCollision \in Collisions
        BY <4>1, FirstIsFirst
      <4> QED
        BY <4>1, <4>2, BitsAreBits DEF Collisions
    <3>2. Domains'
      BY <3>1 DEF Domains, Bit
    <3>3. ~extended => Answering' # {}
      BY <2>2, CollisionKeepsOne
    <3> QED
      BY <3>1, <3>2, <3>3 DEF NobodyLost
  <2>3. CASE AnticollisionDone
    BY <2>3, DoneKeepsAll DEF AnticollisionDone, Domains, NobodyLost
  <2>4. CASE Select
    <3>1. /\ extended' = extended /\ calm' = calm /\ ready' = Answering
          /\ state = "busy" /\ state' \in {"busy", "ok", "error"}
          /\ known' \in {0, known}
          /\ state' = "error" => Answering = {}
          /\ state' = "busy" => known' = 0 /\ Answering # {}
      BY <2>4 DEF Select
    <3>2. Domains'
      BY <3>1 DEF Domains
    <3>3. known' = 0 => Answering' = ready'
      BY DEF Answering, Prefix
    <3> QED
      BY <3>1, <3>2, <3>3 DEF NobodyLost
  <2>5. CASE FrameLost
    BY <2>5 DEF FrameLost, Domains, NobodyLost
  <2>6. ASSUME NEW c \in Card, Leaves(c) PROVE Domains' /\ NobodyLost'
    BY <2>6 DEF Leaves, Domains, NobodyLost
  <2>7. CASE UNCHANGED vars
    BY <2>7 DEF vars, Domains, NobodyLost, Answering, Bits, Prefix
  <2> QED
    BY <2>1, <2>2, <2>3, <2>4, <2>5, <2>6, <2>7 DEF Next, SelectStep
<1> QED
  BY <1>1, <1>2, Learning, PTL DEF Spec

\* The function of the base class fails only if a card is taken away or a frame
\* is lost: after every collision it goes on with a card that has the bit it
\* chose, for any number of cards and wherever their UIDs collide.
THEOREM BaseKeepsACard == Spec => []BaseFailsOnlyIfDisturbed
<1>1. NobodyLost => BaseFailsOnlyIfDisturbed
  BY DEF NobodyLost, BaseFailsOnlyIfDisturbed
<1> QED
  BY <1>1, Keeping, PTL

\* Every variable keeps its type; with both versions the count of known bits
\* stays within a level.
THEOREM Typing == Spec => []TypeOK
<1>1. SelectInv /\ Domains => TypeOK
  BY DEF SelectInv, Shape, Domains, TypeOK
<1> QED
  BY <1>1, Learning, Keeping, PTL
=============================================================================
