----------------------------- MODULE PcdProofs -----------------------------
(***************************************************************************)
(* Proofs about Pcd, for any number of frames and any number of rounds that *)
(* the driver waits.                                                        *)
(***************************************************************************)
EXTENDS Pcd, SequenceTheorems, TLAPS

\* The FIFO holds one packet, from the reader or the card, of one of these frames.
Holds(fifo, who, frames) ==
  Len(fifo) = 1 /\ fifo[1].from = who /\ fifo[1].of \in frames

\* The numbers of frames do not run ahead, and an exchange is open as long as its
\* function runs.
CountInv ==
  /\ asked \in 0 .. frame /\ given \subseteq 1 .. frame
  /\ (status = "busy") <=> (pc \in Exchanging)
  /\ pc \in Exchanging => frame > 0
  /\ chip.testMode => pc = "testPoll"

\* What is in the FIFO, by the phase of the command that uses it.
RegsInv ==
  /\ chip.command \in {"Transceive", "MFAuthent"} /\ chip.phase = "transmit" =>
       \/ chip.fifo = <<>>
       \/ Holds(chip.fifo, "reader", 1 .. frame) /\ ~chip.fifo[1].damaged
  /\ chip.command = "Transceive" /\ chip.phase = "receive" => chip.fifo = <<>>
  /\ chip.command = "Transceive" /\ chip.phase = "rest" =>
       chip.fifo = <<>> \/ Holds(chip.fifo, "card", 1 .. frame)

\* The steps up to the start of the command leave no trace of an earlier frame.
PrepareInv ==
  /\ pc \in {"clearIrq", "flush", "fill", "execute"} => chip.command = "Idle"
  /\ pc \in {"flush", "fill", "execute"} => chip.irq \cap {"Rx", "Idle"} = {}
  /\ pc = "fill" => chip.fifo = <<>>
  /\ pc = "execute" => chip.fifo = <<Frame>>
  /\ pc = "start" => op # "Auth"

\* From then on what the chip has received belongs to this frame.
ReceiveInv ==
  pc \in {"start", "poll", "collect"} /\ op # "Auth" =>
    /\ chip.command = "Transceive"
    /\ chip.phase = "transmit" => Holds(chip.fifo, "reader", {frame})
    /\ chip.phase = "receive" => asked \in {0, frame}
    /\ chip.phase = "rest" => Holds(chip.fifo, "card", {frame}) /\ frame \in given
    /\ chip.phase # "rest" => chip.irq \cap {"Rx", "Idle"} = {}

AuthInv ==
  pc \in {"poll", "collect"} /\ op = "Auth" =>
    \/ /\ chip.command = "MFAuthent" /\ "Idle" \notin chip.irq
       /\ chip.phase = "transmit" => Holds(chip.fifo, "reader", {frame})
    \/ chip.command = "Idle" /\ frame \in given

\* An answer that was read is this frame's.
BackInv ==
  /\ pc = "collect" => chip.irq \cap WaitIrq # {}
  /\ pc \in {"check", "checkPoll"} => op = "Read" /\ Holds(back, "card", {frame}) /\ frame \in given
  /\ status = "busy" /\ pc \notin {"check", "checkPoll"} => back = <<>>

\* The CRC that the driver waits for is that of its data.
CrcInv ==
  /\ pc \in {"crcPoll", "checkPoll"} =>
       /\ chip.command = "CalcCRC"
       /\ chip.crcIrq => chip.fifo = <<>> /\ chip.crcResult = CrcData
       /\ ~chip.crcIrq => chip.fifo = CrcData
  /\ pc \in {"crc", "crcPoll"} => op \in SendsCrc
  /\ pc \in {"stop", "clearIrq", "flush", "fill", "execute"} /\ op \in SendsCrc => crcRight

PcdInv ==
  /\ TypeOK /\ CountInv /\ RegsInv /\ PrepareInv /\ ReceiveInv /\ AuthInv /\ BackInv /\ CrcInv
  /\ OwnAnswer /\ ReadIsIntact

-----------------------------------------------------------------------------
(* Writes to the registers *)

LEMMA CommandRegs ==
  ASSUME NEW regs \in Chip, NEW c \in {"Idle", "CalcCRC", "Transceive", "MFAuthent"}
  PROVE  LET new == Command(regs, c)
         IN  /\ new \in Chip /\ new.command = c /\ new.phase = "transmit"
             /\ new.irq = regs.irq /\ new.crcIrq = regs.crcIrq /\ new.fifo = regs.fifo
             /\ new.crcResult = regs.crcResult /\ new.testMode = regs.testMode
             /\ new.sending = regs.sending
BY DEF Command, Chip

LEMMA FifoRegs ==
  ASSUME NEW regs \in Chip, NEW f \in Seq(Packet)
  PROVE  LET new == [regs EXCEPT !.fifo = f]
         IN  /\ new \in Chip /\ new.command = regs.command /\ new.phase = regs.phase
             /\ new.irq = regs.irq /\ new.crcIrq = regs.crcIrq /\ new.fifo = f
             /\ new.crcResult = regs.crcResult /\ new.testMode = regs.testMode
             /\ new.sending = regs.sending
BY DEF Chip

LEMMA FrameFits ==
  ASSUME frame \in 0 .. MaxFrames
  PROVE  /\ Frame \in Packet /\ [Frame EXCEPT !.damaged = FALSE] \in Packet
         /\ Frame.from = "reader" /\ Frame.of = frame
         /\ (op \in SendsCrc => crcRight) => Frame.damaged = FALSE
<1> DEFINE d == op \in SendsCrc /\ ~crcRight
<1>1. d \in BOOLEAN
  OBVIOUS
<1>2. (op \in SendsCrc => crcRight) => d = FALSE
  OBVIOUS
<1> HIDE DEF d
<1>3. Frame = [from |-> "reader", of |-> frame, kind |-> "frame", damaged |-> d]
  BY DEF Frame, d
<1>4. "frame" \in DOMAIN Bytes
  BY DEF Bytes
<1> QED
  BY <1>1, <1>2, <1>3, <1>4 DEF Packet

LEMMA InitInv == Init => PcdInv
<1> SUFFICES ASSUME Init PROVE PcdInv
  OBVIOUS
<1> USE PcdConstants
<1>1. <<>> \in Seq(Packet)
  OBVIOUS
<1>2. Fresh \in Chip
  BY <1>1 DEF Fresh, Chip
<1>3. chip.command = "SoftReset" /\ chip.testMode = FALSE
  BY DEF Init, Fresh
<1>4. TypeOK
  <2>1. back \in Seq(Packet) /\ chip \in Chip
    BY <1>1, <1>2 DEF Init
  <2>2. crcRight \in BOOLEAN
    BY DEF Init
  <2> QED
    BY <2>1, <2>2 DEF Init, TypeOK, Op, Status
<1>5. CountInv /\ RegsInv /\ PrepareInv
  BY <1>3 DEF Init, CountInv, RegsInv, PrepareInv, Exchanging
<1>6. ReceiveInv /\ AuthInv /\ BackInv /\ CrcInv /\ OwnAnswer /\ ReadIsIntact
  BY DEF Init, ReceiveInv, AuthInv, BackInv, CrcInv, OwnAnswer, ReadIsIntact
<1> QED
  BY <1>4, <1>5, <1>6 DEF PcdInv

-----------------------------------------------------------------------------
(* Steps between the exchanges *)

LEMMA Outside ==
  ASSUME PcdInv, pc \notin Exchanging,
         pc' \in {"done", "initReset", "testReset", "configure", "powerUp", "test", "testPoll"},
         UNCHANGED <<op, frame, status, back, crcRight, asked, given>>,
         polls' \in Nat \ {0}, selfTest' \in {"none", "passed", "failed"},
         chip' \in Chip, chip'.testMode => pc' = "testPoll", RegsInv'
  PROVE  PcdInv'
<1> USE DEF PcdInv
<1>1. TypeOK'
  <2>1. crcRight' \in BOOLEAN
    BY DEF TypeOK
  <2> QED
    BY <2>1 DEF TypeOK
<1>2. CountInv'
  BY DEF CountInv, Exchanging
<1>3. PrepareInv' /\ ReceiveInv' /\ AuthInv' /\ CrcInv'
  BY DEF PrepareInv, ReceiveInv, AuthInv, CrcInv
<1>4. BackInv'
  BY DEF BackInv, CountInv, Exchanging
<1>5. OwnAnswer' /\ ReadIsIntact'
  BY DEF OwnAnswer, ReadIsIntact
<1> QED
  BY <1>1, <1>2, <1>3, <1>4, <1>5

Between ==
  \/ Reset("initReset") \/ Reset("testReset") \/ HardReset \/ AwaitReset \/ Configure
  \/ AntennaOff \/ SoftPowerDown \/ SoftPowerUp \/ PoweredUp \/ TestStart
  \/ \E known \in BOOLEAN : TestEnd(known)

LEMMA BetweenStep == PcdInv /\ Between => PcdInv'
<1> SUFFICES ASSUME PcdInv, Between PROVE PcdInv'
  OBVIOUS
<1> USE PcdConstants
<1>0. /\ chip \in Chip /\ RegsInv /\ (chip.testMode => pc = "testPoll")
      /\ polls \in Nat \ {0} /\ selfTest \in {"none", "passed", "failed"}
  BY DEF PcdInv, TypeOK, CountInv
<1>1. CASE Reset("initReset") \/ Reset("testReset")
  <2>1. Fresh \in Chip /\ Fresh.command = "SoftReset" /\ Fresh.testMode = FALSE
    <3>1. <<>> \in Seq(Packet)
      OBVIOUS
    <3> QED
      BY <3>1 DEF Fresh, Chip
  <2> QED
    BY <1>0, <1>1, <2>1, Outside DEF Reset, RegsInv, Exchanging
<1>2. CASE HardReset
  <2>1. chip' \in Chip /\ chip'.command = "Idle" /\ chip'.testMode = FALSE
    <3>1. <<>> \in Seq(Packet)
      OBVIOUS
    <3> QED
      BY <1>2, <3>1 DEF HardReset, Fresh, Chip
  <2> QED
    BY <1>0, <1>2, <2>1, Outside DEF HardReset, Goes, RegsInv, Exchanging
<1>3. CASE AwaitReset
  <2>1. /\ pc \in {"initReset", "testReset"}
        /\ pc' \in {"initReset", "testReset", "configure", "test"}
        /\ polls' \in Nat \ {0}
        /\ UNCHANGED <<op, frame, status, back, crcRight, selfTest, chip, asked, given>>
    BY <1>0, <1>3 DEF AwaitReset
  <2> QED
    BY <1>0, <2>1, Outside DEF RegsInv, Exchanging
<1>4. CASE Configure
  <2>1. /\ chip' \in Chip /\ chip'.command = chip.command /\ chip'.phase = chip.phase
        /\ chip'.fifo = chip.fifo /\ chip'.testMode = chip.testMode
    BY <1>0, <1>4 DEF Configure, AntennaOn, Chip
  <2> QED
    BY <1>0, <1>4, <2>1, Outside DEF Configure, Goes, RegsInv, Exchanging
<1>5. CASE AntennaOff \/ SoftPowerDown \/ SoftPowerUp \/ PoweredUp
  <2>1. /\ chip' \in Chip /\ chip'.command = chip.command /\ chip'.phase = chip.phase
        /\ chip'.fifo = chip.fifo /\ chip'.testMode = chip.testMode
    <3>1. CASE AntennaOff
      BY <1>0, <3>1 DEF AntennaOff, Chip
    <3>2. CASE SoftPowerDown
      BY <1>0, <3>2 DEF SoftPowerDown, Chip
    <3>3. CASE SoftPowerUp
      BY <1>0, <3>3 DEF SoftPowerUp, Chip
    <3>4. CASE PoweredUp
      BY <1>0, <3>4 DEF PoweredUp
    <3> QED
      BY <1>5, <3>1, <3>2, <3>3, <3>4
  <2>2. /\ pc \in {"done", "powerUp"} /\ pc' \in {"done", "powerUp"}
        /\ UNCHANGED <<op, frame, polls, status, back, crcRight, selfTest, asked, given>>
    BY <1>5 DEF AntennaOff, SoftPowerDown, SoftPowerUp, PoweredUp, Goes, driver
  <2> QED
    BY <1>0, <2>1, <2>2, Outside DEF RegsInv, Exchanging
<1>6. CASE TestStart
  <2>1. chip' \in Chip /\ chip'.command = "CalcCRC"
    <3>1. <<>> \in Seq(Packet) /\ TRUE \in BOOLEAN
      OBVIOUS
    <3>2. Command(chip, "CalcCRC") \in Chip /\ Command(chip, "CalcCRC").command = "CalcCRC"
      BY <1>0, CommandRegs
    <3> HIDE DEF Command
    <3> QED
      BY <1>6, <3>1, <3>2 DEF TestStart, Chip
  <2> QED
    BY <1>0, <1>6, <2>1, Outside DEF TestStart, RegsInv, Exchanging
<1>7. CASE \E known \in BOOLEAN : TestEnd(known)
  <2>1. chip' \in Chip /\ chip'.command = "Idle" /\ chip'.testMode = FALSE
    <3>1. <<>> \in Seq(Packet)
      OBVIOUS
    <3>2. Command(chip, "Idle") \in Chip /\ Command(chip, "Idle").command = "Idle"
      BY <1>0, CommandRegs
    <3> HIDE DEF Command
    <3> QED
      BY <1>7, <3>1, <3>2 DEF TestEnd, AfterTest, Chip
  <2> QED
    BY <1>0, <1>7, <2>1, Outside DEF TestEnd, TestResult, RegsInv, Exchanging
<1> QED
  BY <1>1, <1>2, <1>3, <1>4, <1>5, <1>6, <1>7 DEF Between

-----------------------------------------------------------------------------
(* Steps of the driver in an exchange *)

LEMMA CallStep == ASSUME PcdInv, NEW o \in Op, Call(o) PROVE PcdInv'
<1> USE PcdConstants DEF PcdInv
<1>1. /\ pc = "done" /\ pc' \in {"crc", "stop"} /\ (pc' = "crc" <=> o \in SendsCrc)
      /\ op' = o /\ frame' = frame + 1 /\ status' = "busy" /\ back' = <<>>
      /\ crcRight' = FALSE /\ frame < MaxFrames
      /\ UNCHANGED <<polls, selfTest, chip, asked, given>>
  BY DEF Call
<1>2. TypeOK'
  <2>1. back' \in Seq(Packet) /\ crcRight' \in BOOLEAN
    <3>1. <<>> \in Seq(Packet) /\ FALSE \in BOOLEAN
      OBVIOUS
    <3> QED
      BY <1>1, <3>1
  <2>2. frame' \in 0 .. MaxFrames
    BY <1>1 DEF TypeOK
  <2>3. given' \subseteq 1 .. MaxFrames
    BY <1>1 DEF TypeOK
  <2> QED
    BY <1>1, <2>1, <2>2, <2>3 DEF TypeOK, Exchanging
<1>3. CountInv'
  BY <1>1 DEF CountInv, TypeOK, Exchanging
<1>4. RegsInv'
  <2>1. 1 .. frame \subseteq 1 .. frame'
    BY <1>1 DEF TypeOK
  <2> QED
    BY <1>1, <2>1 DEF RegsInv, Holds
<1>5. PrepareInv' /\ ReceiveInv' /\ AuthInv' /\ BackInv'
  BY <1>1 DEF PrepareInv, ReceiveInv, AuthInv, BackInv
<1>6. CrcInv' /\ OwnAnswer' /\ ReadIsIntact'
  BY <1>1 DEF CrcInv, OwnAnswer, ReadIsIntact
<1> QED
  BY <1>2, <1>3, <1>4, <1>5, <1>6

\* What the CRC is computed of is one packet.
LEMMA CrcDataFits ==
  ASSUME TypeOK, BackInv, pc \in {"crc", "crcPoll", "check", "checkPoll"}
  PROVE  CrcData \in Seq(Packet) /\ Len(CrcData) = 1
<1>1. CASE pc \in {"crc", "crcPoll"}
  <2>1. [Frame EXCEPT !.damaged = FALSE] \in Packet
    BY FrameFits DEF TypeOK
  <2> QED
    BY <1>1, <2>1 DEF CrcData
<1>2. CASE pc \in {"check", "checkPoll"}
  BY <1>2 DEF CrcData, TypeOK, BackInv, Holds
<1> QED
  BY <1>1, <1>2

LEMMA CalculateCRCStep == ASSUME PcdInv, CalculateCRC PROVE PcdInv'
<1> USE PcdConstants DEF PcdInv
<1>1. /\ \/ pc = "crc" /\ pc' = "crcPoll"
         \/ pc = "check" /\ pc' = "checkPoll"
      /\ chip' = StartCrc /\ polls' \in Nat \ {0}
      /\ UNCHANGED <<op, frame, status, back, crcRight, selfTest, asked, given>>
  BY DEF CalculateCRC
<1>2. CrcData \in Seq(Packet)
  BY <1>1, CrcDataFits
<1>3. CrcData' = CrcData
  BY <1>1 DEF CrcData, Frame
<1>4. /\ chip' \in Chip /\ chip'.command = "CalcCRC" /\ chip'.crcIrq = FALSE
      /\ chip'.fifo = CrcData /\ chip'.testMode = chip.testMode
  <2>1. LET new == Command(chip, "CalcCRC")
        IN  new \in Chip /\ new.command = "CalcCRC" /\ new.testMode = chip.testMode
    BY CommandRegs DEF TypeOK
  <2>2. FALSE \in BOOLEAN
    OBVIOUS
  <2> HIDE DEF Command
  <2> QED
    BY <1>1, <1>2, <2>1, <2>2 DEF StartCrc, Chip
<1> HIDE DEF CrcData, StartCrc
<1>5. TypeOK'
  <2>1. crcRight' \in BOOLEAN
    BY <1>1 DEF TypeOK
  <2> QED
    BY <1>1, <1>4, <2>1 DEF TypeOK, Exchanging
<1>6. CountInv' /\ RegsInv'
  BY <1>1, <1>4 DEF CountInv, RegsInv, Exchanging
<1>7. PrepareInv' /\ ReceiveInv' /\ AuthInv'
  BY <1>1 DEF PrepareInv, ReceiveInv, AuthInv
<1>8. BackInv' /\ OwnAnswer' /\ ReadIsIntact'
  BY <1>1 DEF BackInv, OwnAnswer, ReadIsIntact, CountInv, Exchanging
<1>9. CrcInv'
  BY <1>1, <1>3, <1>4 DEF CrcInv
<1> QED
  BY <1>5, <1>6, <1>7, <1>8, <1>9

LEMMA Returns ==
  ASSUME PcdInv, pc' = "done", status' \in Status,
         UNCHANGED <<op, frame, crcRight, selfTest, asked, given>>,
         polls' \in Nat \ {0}, back' \in Seq(Packet),
         chip' \in Chip, chip'.testMode => FALSE, RegsInv', OwnAnswer', ReadIsIntact'
  PROVE  PcdInv'
<1> USE DEF PcdInv
<1>1. TypeOK'
  <2>1. crcRight' \in BOOLEAN
    BY DEF TypeOK
  <2> QED
    BY <2>1 DEF TypeOK
<1>2. CountInv'
  BY DEF CountInv, Exchanging, Status
<1>3. PrepareInv' /\ ReceiveInv' /\ AuthInv' /\ CrcInv'
  BY DEF PrepareInv, ReceiveInv, AuthInv, CrcInv
<1>4. BackInv'
  BY DEF BackInv, Status
<1> QED
  BY <1>1, <1>2, <1>3, <1>4

\* The calling function makes STATUS_OK only of STATUS_OK, or of a TIMEOUT that it
\* takes for an acknowledgement.
LEMMA Verdicts ==
  ASSUME NEW s \in Status, NEW answer
  PROVE  /\ Verdict(s, answer) \in Status
         /\ Verdict(s, answer) = "OK" => s = "OK" \/ (s = "TIMEOUT" /\ op = "TwoStep")
<1> DEFINE v == Verdict(s, answer)
           two == Level(answer) # 2
           four == ~FourBits(answer)
           nak == answer[1].kind = "nak"
<1>1. v = CASE s = "TIMEOUT" /\ op = "TwoStep" -> "OK"
            [] s = "OK" /\ op = "REQA" /\ two -> "ERROR"
            [] s = "OK" /\ op \in {"Command", "TwoStep"} /\ four -> "ERROR"
            [] s = "OK" /\ op \in {"Command", "TwoStep"} /\ nak -> "MIFARE_NACK"
            [] OTHER -> s
  BY DEF Verdict
<1> HIDE DEF v, two, four, nak
<1>2. v \in {"OK", "ERROR", "MIFARE_NACK", s}
  BY <1>1
<1>3. v = "OK" => s = "OK" \/ (s = "TIMEOUT" /\ op = "TwoStep")
  BY <1>1
<1> QED
  BY <1>2, <1>3 DEF v, Status

LEMMA GivesUpStep ==
  ASSUME PcdInv, CrcGivesUp \/ GivesUp \/ CollectFails \/ CollectNothing PROVE PcdInv'
<1> USE DEF PcdInv
<1>1. \E s \in Status :
         /\ Ends(s) /\ pc \in Exchanging
         /\ s = "OK" => \/ op = "TwoStep" /\ pc = "poll"
                        \/ op = "Auth" /\ frame \in given
  <2>1. CASE CrcGivesUp
    BY <2>1 DEF CrcGivesUp, Status, Exchanging
  <2>2. CASE GivesUp
    BY <2>2, Verdicts DEF GivesUp, Status, Exchanging
  <2>3. CASE CollectFails
    BY <2>3 DEF CollectFails, Status, Exchanging
  <2>4. CASE CollectNothing
    <3>1. frame \in given
      BY <2>4 DEF CollectNothing, BackInv, AuthInv, WaitIrq
    <3> QED
      BY <2>4, <3>1 DEF CollectNothing, Status, Exchanging
  <2> QED
    BY <2>1, <2>2, <2>3, <2>4
<1>2. PICK s \in Status :
         /\ Ends(s) /\ pc \in Exchanging
         /\ s = "OK" => \/ op = "TwoStep" /\ pc = "poll"
                        \/ op = "Auth" /\ frame \in given
  BY <1>1
<1>3. /\ pc' = "done" /\ status' = s
      /\ UNCHANGED <<op, frame, polls, back, crcRight, selfTest, chip, asked, given>>
  BY <1>2 DEF Ends, Return
<1>4. polls' \in Nat \ {0} /\ back' \in Seq(Packet) /\ chip' \in Chip
  BY <1>3 DEF TypeOK
<1>5. ~chip'.testMode /\ RegsInv'
  BY <1>2, <1>3 DEF CountInv, Exchanging, RegsInv
<1>6. OwnAnswer'
  <2>1. op = "TwoStep" /\ pc = "poll" => back = <<>>
    BY DEF BackInv, CountInv, Exchanging
  <2> QED
    BY <1>2, <1>3, <2>1 DEF OwnAnswer
<1>7. ReadIsIntact'
  BY <1>2, <1>3 DEF ReadIsIntact
<1> QED
  BY <1>3, <1>4, <1>5, <1>6, <1>7, Returns

LEMMA CrcReadyStep == ASSUME PcdInv, CrcReady PROVE PcdInv'
<1> USE DEF PcdInv
<1>1. /\ pc \in {"crcPoll", "checkPoll"} /\ chip.crcIrq
      /\ chip' = Command(chip, "Idle")
      /\ UNCHANGED <<op, frame, back, selfTest, asked, given>>
  BY DEF CrcReady
<1>2. /\ chip' \in Chip /\ chip'.command = "Idle" /\ chip'.testMode = chip.testMode
  BY <1>1, CommandRegs DEF TypeOK
<1>3. RegsInv' /\ ~chip'.testMode
  BY <1>1, <1>2 DEF RegsInv, CountInv
<1>4. chip.crcResult = CrcData /\ Len(CrcData) = 1 /\ CrcData \in Seq(Packet)
  BY <1>1, CrcDataFits DEF CrcInv
<1>6. CASE pc = "crcPoll"
  <2>1. /\ pc' = "stop" /\ crcRight' = CrcIsRight /\ UNCHANGED <<status, polls>>
    BY <1>1, <1>6 DEF CrcReady
  <2>2. CrcIsRight
    <3>1. CrcData = <<[Frame EXCEPT !.damaged = FALSE]>>
      BY <1>6 DEF CrcData
    <3> DEFINE p == [Frame EXCEPT !.damaged = FALSE]
    <3>2. [p EXCEPT !.damaged = FALSE] = p
      BY DEF Frame
    <3> HIDE DEF p
    <3>3. CrcData = <<p>>
      BY <3>1 DEF p
    <3>4. [i \in DOMAIN CrcData |-> [CrcData[i] EXCEPT !.damaged = FALSE]] = <<p>>
      <4>1. [i \in 1 .. 1 |-> p] = <<p>>
        OBVIOUS
      <4>2. DOMAIN <<p>> = 1 .. 1 /\ \A i \in 1 .. 1 : [<<p>>[i] EXCEPT !.damaged = FALSE] = p
        BY <3>2
      <4>3. [i \in DOMAIN <<p>> |-> [<<p>>[i] EXCEPT !.damaged = FALSE]] = [i \in 1 .. 1 |-> p]
        BY <4>2
      <4> QED
        BY <3>3, <4>1, <4>3
    <3> QED
      BY <1>4, <3>3, <3>4 DEF CrcIsRight
  <2>3. crcRight' = TRUE
    BY <2>1, <2>2 DEF CrcIsRight
  <2>4. TypeOK'
    <3>1. crcRight' \in BOOLEAN
      BY <2>3
    <3> QED
      BY <1>1, <1>2, <2>1, <3>1 DEF TypeOK, Exchanging
  <2>5. CountInv' /\ PrepareInv' /\ ReceiveInv' /\ AuthInv'
    BY <1>1, <1>2, <1>6, <2>1 DEF CountInv, PrepareInv, ReceiveInv, AuthInv, Exchanging
  <2>6. BackInv' /\ OwnAnswer' /\ ReadIsIntact'
    BY <1>1, <1>6, <2>1 DEF BackInv, OwnAnswer, ReadIsIntact, CountInv, Exchanging
  <2>7. CrcInv'
    BY <2>1, <2>3 DEF CrcInv
  <2> QED
    BY <1>3, <2>4, <2>5, <2>6, <2>7
<1>7. CASE pc = "checkPoll"
  <2>1. /\ pc' = "done" /\ UNCHANGED <<crcRight, polls>>
        /\ status' \in Status
        /\ status' = "OK" => CrcIsRight
    BY <1>1, <1>7 DEF CrcReady, Return, Status
  <2>2. CrcData = back /\ op = "Read" /\ Holds(back, "card", {frame}) /\ frame \in given
    BY <1>7 DEF CrcData, BackInv
  <2>3. CrcIsRight => \A i \in DOMAIN back : ~back[i].damaged
    <3>1. ASSUME CrcIsRight, NEW i \in DOMAIN back PROVE ~back[i].damaged
      <4>1. back[i] = [back[i] EXCEPT !.damaged = FALSE]
        BY <1>4, <2>2, <3>1 DEF CrcIsRight
      <4>2. back[i] \in Packet
        BY <1>4, <2>2, ElementOfSeq
      <4> QED
        BY <4>1, <4>2 DEF Packet
    <3> QED
      BY <3>1
  <2>4. OwnAnswer' /\ ReadIsIntact'
    BY <1>1, <2>1, <2>2, <2>3 DEF OwnAnswer, ReadIsIntact, Holds
  <2>5. polls' \in Nat \ {0} /\ back' \in Seq(Packet)
    BY <1>1, <2>1 DEF TypeOK
  <2> QED
    BY <1>1, <1>2, <1>3, <2>1, <2>4, <2>5, Returns
<1> QED
  BY <1>1, <1>6, <1>7

\* A step of the preparation: the chip's registers change, or nothing but pc.
LEMMA Prepares ==
  ASSUME PcdInv, pc \in Exchanging \ {"check", "checkPoll", "crc", "crcPoll"},
         pc' \in Exchanging \ {"crc", "crcPoll", "check", "checkPoll"},
         UNCHANGED <<op, frame, status, back, crcRight, selfTest, asked, given>>,
         polls' \in Nat \ {0}, chip' \in Chip, chip'.testMode = chip.testMode,
         pc = "stop" \/ pc' # "stop",
         RegsInv', PrepareInv', ReceiveInv', AuthInv', pc' = "collect" => chip'.irq \cap WaitIrq # {},
         op \in SendsCrc /\ pc' \in {"stop", "clearIrq", "flush", "fill", "execute"} => crcRight
  PROVE  PcdInv'
<1> USE DEF PcdInv
<1>1. TypeOK'
  <2>1. crcRight' \in BOOLEAN
    BY DEF TypeOK
  <2> QED
    BY <2>1 DEF TypeOK
<1>2. CountInv'
  BY DEF CountInv, Exchanging
<1>3. BackInv'
  BY DEF BackInv, WaitIrq, CountInv
<1>4. CrcInv'
  BY DEF CrcInv
<1>5. OwnAnswer' /\ ReadIsIntact'
  BY DEF OwnAnswer, ReadIsIntact, CountInv
<1> QED
  BY <1>1, <1>2, <1>3, <1>4, <1>5

LEMMA StopStep == ASSUME PcdInv, StopAndClear PROVE PcdInv'
<1> USE DEF PcdInv
<1>1. CASE Stop
  <2>1. /\ pc = "stop" /\ pc' = "clearIrq" /\ chip' = Command(chip, "Idle")
        /\ UNCHANGED <<op, frame, polls, status, back, crcRight, selfTest, asked, given>>
    BY <1>1 DEF Stop, Goes
  <2>2. chip' \in Chip /\ chip'.command = "Idle" /\ chip'.testMode = chip.testMode
    BY <2>1, CommandRegs DEF TypeOK
  <2>3. RegsInv' /\ PrepareInv' /\ ReceiveInv' /\ AuthInv'
    BY <2>1, <2>2 DEF RegsInv, PrepareInv, ReceiveInv, AuthInv
  <2>4. polls' \in Nat \ {0} /\ (op \in SendsCrc => crcRight)
    BY <2>1 DEF TypeOK, CrcInv
  <2> QED
    BY <2>1, <2>2, <2>3, <2>4, Prepares DEF Exchanging
<1>2. CASE ClearIrq
  <2>1. /\ pc = "clearIrq" /\ pc' = "flush" /\ chip' = [chip EXCEPT !.irq = {}]
        /\ UNCHANGED <<op, frame, polls, status, back, crcRight, selfTest, asked, given>>
    BY <1>2 DEF ClearIrq, Goes
  <2>2. /\ chip' \in Chip /\ chip'.command = chip.command /\ chip'.testMode = chip.testMode
        /\ chip'.irq = {}
    BY <2>1 DEF TypeOK, Chip
  <2>3. RegsInv' /\ PrepareInv' /\ ReceiveInv' /\ AuthInv'
    BY <2>1, <2>2 DEF RegsInv, PrepareInv, ReceiveInv, AuthInv
  <2>4. polls' \in Nat \ {0} /\ (op \in SendsCrc => crcRight)
    BY <2>1 DEF TypeOK, CrcInv
  <2> QED
    BY <2>1, <2>2, <2>3, <2>4, Prepares DEF Exchanging
<1> QED
  BY <1>1, <1>2 DEF StopAndClear

LEMMA FlushStep == ASSUME PcdInv, Flush PROVE PcdInv'
<1> USE DEF PcdInv
<1>1. /\ pc = "flush" /\ pc' = "fill" /\ chip' = [chip EXCEPT !.fifo = <<>>]
      /\ UNCHANGED <<op, frame, polls, status, back, crcRight, selfTest, asked, given>>
  BY DEF Flush, Goes
<1>2. /\ chip' \in Chip /\ chip'.command = chip.command /\ chip'.testMode = chip.testMode
      /\ chip'.irq = chip.irq /\ chip'.fifo = <<>>
  <2>1. <<>> \in Seq(Packet)
    OBVIOUS
  <2> QED
    BY <1>1, <2>1, FifoRegs DEF TypeOK
<1>3. RegsInv' /\ PrepareInv' /\ ReceiveInv' /\ AuthInv'
  BY <1>1, <1>2 DEF RegsInv, PrepareInv, ReceiveInv, AuthInv
<1>4. polls' \in Nat \ {0} /\ (op \in SendsCrc => crcRight)
  BY <1>1 DEF TypeOK, CrcInv
<1> QED
  BY <1>1, <1>2, <1>3, <1>4, Prepares DEF Exchanging

LEMMA FillStep == ASSUME PcdInv, Fill PROVE PcdInv'
<1> USE DEF PcdInv
<1>1. /\ pc = "fill" /\ pc' = "execute" /\ chip' = [Push(chip, Frame) EXCEPT !.sending = FALSE]
      /\ UNCHANGED <<op, frame, polls, status, back, crcRight, selfTest, asked, given>>
  BY DEF Fill, Goes
<1>2. Frame \in Packet
  BY FrameFits DEF TypeOK
<1>3. chip.fifo = <<>> /\ Append(chip.fifo, Frame) = <<Frame>> /\ <<Frame>> \in Seq(Packet)
  <2>1. chip.fifo = <<>>
    BY <1>1 DEF PrepareInv
  <2>2. \A p \in Packet : Append(<<>>, p) = <<p>>
    OBVIOUS
  <2>3. <<Frame>> \in Seq(Packet)
    BY <1>2
  <2> QED
    BY <1>2, <2>1, <2>2, <2>3
<1>4. /\ chip' \in Chip /\ chip'.command = chip.command /\ chip'.testMode = chip.testMode
      /\ chip'.irq = chip.irq /\ chip'.fifo = <<Frame>>
  <2>1. Push(chip, Frame) = [chip EXCEPT !.fifo = <<Frame>>]
    BY <1>3 DEF Push
  <2>2. LET new == [chip EXCEPT !.fifo = <<Frame>>]
        IN  /\ new \in Chip /\ new.command = chip.command /\ new.testMode = chip.testMode
            /\ new.irq = chip.irq /\ new.fifo = <<Frame>>
    BY <1>3, FifoRegs DEF TypeOK
  <2> DEFINE new == [chip EXCEPT !.fifo = <<Frame>>]
  <2>3. chip' = [new EXCEPT !.sending = FALSE]
    BY <1>1, <2>1
  <2>4. /\ new \in Chip /\ new.command = chip.command /\ new.testMode = chip.testMode
        /\ new.irq = chip.irq /\ new.fifo = <<Frame>>
    BY <2>2
  <2> HIDE DEF new
  <2> QED
    BY <2>3, <2>4 DEF Chip
<1>5. Frame' = Frame
  BY <1>1 DEF Frame
<1>6. RegsInv' /\ PrepareInv' /\ ReceiveInv' /\ AuthInv'
  BY <1>1, <1>4, <1>5 DEF RegsInv, PrepareInv, ReceiveInv, AuthInv
<1>7. polls' \in Nat \ {0} /\ (op \in SendsCrc => crcRight)
  BY <1>1 DEF TypeOK, CrcInv
<1> QED
  BY <1>1, <1>4, <1>6, <1>7, Prepares DEF Exchanging

LEMMA ExecuteStep == ASSUME PcdInv, Execute PROVE PcdInv'
<1> USE PcdConstants DEF PcdInv
<1>1. /\ pc = "execute" /\ polls' = ComPolls
      /\ UNCHANGED <<op, frame, status, back, crcRight, selfTest, asked, given>>
      /\ \/ op = "Auth" /\ pc' = "poll" /\ chip' = Command(chip, "MFAuthent")
         \/ op # "Auth" /\ pc' = "start" /\ chip' = Command(chip, "Transceive")
  BY DEF Execute
<1>2. /\ chip' \in Chip /\ chip'.testMode = chip.testMode /\ chip'.phase = "transmit"
      /\ chip'.irq = chip.irq /\ chip'.fifo = chip.fifo
      /\ op = "Auth" => chip'.command = "MFAuthent"
      /\ op # "Auth" => chip'.command = "Transceive"
  BY <1>1, CommandRegs DEF TypeOK
<1>3. chip.fifo = <<Frame>> /\ chip.irq \cap {"Rx", "Idle"} = {} /\ frame > 0
  BY <1>1 DEF PrepareInv, CountInv, Exchanging
<1>4. Frame.from = "reader" /\ Frame.of = frame /\ ~Frame.damaged
  BY <1>1, FrameFits DEF TypeOK, CrcInv
<1>5. Holds(chip'.fifo, "reader", {frame}) /\ ~chip'.fifo[1].damaged
  BY <1>2, <1>3, <1>4 DEF Holds
<1>6. RegsInv' /\ PrepareInv' /\ ReceiveInv' /\ AuthInv'
  <2>1. Holds(chip'.fifo, "reader", 1 .. frame)
    BY <1>3, <1>5 DEF Holds, TypeOK
  <2>2. RegsInv'
    BY <1>1, <1>2, <1>5, <2>1 DEF RegsInv
  <2>3. PrepareInv'
    BY <1>1 DEF PrepareInv
  <2>4. ReceiveInv' /\ AuthInv'
    BY <1>1, <1>2, <1>3, <1>5 DEF ReceiveInv, AuthInv
  <2> QED
    BY <2>2, <2>3, <2>4
<1>7. polls' \in Nat \ {0}
  BY <1>1
<1> QED
  BY <1>1, <1>2, <1>6, <1>7, Prepares DEF Exchanging

LEMMA StartSendStep == ASSUME PcdInv, StartSend PROVE PcdInv'
<1> USE DEF PcdInv
<1>1. /\ pc = "start" /\ pc' = "poll" /\ chip' = [chip EXCEPT !.sending = TRUE]
      /\ UNCHANGED <<op, frame, polls, status, back, crcRight, selfTest, asked, given>>
  BY DEF StartSend, Goes
<1>2. /\ chip' \in Chip /\ chip'.command = chip.command /\ chip'.testMode = chip.testMode
      /\ chip'.phase = chip.phase /\ chip'.irq = chip.irq /\ chip'.fifo = chip.fifo
  BY <1>1 DEF TypeOK, Chip
<1>3. RegsInv' /\ PrepareInv' /\ ReceiveInv' /\ AuthInv'
  <2>1. op # "Auth"
    BY <1>1 DEF PrepareInv
  <2> QED
    BY <1>1, <1>2, <2>1 DEF RegsInv, PrepareInv, ReceiveInv, AuthInv
<1>4. polls' \in Nat \ {0}
  BY <1>1 DEF TypeOK
<1> QED
  BY <1>1, <1>2, <1>3, <1>4, Prepares DEF Exchanging

LEMMA SucceededStep == ASSUME PcdInv, Succeeded PROVE PcdInv'
<1> USE DEF PcdInv
<1>1. /\ pc = "poll" /\ pc' = "collect" /\ chip.irq \cap WaitIrq # {}
      /\ UNCHANGED <<op, frame, polls, status, back, crcRight, selfTest, chip, asked, given>>
  BY DEF Succeeded, Goes
<1>2. RegsInv' /\ PrepareInv' /\ ReceiveInv' /\ AuthInv'
  BY <1>1 DEF RegsInv, PrepareInv, ReceiveInv, AuthInv
<1>3. polls' \in Nat \ {0} /\ chip' \in Chip
  BY <1>1 DEF TypeOK
<1> QED
  BY <1>1, <1>2, <1>3, Prepares DEF Exchanging

LEMMA PollsAgainStep == ASSUME PcdInv, PollsAgain PROVE PcdInv'
<1> USE DEF PcdInv
<1>1. /\ polls > 1 /\ polls' = polls - 1
      /\ UNCHANGED <<pc, op, frame, status, back, crcRight, selfTest, chip, asked, given>>
  BY DEF PollsAgain, NextRound
<1>2. TypeOK'
  <2>1. polls' \in Nat \ {0}
    BY <1>1 DEF TypeOK
  <2>2. crcRight' \in BOOLEAN
    BY <1>1 DEF TypeOK
  <2> QED
    BY <1>1, <2>1, <2>2 DEF TypeOK
<1>3. CountInv' /\ RegsInv' /\ ReceiveInv' /\ AuthInv'
  BY <1>1 DEF CountInv, RegsInv, ReceiveInv, AuthInv
<1>4. PrepareInv' /\ CrcInv'
  <2>1. Frame' = Frame
    BY <1>1 DEF Frame
  <2>2. CrcData' = CrcData
    BY <1>1, <2>1 DEF CrcData
  <2> QED
    BY <1>1, <2>1, <2>2 DEF PrepareInv, CrcInv
<1>5. BackInv' /\ OwnAnswer' /\ ReadIsIntact'
  BY <1>1 DEF BackInv, WaitIrq, OwnAnswer, ReadIsIntact
<1> QED
  BY <1>2, <1>3, <1>4, <1>5

\* What was received goes back to the caller, or to the check of its CRC.
LEMMA AfterReads ==
  ASSUME NEW answer, chip \in Chip, chip.error # "error", op # "Auth", AfterRead(answer)
  PROVE  \/ /\ pc' = "done" /\ UNCHANGED polls /\ status' \in Status
            /\ status' = "OK" => op # "Read"
         \/ pc' = "check" /\ op = "Read" /\ UNCHANGED <<status, polls>>
<1> DEFINE one == FourBits(answer)
           none == Level(answer) = 0
           v == Verdict("OK", answer)
<1>1. (CASE chip.error = "collision" -> Return("COLLISION")
        [] chip.error = "none" /\ op # "Read" -> Return(v)
        [] chip.error = "none" /\ op = "Read" /\ one -> Return("MIFARE_NACK")
        [] chip.error = "none" /\ op = "Read" /\ none -> Return("CRC_WRONG")
        [] OTHER -> pc' = "check" /\ UNCHANGED <<status, polls>>)
  BY DEF AfterRead
<1>2. v \in Status
  BY Verdicts DEF Status
<1>3. one \in BOOLEAN /\ none \in BOOLEAN
  BY DEF FourBits
<1> HIDE DEF one, none, v
<1>4. chip.error \in {"none", "collision"}
  BY DEF Chip
<1>5. CASE chip.error = "collision"
  BY <1>1, <1>5 DEF Return, Status
<1>6. CASE chip.error = "none" /\ op # "Read"
  BY <1>1, <1>2, <1>6 DEF Return
<1>7. CASE chip.error = "none" /\ op = "Read"
  <2>1. \/ Return("MIFARE_NACK") \/ Return("CRC_WRONG")
        \/ pc' = "check" /\ UNCHANGED <<status, polls>>
    BY <1>1, <1>3, <1>7
  <2> QED
    BY <1>7, <2>1 DEF Return, Status
<1> QED
  BY <1>4, <1>5, <1>6, <1>7

LEMMA CollectStep == ASSUME PcdInv, Collect PROVE PcdInv'
<1> USE DEF PcdInv
<1>1. /\ pc = "collect" /\ chip.error # "error" /\ op # "Auth"
      /\ back' = chip.fifo /\ chip' = [chip EXCEPT !.fifo = <<>>]
      /\ AfterRead(chip.fifo)
      /\ UNCHANGED <<op, frame, crcRight, selfTest, asked, given>>
  BY DEF Collect
<1>2. Holds(chip.fifo, "card", {frame}) /\ frame \in given
  <2>1. chip.irq \cap {"Rx", "Idle"} # {}
    BY <1>1 DEF BackInv, WaitIrq
  <2>2. chip.phase \in {"transmit", "receive", "rest"}
    BY DEF TypeOK, Chip
  <2> QED
    BY <1>1, <2>1, <2>2 DEF ReceiveInv
<1>3. /\ chip' \in Chip /\ chip'.command = chip.command /\ chip'.testMode = chip.testMode
      /\ chip'.phase = chip.phase /\ chip'.fifo = <<>>
  <2>1. <<>> \in Seq(Packet)
    OBVIOUS
  <2> QED
    BY <1>1, <2>1, FifoRegs DEF TypeOK
<1>4. RegsInv' /\ ~chip'.testMode
  BY <1>1, <1>3 DEF RegsInv, CountInv
<1>5. back' \in Seq(Packet) /\ Holds(back', "card", {frame})
  BY <1>1, <1>2 DEF TypeOK, Chip
<1>6. \/ /\ pc' = "done" /\ UNCHANGED polls /\ status' \in Status
         /\ status' = "OK" => op # "Read"
      \/ pc' = "check" /\ op = "Read" /\ UNCHANGED <<status, polls>>
  BY <1>1, AfterReads DEF TypeOK
<1>7. CASE pc' = "done"
  <2>1. status' \in Status /\ (status' = "OK" => op # "Read") /\ polls' \in Nat \ {0}
    BY <1>6, <1>7 DEF TypeOK
  <2>2. OwnAnswer' /\ ReadIsIntact'
    BY <1>1, <1>2, <1>5, <2>1 DEF OwnAnswer, ReadIsIntact, Holds
  <2> QED
    BY <1>1, <1>3, <1>4, <1>5, <1>7, <2>1, <2>2, Returns
<1>8. CASE pc' = "check"
  <2>1. op = "Read" /\ UNCHANGED <<status, polls>> /\ status = "busy"
    BY <1>1, <1>6, <1>8 DEF CountInv, Exchanging
  <2>2. TypeOK'
    <3>1. crcRight' \in BOOLEAN
      BY <1>1 DEF TypeOK
    <3> QED
      BY <1>1, <1>3, <1>5, <1>8, <2>1, <3>1 DEF TypeOK, Exchanging
  <2>3. CountInv'
    BY <1>1, <1>4, <1>8, <2>1 DEF CountInv, Exchanging
  <2>4. PrepareInv' /\ ReceiveInv' /\ AuthInv' /\ CrcInv'
    BY <1>8 DEF PrepareInv, ReceiveInv, AuthInv, CrcInv
  <2>5. BackInv' /\ OwnAnswer' /\ ReadIsIntact'
    BY <1>1, <1>2, <1>5, <1>8, <2>1 DEF BackInv, OwnAnswer, ReadIsIntact
  <2> QED
    BY <1>4, <2>2, <2>3, <2>4, <2>5
<1> QED
  BY <1>6, <1>7, <1>8

-----------------------------------------------------------------------------
(* Steps of the chip and the card *)

LEMMA ChipActs ==
  ASSUME PcdInv, UNCHANGED driver, chip' \in Chip, chip'.testMode = chip.testMode,
         chip.irq \subseteq chip'.irq, asked' \in 0 .. frame,
         given \subseteq given', given' \subseteq 1 .. frame,
         RegsInv', PrepareInv', ReceiveInv', AuthInv', CrcInv'
  PROVE  PcdInv'
<1> USE DEF PcdInv, driver
<1>1. TypeOK'
  <2>1. crcRight' \in BOOLEAN /\ frame \in 0 .. MaxFrames
    BY DEF TypeOK
  <2>2. asked' \in 0 .. MaxFrames /\ given' \subseteq 1 .. MaxFrames
    BY <2>1, PcdConstants
  <2> QED
    BY <2>1, <2>2 DEF TypeOK
<1>2. CountInv'
  BY DEF CountInv
<1>3. BackInv'
  BY DEF BackInv, WaitIrq
<1>4. OwnAnswer' /\ ReadIsIntact'
  BY DEF OwnAnswer, ReadIsIntact
<1> QED
  BY <1>1, <1>2, <1>3, <1>4

LEMMA SameData == UNCHANGED driver => Frame' = Frame /\ CrcData' = CrcData
BY DEF driver, Frame, CrcData

LEMMA WakesUpStep == ASSUME PcdInv, WakesUp \/ TimerExpires PROVE PcdInv'
<1> USE DEF PcdInv, driver
<1>1. UNCHANGED <<pc, op, frame, polls, status, back, crcRight, selfTest, asked, given>>
  BY DEF WakesUp, TimerExpires
<1>2. chip \in Chip
  BY DEF TypeOK
<1>3. /\ chip' \in Chip /\ chip'.testMode = chip.testMode /\ chip'.phase = chip.phase
      /\ chip'.fifo = chip.fifo /\ chip'.crcIrq = chip.crcIrq
      /\ chip'.crcResult = chip.crcResult
      /\ chip'.irq = chip.irq \/ chip'.irq = chip.irq \cup {"Timer"}
      /\ \/ chip'.command = chip.command
         \/ chip.command = "SoftReset" /\ chip'.command = "Idle"
  <2>1. CASE WakesUp
    BY <1>2, <2>1 DEF WakesUp, Chip
  <2>2. CASE TimerExpires
    BY <1>2, <2>2 DEF TimerExpires, Chip
  <2> QED
    BY <2>1, <2>2
<1>4. RegsInv' /\ ReceiveInv' /\ AuthInv'
  <2>1. RegsInv'
    BY <1>1, <1>3 DEF RegsInv
  <2>2. ReceiveInv'
    BY <1>1, <1>3 DEF ReceiveInv
  <2>3. AuthInv'
    BY <1>1, <1>3 DEF AuthInv
  <2> QED
    BY <2>1, <2>2, <2>3
<1>5. PrepareInv' /\ CrcInv'
  BY <1>1, <1>3, SameData DEF PrepareInv, CrcInv
<1>6. asked' \in 0 .. frame /\ given \subseteq given' /\ given' \subseteq 1 .. frame
  BY <1>1 DEF CountInv
<1> QED
  BY <1>1, <1>3, <1>4, <1>5, <1>6, ChipActs

LEMMA ComputesStep ==
  ASSUME PcdInv, ComputesCrc \/ \E b \in BOOLEAN : RunsTest(b) PROVE PcdInv'
<1> USE DEF PcdInv, driver
<1>1. UNCHANGED <<pc, op, frame, polls, status, back, crcRight, selfTest, asked, given>>
      /\ chip.command = "CalcCRC"
  BY DEF ComputesCrc, RunsTest
<1>2. chip \in Chip
  BY DEF TypeOK
<1>3. /\ chip' \in Chip /\ chip'.command = "CalcCRC" /\ chip'.testMode = chip.testMode
      /\ chip'.irq = chip.irq
      /\ \/ /\ chip.fifo # <<>> /\ chip'.crcIrq /\ chip'.crcResult = chip.fifo
            /\ chip'.fifo = <<>>
         \/ chip.testMode
  <2>1. CASE ComputesCrc
    <3>1. <<>> \in Seq(Packet) /\ TRUE \in BOOLEAN
      OBVIOUS
    <3> QED
      BY <1>2, <2>1, <3>1 DEF ComputesCrc, Chip
  <2>2. ASSUME NEW b \in BOOLEAN, RunsTest(b)
        PROVE  /\ chip' \in Chip /\ chip'.command = "CalcCRC" /\ chip.testMode
               /\ chip'.testMode = chip.testMode /\ chip'.irq = chip.irq
    <3> DEFINE p == [from |-> "test", of |-> 0, kind |-> "long", damaged |-> b]
    <3>1. p \in Packet
      BY PcdConstants DEF Packet, Bytes
    <3> HIDE DEF p
    <3>2. <<p>> \in Seq(Packet)
      BY <3>1
    <3>3. chip' = [chip EXCEPT !.fifo = <<p>>]
      BY <2>2 DEF RunsTest, p
    <3>4. chip.command = "CalcCRC" /\ chip.testMode
      BY <2>2 DEF RunsTest
    <3> QED
      BY <1>2, <3>2, <3>3, <3>4, FifoRegs
  <2> QED
    BY <2>1, <2>2
<1>4. RegsInv' /\ ReceiveInv' /\ AuthInv' /\ PrepareInv'
  BY <1>1, <1>3 DEF RegsInv, ReceiveInv, AuthInv, PrepareInv
<1>5. CrcInv'
  BY <1>1, <1>3, SameData DEF CrcInv, CountInv
<1>6. asked' \in 0 .. frame /\ given \subseteq given' /\ given' \subseteq 1 .. frame
  BY <1>1 DEF CountInv
<1> QED
  BY <1>1, <1>3, <1>4, <1>5, <1>6, ChipActs

LEMMA TransmitsStep == ASSUME PcdInv, NEW heard \in BOOLEAN, Transmits(heard) PROVE PcdInv'
<1> USE DEF PcdInv, driver
<1>1. /\ chip.command = "Transceive" /\ chip.phase = "transmit" /\ chip.fifo # <<>>
      /\ asked' = IF heard THEN Head(chip.fifo).of ELSE 0
      /\ UNCHANGED <<pc, op, frame, polls, status, back, crcRight, selfTest, given>>
  BY DEF Transmits
<1>2. /\ chip' \in Chip /\ chip'.testMode = chip.testMode /\ chip'.irq = chip.irq
      /\ chip'.command = "Transceive" /\ chip'.phase = "receive" /\ chip'.fifo = <<>>
  <2>1. <<>> \in Seq(Packet)
    OBVIOUS
  <2>2. chip \in Chip
    BY DEF TypeOK
  <2>3. chip.timerAuto \in BOOLEAN
    BY <2>2 DEF Chip
  <2>4. chip' = [chip EXCEPT !.fifo = <<>>, !.phase = "receive", !.error = "none",
                             !.timer = chip.timerAuto]
    BY DEF Transmits
  <2> QED
    BY <1>1, <2>1, <2>2, <2>3, <2>4 DEF Chip
<1>3. Holds(chip.fifo, "reader", 1 .. frame) /\ Head(chip.fifo) = chip.fifo[1]
  BY <1>1 DEF RegsInv
<1>4. asked' \in 0 .. frame
  BY <1>1, <1>3 DEF Holds, TypeOK
<1>5. RegsInv' /\ PrepareInv' /\ AuthInv' /\ CrcInv'
  BY <1>1, <1>2 DEF RegsInv, PrepareInv, AuthInv, CrcInv
<1>6. ReceiveInv'
  <2>1. pc \in {"start", "poll", "collect"} /\ op # "Auth" =>
          asked' \in {0, frame} /\ chip.irq \cap {"Rx", "Idle"} = {}
    BY <1>1, <1>3 DEF ReceiveInv, Holds
  <2> QED
    BY <1>1, <1>2, <2>1 DEF ReceiveInv
<1>7. given \subseteq given' /\ given' \subseteq 1 .. frame
  BY <1>1 DEF CountInv
<1> QED
  BY <1>1, <1>2, <1>4, <1>5, <1>6, <1>7, ChipActs

LEMMA CardAnswersStep ==
  ASSUME PcdInv, NEW kind \in Answers, NEW damaged \in BOOLEAN,
         NEW error \in {"none", "error", "collision"}, CardAnswers(kind, damaged, error)
  PROVE  PcdInv'
<1> USE DEF PcdInv, driver
<1> DEFINE p == [from |-> "card", of |-> asked, kind |-> kind, damaged |-> damaged]
<1>1. /\ asked # 0 /\ asked' = 0 /\ given' = given \cup {asked}
      /\ UNCHANGED <<pc, op, frame, polls, status, back, crcRight, selfTest>>
  BY DEF CardAnswers
<1>2. p \in Packet /\ p.from = "card" /\ p.of = asked /\ asked \in 1 .. frame
  <2>1. kind \in DOMAIN Bytes
    BY DEF Answers, Bytes
  <2>2. asked \in 0 .. MaxFrames /\ asked \in 1 .. frame
    BY <1>1 DEF TypeOK, CountInv
  <2> QED
    BY <2>1, <2>2 DEF Packet
<1> HIDE DEF p
<1>3. asked' \in 0 .. frame /\ given \subseteq given' /\ given' \subseteq 1 .. frame
  <2>1. frame \in Nat /\ given \subseteq 1 .. frame
    BY DEF TypeOK, CountInv
  <2> QED
    BY <1>1, <1>2, <2>1
<1>4. CASE chip.power = "up" /\ chip.command = "Transceive" /\ chip.phase = "receive"
  <2>1. chip' = [chip EXCEPT !.fifo = Append(@, p), !.irq = @ \cup {"Rx"}, !.error = error,
                             !.phase = "rest", !.timer = FALSE]
    BY <1>4 DEF CardAnswers, p
  <2>2. chip.fifo = <<>>
    BY <1>4 DEF RegsInv
  <2>3. Append(chip.fifo, p) = <<p>> /\ <<p>> \in Seq(Packet)
    <3>1. \A q \in Packet : Append(<<>>, q) = <<q>>
      OBVIOUS
    <3>2. <<p>> \in Seq(Packet)
      BY <1>2
    <3> QED
      BY <1>2, <2>2, <3>1, <3>2
  <2>4. /\ chip' \in Chip /\ chip'.testMode = chip.testMode
        /\ chip'.irq = chip.irq \cup {"Rx"} /\ chip'.command = "Transceive"
        /\ chip'.phase = "rest" /\ chip'.fifo = <<p>>
    <3>1. chip \in Chip /\ FALSE \in BOOLEAN
      BY DEF TypeOK
    <3>2. chip.irq \cup {"Rx"} \in SUBSET {"Rx", "Idle", "Timer"}
      BY <3>1 DEF Chip
    <3>3. chip' = [chip EXCEPT !.fifo = <<p>>, !.irq = chip.irq \cup {"Rx"}, !.error = error,
                               !.phase = "rest", !.timer = FALSE]
      BY <2>1, <2>3
    <3> QED
      BY <1>4, <2>3, <3>1, <3>2, <3>3 DEF Chip
  <2>5. Holds(chip'.fifo, "card", {asked})
    BY <1>2, <2>4 DEF Holds
  <2>6. RegsInv' /\ PrepareInv' /\ AuthInv' /\ CrcInv'
    <3>1. Holds(chip'.fifo, "card", 1 .. frame)
      BY <1>2, <2>5 DEF Holds
    <3> QED
      BY <1>1, <1>4, <2>4, <3>1 DEF RegsInv, PrepareInv, AuthInv, CrcInv
  <2>7. ReceiveInv'
    <3>1. pc \in {"start", "poll", "collect"} /\ op # "Auth" => asked = frame
      BY <1>1, <1>4 DEF ReceiveInv
    <3> QED
      BY <1>1, <2>4, <2>5, <3>1 DEF ReceiveInv
  <2> QED
    BY <1>1, <1>3, <2>4, <2>6, <2>7, ChipActs
<1>5. CASE ~(chip.power = "up" /\ chip.command = "Transceive" /\ chip.phase = "receive")
  <2>1. UNCHANGED chip
    BY <1>5 DEF CardAnswers
  <2>2. chip' \in Chip
    BY <2>1 DEF TypeOK
  <2>3. RegsInv' /\ PrepareInv' /\ ReceiveInv' /\ AuthInv' /\ CrcInv'
    BY <1>1, <1>3, <2>1, SameData DEF RegsInv, PrepareInv, ReceiveInv, AuthInv, CrcInv
  <2> QED
    BY <1>1, <1>3, <2>1, <2>2, <2>3, ChipActs
<1> QED
  BY <1>4, <1>5

LEMMA AuthenticatesStep ==
  ASSUME PcdInv, NEW outcome \in {"none", "error", "silent"}, Authenticates(outcome)
  PROVE  PcdInv'
<1> USE DEF PcdInv, driver
<1>1. /\ chip.command = "MFAuthent" /\ chip.phase = "transmit" /\ chip.fifo # <<>>
      /\ asked' = 0
      /\ UNCHANGED <<pc, op, frame, polls, status, back, crcRight, selfTest>>
  BY DEF Authenticates
<1>2. Holds(chip.fifo, "reader", 1 .. frame) /\ Head(chip.fifo) = chip.fifo[1]
  BY <1>1 DEF RegsInv
<1>3. chip \in Chip /\ <<>> \in Seq(Packet)
  BY DEF TypeOK
<1>4. CASE outcome = "silent"
  <2>1. chip' = [chip EXCEPT !.fifo = <<>>, !.phase = "receive", !.timer = chip.timerAuto]
        /\ UNCHANGED given
    BY <1>4 DEF Authenticates
  <2>2. /\ chip' \in Chip /\ chip'.testMode = chip.testMode /\ chip'.irq = chip.irq
        /\ chip'.command = "MFAuthent" /\ chip'.phase = "receive" /\ chip'.fifo = <<>>
    <3>1. chip.timerAuto \in BOOLEAN
      BY <1>3 DEF Chip
    <3> QED
      BY <1>1, <1>3, <2>1, <3>1 DEF Chip
  <2>3. RegsInv' /\ PrepareInv' /\ ReceiveInv' /\ CrcInv'
    BY <1>1, <2>2 DEF RegsInv, PrepareInv, ReceiveInv, CrcInv
  <2>4. AuthInv'
    BY <1>1, <2>2 DEF AuthInv
  <2>5. asked' \in 0 .. frame /\ given \subseteq given' /\ given' \subseteq 1 .. frame
    BY <1>1, <2>1 DEF CountInv, TypeOK
  <2> QED
    BY <1>1, <2>2, <2>3, <2>4, <2>5, ChipActs
<1>5. CASE outcome # "silent"
  <2>1. /\ chip' = [chip EXCEPT !.fifo = <<>>, !.phase = "rest", !.error = outcome,
                                !.command = "Idle", !.irq = @ \cup {"Idle"}]
        /\ given' = given \cup {Head(chip.fifo).of}
    BY <1>5 DEF Authenticates
  <2>2. /\ chip' \in Chip /\ chip'.testMode = chip.testMode
        /\ chip'.irq = chip.irq \cup {"Idle"} /\ chip'.command = "Idle"
    <3>1. chip.irq \cup {"Idle"} \in SUBSET {"Rx", "Idle", "Timer"}
      BY <1>3 DEF Chip
    <3> QED
      BY <1>3, <1>5, <2>1, <3>1 DEF Chip
  <2>3. RegsInv' /\ PrepareInv' /\ ReceiveInv' /\ CrcInv'
    BY <1>1, <2>2 DEF RegsInv, PrepareInv, ReceiveInv, CrcInv
  <2>4. AuthInv'
    <3>1. pc \in {"poll", "collect"} /\ op = "Auth" => frame \in given'
      BY <1>1, <1>2, <2>1 DEF AuthInv, Holds
    <3> QED
      BY <1>1, <2>2, <3>1 DEF AuthInv
  <2>5. asked' \in 0 .. frame /\ given \subseteq given' /\ given' \subseteq 1 .. frame
    BY <1>1, <1>2, <2>1 DEF CountInv, TypeOK, Holds
  <2> QED
    BY <1>1, <2>2, <2>3, <2>4, <2>5, ChipActs
<1> QED
  BY <1>4, <1>5

-----------------------------------------------------------------------------
LEMMA StutterStep == ASSUME PcdInv, UNCHANGED vars PROVE PcdInv'
<1> USE DEF PcdInv, vars, driver
<1>1. TypeOK' /\ CountInv' /\ RegsInv' /\ ReceiveInv' /\ AuthInv'
  BY DEF TypeOK, CountInv, RegsInv, ReceiveInv, AuthInv
<1>2. PrepareInv' /\ CrcInv'
  BY SameData DEF PrepareInv, CrcInv
<1>3. BackInv' /\ OwnAnswer' /\ ReadIsIntact'
  BY DEF BackInv, WaitIrq, OwnAnswer, ReadIsIntact
<1> QED
  BY <1>1, <1>2, <1>3

LEMMA Step == ASSUME PcdInv, [Next]_vars PROVE PcdInv'
<1>1. CASE DriverStep
  BY <1>1, CalculateCRCStep, CrcReadyStep, StopStep, FlushStep, FillStep, ExecuteStep,
     StartSendStep, SucceededStep, GivesUpStep, CollectStep, PollsAgainStep, BetweenStep
     DEF DriverStep, Wait, Between
<1>2. CASE Begin
  BY <1>2, CallStep, BetweenStep DEF Begin, Between
<1>3. CASE ChipStep
  BY <1>3, WakesUpStep, ComputesStep, TransmitsStep, CardAnswersStep, AuthenticatesStep
     DEF ChipStep
<1> QED
  BY <1>1, <1>2, <1>3, StutterStep DEF Next

LEMMA Invariance == Spec => []PcdInv
BY InitInv, Step, PTL DEF Spec

\* Every variable of the driver and every register keeps its type, whatever the
\* chip, the card and the timer do between two register accesses.
THEOREM Typing == Spec => []TypeOK
<1>1. PcdInv => TypeOK
  BY DEF PcdInv
<1> QED
  BY Invariance, <1>1, PTL

\* Whatever PCD_CommunicateWithPICC returns with STATUS_OK answers the frame it
\* just sent, however late earlier frames are answered and for any number of rounds
\* that the wait lasts: every trace of them is gone when the command starts.
THEOREM AnswerIsOwn == Spec => []OwnAnswer
<1>1. PcdInv => OwnAnswer
  BY DEF PcdInv
<1> QED
  BY Invariance, <1>1, PTL

\* MIFARE_Read returns STATUS_OK only with the bytes that the card sent: the CRC it
\* checks was computed of this answer.
THEOREM IntactRead == Spec => []ReadIsIntact
<1>1. PcdInv => ReadIsIntact
  BY DEF PcdInv
<1> QED
  BY Invariance, <1>1, PTL

\* No frame goes out with the CRC that was computed of another one
\* (PCD_CalculateCRC and its callers).
THEOREM SealedFrames == Spec => []FramesAreSealed
<1>1. PcdInv => FramesAreSealed
  <2> SUFFICES ASSUME PcdInv, chip.command = "Transceive",
                      NEW i \in DOMAIN chip.fifo, chip.fifo[i].from = "reader"
               PROVE  ~chip.fifo[i].damaged
    BY DEF FramesAreSealed
  <2>1. chip.fifo \in Seq(Packet) /\ chip.phase \in {"transmit", "receive", "rest"}
    BY DEF PcdInv, TypeOK, Chip
  <2>2. Len(chip.fifo) = 1 /\ i = 1
    BY <2>1 DEF PcdInv, RegsInv, Holds
  <2> QED
    BY <2>1, <2>2 DEF PcdInv, RegsInv, Holds
<1> QED
  BY Invariance, <1>1, PTL

-----------------------------------------------------------------------------
(* The exchange that the layers above see *)

Outcome ==
  IF status = "busy" THEN "pending"
  ELSE IF status = "OK" /\ (op # "TwoStep" \/ back # <<>>) THEN "answered"
  ELSE "failed"

\* A step that leaves what was returned alone, or belongs to a call that runs.
Quiet ==
  /\ UNCHANGED <<op, frame, given>>
  /\ UNCHANGED <<status, back>> \/ status = "busy"

LEMMA QuietSteps ==
  ASSUME PcdInv, DriverStep \/ Between PROVE Quiet
<1>1. pc \in Exchanging => status = "busy"
  BY DEF PcdInv, CountInv
<1>2. CASE Between
  BY <1>2 DEF Between, Reset, HardReset, AwaitReset, Configure, AntennaOff, SoftPowerDown,
     SoftPowerUp, PoweredUp, TestStart, TestEnd, Goes, driver, Quiet
<1>3. CASE CalculateCRC \/ CrcReady \/ Collect
  BY <1>1, <1>3 DEF CalculateCRC, CrcReady, Collect, Exchanging, Quiet
<1>4. CASE StopAndClear \/ Flush \/ Fill \/ Execute \/ StartSend \/ Succeeded \/ PollsAgain
  BY <1>4 DEF StopAndClear, Stop, ClearIrq, Flush, Fill, Execute, StartSend, Succeeded,
     PollsAgain, Goes, Quiet
<1>5. CASE CrcGivesUp \/ GivesUp \/ CollectFails \/ CollectNothing
  BY <1>1, <1>5 DEF CrcGivesUp, GivesUp, CollectFails, CollectNothing, Ends, Exchanging, Quiet
<1> QED
  BY <1>2, <1>3, <1>4, <1>5 DEF DriverStep, Wait, Between

LEMMA QuietRefines ==
  ASSUME PcdInv, Quiet, PcdInv' PROVE [AnExchange!Next]_(AnExchange!vars)
<1>1. UNCHANGED <<frame, given, op>>
  BY DEF Quiet
<1>2. CASE UNCHANGED <<status, back>>
  <2>1. Outcome' = Outcome
    BY <1>1, <1>2 DEF Outcome
  <2> QED
    BY <1>1, <2>1 DEF Outcome, AnExchange!vars
<1>3. CASE status = "busy"
  <2>1. Outcome = "pending" /\ Outcome' \in {"pending", "answered", "failed"}
    BY <1>3 DEF Outcome
  <2>2. Outcome' = "answered" => frame \in given
    BY <1>1 DEF Outcome, PcdInv, OwnAnswer
  <2>3. CASE Outcome' = "pending"
    BY <1>1, <2>1, <2>3 DEF Outcome, AnExchange!vars
  <2>4. CASE Outcome' = "answered"
    <3>1. AnExchange!Succeed
      BY <1>1, <2>1, <2>2, <2>4 DEF Outcome, AnExchange!Succeed
    <3> QED
      BY <3>1 DEF AnExchange!Next
  <2>5. CASE Outcome' = "failed"
    <3>1. AnExchange!Fail
      BY <1>1, <2>1, <2>5 DEF Outcome, AnExchange!Fail
    <3> QED
      BY <3>1 DEF AnExchange!Next
  <2> QED
    BY <2>1, <2>3, <2>4, <2>5
<1> QED
  BY <1>2, <1>3 DEF Quiet

LEMMA CardRefines ==
  ASSUME PcdInv, UNCHANGED driver, NEW f \in 1 .. frame, given' = given \cup {f}
  PROVE  AnExchange!Next
<1>1. Outcome' = Outcome
  BY DEF driver, Outcome
<1>2. AnExchange!CardAnswers
  BY <1>1 DEF driver, Outcome, AnExchange!CardAnswers
<1> QED
  BY <1>2 DEF AnExchange!Next

LEMMA Refines ==
  ASSUME PcdInv, [Next]_vars PROVE [AnExchange!Next]_(AnExchange!vars)
<1>1. PcdInv'
  BY Step
<1>2. CASE DriverStep \/ Between \/ UNCHANGED vars
  <2>1. Quiet
    BY <1>2, QuietSteps DEF Quiet, vars, driver
  <2> QED
    BY <1>1, <2>1, QuietRefines
<1>3. ASSUME NEW o \in Op, Call(o) PROVE AnExchange!Next
  <2>1. /\ status # "busy" /\ frame < MaxFrames /\ frame' = frame + 1
        /\ status' = "busy" /\ UNCHANGED given
    BY <1>3 DEF Call, PcdInv, CountInv, Exchanging
  <2>2. Outcome # "pending" /\ Outcome' = "pending"
    BY <2>1 DEF Outcome
  <2>3. AnExchange!Ask
    BY <2>1, <2>2 DEF Outcome, AnExchange!Ask
  <2> QED
    BY <2>3 DEF AnExchange!Next
<1>4. CASE ChipStep
  <2>1. UNCHANGED driver
    BY <1>4 DEF ChipStep, WakesUp, ComputesCrc, TimerExpires, RunsTest, Transmits,
       CardAnswers, Authenticates
  <2>2. CASE UNCHANGED given
    <3>1. Quiet
      BY <2>1, <2>2 DEF Quiet, driver
    <3> QED
      BY <1>1, <3>1, QuietRefines
  <2>3. CASE \E f \in 1 .. frame : given' = given \cup {f}
    BY <2>1, <2>3, CardRefines
  <2>4. UNCHANGED given \/ \E f \in 1 .. frame : given' = given \cup {f}
    <3>1. ASSUME NEW kind, NEW damaged, NEW error, CardAnswers(kind, damaged, error)
          PROVE  \E f \in 1 .. frame : given' = given \cup {f}
      <4>1. asked \in 1 .. frame
        BY <3>1 DEF CardAnswers, PcdInv, CountInv, TypeOK
      <4> QED
        BY <3>1, <4>1 DEF CardAnswers
    <3>2. ASSUME NEW outcome, Authenticates(outcome)
          PROVE  UNCHANGED given \/ \E f \in 1 .. frame : given' = given \cup {f}
      <4>1. Holds(chip.fifo, "reader", 1 .. frame) /\ Head(chip.fifo) = chip.fifo[1]
        BY <3>2 DEF Authenticates, PcdInv, RegsInv
      <4> QED
        BY <3>2, <4>1 DEF Authenticates, Holds
    <3>3. CASE WakesUp \/ ComputesCrc \/ TimerExpires
               \/ \E b \in BOOLEAN : RunsTest(b) \/ Transmits(b)
      BY <3>3 DEF WakesUp, ComputesCrc, TimerExpires, RunsTest, Transmits
    <3> QED
      BY <1>4, <3>1, <3>2, <3>3 DEF ChipStep
  <2> QED
    BY <2>2, <2>3, <2>4
<1> QED
  BY <1>2, <1>3, <1>4 DEF Next, Begin, Between

\* The driver, register by register, implements the exchange: each frame ends once,
\* failed or with the card's answer to this very frame.
THEOREM ExchangeRefined == Spec => ImplementsExchange
<1>1. Init => AnExchange!Init
  <2> SUFFICES ASSUME Init PROVE AnExchange!Init
    OBVIOUS
  <2>1. Outcome = "failed"
    BY DEF Init, Outcome
  <2> QED
    BY <2>1 DEF Init, Outcome, AnExchange!Init
<1>2. PcdInv /\ [Next]_vars => [AnExchange!Next]_(AnExchange!vars)
  BY Refines
<1> QED
  BY <1>1, <1>2, Invariance, PTL DEF Spec, ImplementsExchange, AnExchange!Spec
=============================================================================
