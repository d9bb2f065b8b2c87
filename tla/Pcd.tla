-------------------------------- MODULE Pcd --------------------------------
(***************************************************************************)
(* One exchange at the registers of the MFRC522: the driver's functions     *)
(* that send a frame and wait for the answer, against a chip that receives, *)
(* times out and computes CRCs on its own, and a card that may answer late. *)
(* What the layers above take an exchange for is module Exchange.           *)
(*                                                                          *)
(* Frames are numbered.  The FIFO holds a sequence of packets: what was     *)
(* written to it or received, with the number of the frame it belongs to.   *)
(* Only equal contents are taken to have equal CRCs.                        *)
(***************************************************************************)
EXTENDS Integers, Sequences, SequencesExt

CONSTANTS
  MaxFrames, \* bound: the frames that are sent
  ComPolls,  \* rounds of the wait for the answer (2000 in the code)
  CrcPolls,  \* rounds of the wait for a CRC (5000)
  TestPolls  \* rounds of the wait for the self-test (255)

ASSUME PcdConstants ==
  /\ MaxFrames \in Nat
  /\ ComPolls \in Nat \ {0} /\ CrcPolls \in Nat \ {0} /\ TestPolls \in Nat \ {0}

\* The functions that exchange a frame: PICC_REQA_or_WUPA, MIFARE_Read,
\* PCD_MIFARE_Transceive without and with acceptTimeout, PCD_NTAG216_AUTH and
\* PCD_Authenticate.
Op == {"REQA", "Read", "Command", "TwoStep", "NTAG", "Auth"}
SendsCrc == Op \ {"REQA", "Auth"}

\* The size of the buffer each passes for the answer.
Room == [REQA |-> 2, Read |-> 18, Command |-> 18, TwoStep |-> 18, NTAG |-> 5]

\* What a packet is: a frame of the reader, or an answer of four bits (MF_ACK or
\* another), two bytes, a block with its CRC, or more than any buffer.
Bytes == [frame |-> 4, ack |-> 1, nak |-> 1, two |-> 2, block |-> 18, long |-> 64]
Answers == {"ack", "nak", "two", "block", "long"}
Packet == [from : {"reader", "card", "test"}, of : 0 .. MaxFrames,
           kind : DOMAIN Bytes, damaged : BOOLEAN]

VARIABLES
  pc,       \* where the driver is
  op,       \* the function that runs or ran last
  frame,    \* the number of its frame
  polls,    \* i, the rounds left of the wait
  status,   \* what the last exchange returned; "busy" while one runs
  back,     \* backData
  crcRight, \* the CRC just computed is that of the data
  selfTest, \* what PCD_PerformSelfTest returned
  chip,     \* the registers
  asked,    \* the frame the card works on, or 0
  given     \* history: the frames the card answered

driver == <<pc, op, frame, polls, status, back, crcRight, selfTest>>
vars == <<driver, chip, asked, given>>

Exchanging == {"crc", "crcPoll", "stop", "clearIrq", "flush", "fill", "execute",
               "start", "poll", "collect", "check", "checkPoll"}

Status == {"OK", "ERROR", "TIMEOUT", "NO_ROOM", "COLLISION", "CRC_WRONG", "MIFARE_NACK"}

Chip ==
  [command : {"Idle", "Mem", "CalcCRC", "Transceive", "MFAuthent", "SoftReset"},
   sending : BOOLEAN,                             \* StartSend
   phase : {"transmit", "receive", "rest"},       \* of a Transceive command
   irq : SUBSET {"Rx", "Idle", "Timer"}, crcIrq : BOOLEAN,
   fifo : Seq(Packet), crcResult : Seq(Packet), error : {"none", "error", "collision"},
   timer : BOOLEAN, timerAuto : BOOLEAN, antenna : BOOLEAN, testMode : BOOLEAN,
   power : {"up", "down", "waking"}]

\* Every variable holds a value of its type.
TypeOK ==
  /\ pc \in Exchanging \cup {"done", "initReset", "testReset", "configure", "powerUp",
                             "test", "testPoll"}
  /\ op \in Op /\ frame \in 0 .. MaxFrames /\ polls \in Nat \ {0}
  /\ status \in Status \cup {"busy"} /\ back \in Seq(Packet)
  /\ crcRight \in BOOLEAN /\ selfTest \in {"none", "passed", "failed"}
  /\ chip \in Chip /\ asked \in 0 .. MaxFrames /\ given \subseteq 1 .. MaxFrames

\* The registers after a reset.
Fresh ==
  [command |-> "SoftReset", sending |-> FALSE, phase |-> "transmit", irq |-> {},
   crcIrq |-> FALSE, fifo |-> <<>>, crcResult |-> <<>>, error |-> "none",
   timer |-> FALSE, timerAuto |-> FALSE, antenna |-> FALSE, testMode |-> FALSE,
   power |-> "waking"]

Init ==
  /\ pc = "initReset" /\ op = "REQA" /\ frame = 0 /\ polls = 3
  /\ status = "ERROR" /\ back = <<>> /\ crcRight = FALSE /\ selfTest = "none"
  /\ chip = Fresh /\ asked = 0 /\ given = {}

-----------------------------------------------------------------------------
Level(fifo) == FoldLeft(LAMBDA n, p : n + Bytes[p.kind], 0, fifo)

\* A write to CommandReg also ends the power-down mode.
Command(regs, c) ==
  [regs EXCEPT !.command = c, !.phase = "transmit",
               !.power = IF @ = "down" THEN "waking" ELSE @]

\* A write to FIFODataReg adds to what is there.
Push(regs, packet) == [regs EXCEPT !.fifo = Append(@, packet)]

\* Pins TX1 and TX2.
AntennaOn(regs) == [regs EXCEPT !.antenna = TRUE]

Frame == [from |-> "reader", of |-> frame, kind |-> "frame",
          damaged |-> op \in SendsCrc /\ ~crcRight]

\* What the CRC is computed of: the frame, or the answer.
CrcData == IF pc \in {"crc", "crcPoll"} THEN <<[Frame EXCEPT !.damaged = FALSE]>> ELSE back

FourBits(answer) == Level(answer) = 1

\* What the calling function makes of the status and data.
Verdict(s, answer) ==
  CASE s = "TIMEOUT" /\ op = "TwoStep" -> "OK"
    [] s = "OK" /\ op = "REQA" /\ Level(answer) # 2 -> "ERROR"
    [] s = "OK" /\ op \in {"Command", "TwoStep"} /\ ~FourBits(answer) -> "ERROR"
    [] s = "OK" /\ op \in {"Command", "TwoStep"} /\ answer[1].kind = "nak" -> "MIFARE_NACK"
    [] OTHER -> s

\* Steps of the driver that go on, or that return without data.
Goes(from, to) ==
  /\ pc = from /\ pc' = to
  /\ UNCHANGED <<op, frame, polls, status, back, crcRight, selfTest, asked, given>>
Return(s) == pc' = "done" /\ status' = s /\ UNCHANGED polls
Ends(s) ==
  /\ Return(s)
  /\ UNCHANGED <<op, frame, back, crcRight, selfTest, chip, asked, given>>

-----------------------------------------------------------------------------
(* The driver *)

Call(o) ==
  /\ pc = "done" /\ frame < MaxFrames
  /\ op' = o /\ frame' = frame + 1 /\ status' = "busy"
  /\ back' = <<>> /\ crcRight' = FALSE
  /\ pc' = IF o \in SendsCrc THEN "crc" ELSE "stop"
  /\ UNCHANGED <<polls, selfTest, chip, asked, given>>

\* A slip: the interrupt bit of the last CRC is not cleared.
StartCrc_StaleIrq == [Command(chip, "CalcCRC") EXCEPT !.fifo = CrcData]

\* PCD_CalculateCRC: idle, clear the interrupt, flush, fill, start.
StartCrc == [Command(chip, "CalcCRC") EXCEPT !.crcIrq = FALSE, !.fifo = CrcData]

CalculateCRC ==
  /\ pc \in {"crc", "check"} /\ chip' = StartCrc
  /\ polls' = CrcPolls
  /\ pc' = IF pc = "crc" THEN "crcPoll" ELSE "checkPoll"
  /\ UNCHANGED <<op, frame, status, back, crcRight, selfTest, asked, given>>

\* An answer's CRC is right if it is the one the card computed.
CrcIsRight ==
  chip.crcResult = [i \in DOMAIN CrcData |-> [CrcData[i] EXCEPT !.damaged = FALSE]]

CrcReady ==
  /\ pc \in {"crcPoll", "checkPoll"} /\ chip.crcIrq
  /\ chip' = Command(chip, "Idle")
  /\ IF pc = "crcPoll"
     THEN pc' = "stop" /\ crcRight' = CrcIsRight /\ UNCHANGED <<status, polls>>
     ELSE Return(IF CrcIsRight THEN "OK" ELSE "CRC_WRONG") /\ UNCHANGED crcRight
  /\ UNCHANGED <<op, frame, back, selfTest, asked, given>>

\* Nothing happened: communication with the chip might be down.
CrcGivesUp ==
  /\ pc \in {"crcPoll", "checkPoll"} /\ ~chip.crcIrq /\ polls = 1
  /\ Ends("TIMEOUT")

\* PCD_CommunicateWithPICC: stop any active command ...
Stop ==
  /\ Goes("stop", "clearIrq") /\ chip' = Command(chip, "Idle")

\* ... clear the interrupts ...
ClearIrq ==
  /\ Goes("clearIrq", "flush") /\ chip' = [chip EXCEPT !.irq = {}]

\* A slip: the interrupts are cleared while the command is still active.
StopAndClear_Swapped ==
  \/ Goes("stop", "clearIrq") /\ chip' = [chip EXCEPT !.irq = {}]
  \/ Goes("clearIrq", "flush") /\ chip' = Command(chip, "Idle")

\* ... in this order.
StopAndClear == Stop \/ ClearIrq

Flush ==
  /\ Goes("flush", "fill") /\ chip' = [chip EXCEPT !.fifo = <<>>]

\* Writing BitFramingReg clears the StartSend bit that the last exchange left.
Fill ==
  /\ Goes("fill", "execute") /\ chip' = [Push(chip, Frame) EXCEPT !.sending = FALSE]

Execute ==
  /\ pc = "execute" /\ polls' = ComPolls
  /\ IF op = "Auth"
     THEN pc' = "poll" /\ chip' = Command(chip, "MFAuthent")
     ELSE pc' = "start" /\ chip' = Command(chip, "Transceive")
  /\ UNCHANGED <<op, frame, status, back, crcRight, selfTest, asked, given>>

StartSend ==
  /\ Goes("start", "poll") /\ chip' = [chip EXCEPT !.sending = TRUE]

WaitIrq == IF op = "Auth" THEN {"Idle"} ELSE {"Rx", "Idle"}

Succeeded ==
  /\ Goes("poll", "collect") /\ chip.irq \cap WaitIrq # {}
  /\ UNCHANGED chip

\* The timer interrupt, or the last round: the chip goes on receiving.
GivesUp ==
  /\ pc = "poll" /\ chip.irq \cap WaitIrq = {}
  /\ "Timer" \in chip.irq \/ polls = 1
  /\ Ends(Verdict("TIMEOUT", <<>>))

Idles ==
  \/ pc = "poll" /\ chip.irq \cap WaitIrq = {} /\ "Timer" \notin chip.irq
  \/ pc \in {"crcPoll", "checkPoll"} /\ ~chip.crcIrq
  \/ pc = "testPoll" /\ Level(chip.fifo) < 64

\* A slip: rounds that are not counted.
NextRound_Uncounted == UNCHANGED polls

NextRound == polls > 1 /\ polls' = polls - 1

\* The next round of any of the waits.
PollsAgain ==
  /\ Idles /\ NextRound
  /\ UNCHANGED <<pc, op, frame, status, back, crcRight, selfTest, chip, asked, given>>

CollectFails ==
  /\ pc = "collect"
  /\ \/ chip.error = "error" /\ Ends("ERROR")
     \/ chip.error # "error" /\ op # "Auth" /\ Level(chip.fifo) > Room[op] /\ Ends("NO_ROOM")

\* PCD_Authenticate wants no data.
CollectNothing ==
  /\ pc = "collect" /\ op = "Auth" /\ chip.error # "error"
  /\ Ends(IF chip.error = "collision" THEN "COLLISION" ELSE "OK")

\* What becomes of an answer that was read: PCD_MIFARE_Transceive and the others
\* look at it at once, MIFARE_Read has its CRC checked.
\* A slip: every answer of the right length is taken for good.
AfterRead_Unchecked(answer) ==
  Return(IF chip.error = "collision" THEN "COLLISION" ELSE Verdict("OK", answer))

AfterRead(answer) ==
  CASE chip.error = "collision" -> Return("COLLISION")
    [] chip.error = "none" /\ op # "Read" -> Return(Verdict("OK", answer))
    [] chip.error = "none" /\ op = "Read" /\ FourBits(answer) -> Return("MIFARE_NACK")
    [] chip.error = "none" /\ op = "Read" /\ Level(answer) = 0 -> Return("CRC_WRONG")
    [] OTHER -> pc' = "check" /\ UNCHANGED <<status, polls>>

Collect ==
  /\ pc = "collect" /\ chip.error # "error" /\ op # "Auth"
  /\ Level(chip.fifo) <= Room[op]
  /\ back' = chip.fifo /\ chip' = [chip EXCEPT !.fifo = <<>>]
  /\ AfterRead(chip.fifo)
  /\ UNCHANGED <<op, frame, crcRight, selfTest, asked, given>>

-----------------------------------------------------------------------------
(* Reset, power and self-test *)

\* PCD_Init without a reset pin, or PCD_PerformSelfTest: both begin with
\* PCD_Reset.
Reset(next) ==
  /\ pc = "done" /\ pc' = next /\ chip' = Fresh /\ polls' = 3
  /\ UNCHANGED <<op, frame, status, back, crcRight, selfTest, asked, given>>

\* At most three looks at the PowerDown bit.
AwaitReset ==
  /\ pc \in {"initReset", "testReset"}
  /\ IF chip.power # "up" /\ polls > 1
     THEN polls' = polls - 1 /\ UNCHANGED pc
     ELSE pc' = (IF pc = "initReset" THEN "configure" ELSE "test") /\ UNCHANGED polls
  /\ UNCHANGED <<op, frame, status, back, crcRight, selfTest, chip, asked, given>>

\* PCD_Init with a reset pin that is low.
HardReset ==
  /\ Goes("done", "configure")
  /\ chip' = [Fresh EXCEPT !.command = "Idle", !.power = "up"]

Configure ==
  /\ Goes("configure", "done") /\ chip' = [AntennaOn(chip) EXCEPT !.timerAuto = TRUE]

AntennaOff ==
  /\ pc = "done" /\ chip' = [chip EXCEPT !.antenna = FALSE]
  /\ UNCHANGED <<driver, asked, given>>

SoftPowerDown ==
  /\ pc = "done" /\ chip' = [chip EXCEPT !.power = "down"]
  /\ UNCHANGED <<driver, asked, given>>

SoftPowerUp ==
  /\ Goes("done", "powerUp")
  /\ chip' = [chip EXCEPT !.power = IF @ = "down" THEN "waking" ELSE @]

\* The chip is up again, or half a second has passed.
PoweredUp ==
  Goes("powerUp", "done") /\ UNCHANGED chip

\* Zeros go to the internal buffer, and CalcCRC starts the test.
TestStart ==
  /\ pc = "test" /\ pc' = "testPoll" /\ polls' = TestPolls
  /\ chip' = [Command(chip, "CalcCRC") EXCEPT !.fifo = <<>>, !.testMode = TRUE]
  /\ UNCHANGED <<op, frame, status, back, crcRight, selfTest, asked, given>>

\* The 64 bytes are compared with those of the chip's version, if it is known.
TestResult(known) ==
  IF known /\ Len(chip.fifo) = 1 /\ \A i \in DOMAIN chip.fifo : ~chip.fifo[i].damaged
  THEN "passed" ELSE "failed"

\* The bytes are read, and the test mode is left.
AfterTest(known) == [Command(chip, "Idle") EXCEPT !.fifo = <<>>, !.testMode = FALSE]

\* Then the version is looked up.
TestEnd(known) ==
  /\ pc = "testPoll" /\ pc' = "done"
  /\ Level(chip.fifo) >= 64 \/ polls = 1
  /\ chip' = AfterTest(known) /\ selfTest' = TestResult(known)
  /\ UNCHANGED <<op, frame, polls, status, back, crcRight, asked, given>>

-----------------------------------------------------------------------------
(* The chip *)

WakesUp ==
  /\ chip.power = "waking"
  /\ chip' = [chip EXCEPT !.power = "up",
                          !.command = IF @ = "SoftReset" THEN "Idle" ELSE @]
  /\ UNCHANGED <<driver, asked, given>>

ComputesCrc ==
  /\ chip.power = "up" /\ chip.command = "CalcCRC" /\ ~chip.testMode /\ chip.fifo # <<>>
  /\ chip' = [chip EXCEPT !.crcIrq = TRUE, !.crcResult = chip.fifo, !.fifo = <<>>]
  /\ UNCHANGED <<driver, asked, given>>

RunsTest(damaged) ==
  /\ chip.power = "up" /\ chip.command = "CalcCRC" /\ chip.testMode /\ chip.fifo = <<>>
  /\ chip' = [chip EXCEPT !.fifo = <<[from |-> "test", of |-> 0, kind |-> "long",
                                      damaged |-> damaged]>>]
  /\ UNCHANGED <<driver, asked, given>>

\* The frame is sent.  A card that hears it forgets an earlier one.
Transmits(heard) ==
  /\ chip.power = "up" /\ chip.command = "Transceive"
  /\ chip.sending /\ chip.phase = "transmit" /\ chip.fifo # <<>>
  /\ chip' = [chip EXCEPT !.fifo = <<>>, !.phase = "receive", !.error = "none",
                          !.timer = chip.timerAuto]
  /\ heard => chip.antenna /\ Len(chip.fifo) = 1 /\ ~Head(chip.fifo).damaged
  /\ asked' = IF heard THEN Head(chip.fifo).of ELSE 0
  /\ UNCHANGED <<driver, given>>

\* The card answers, as late as it likes; the chip receives the answer if it is
\* still listening.
CardAnswers(kind, damaged, error) ==
  /\ asked # 0 /\ asked' = 0 /\ given' = given \cup {asked}
  /\ chip' =
       IF chip.power = "up" /\ chip.command = "Transceive" /\ chip.phase = "receive"
       THEN [chip EXCEPT !.fifo = Append(@, [from |-> "card", of |-> asked, kind |-> kind,
                                             damaged |-> damaged]),
                         !.irq = @ \cup {"Rx"}, !.error = error, !.phase = "rest",
                         !.timer = FALSE]
       ELSE chip
  /\ UNCHANGED driver

TimerExpires ==
  /\ chip.timer /\ chip.power = "up"
  /\ chip' = [chip EXCEPT !.timer = FALSE, !.irq = @ \cup {"Timer"}]
  /\ UNCHANGED <<driver, asked, given>>

\* MFAuthent: the chip talks to the card by itself.
Authenticates(outcome) ==
  /\ chip.power = "up" /\ chip.command = "MFAuthent" /\ chip.phase = "transmit"
  /\ chip.fifo # <<>> /\ asked' = 0
  /\ \/ /\ outcome = "silent"
        /\ chip' = [chip EXCEPT !.fifo = <<>>, !.phase = "receive", !.timer = chip.timerAuto]
        /\ UNCHANGED given
     \/ /\ outcome # "silent" /\ chip.antenna
        /\ chip' = [chip EXCEPT !.fifo = <<>>, !.phase = "rest", !.error = outcome,
                                !.command = "Idle", !.irq = @ \cup {"Idle"}]
        /\ given' = given \cup {Head(chip.fifo).of}
  /\ UNCHANGED driver

-----------------------------------------------------------------------------
Wait == CrcGivesUp \/ GivesUp \/ PollsAgain \/ AwaitReset \/ PoweredUp

DriverStep ==
  \/ CalculateCRC \/ CrcReady \/ StopAndClear \/ Flush \/ Fill \/ Execute \/ StartSend
  \/ Succeeded \/ CollectFails \/ CollectNothing \/ Collect \/ Configure \/ TestStart
  \/ Wait
  \/ \E known \in BOOLEAN : TestEnd(known)

Begin ==
  \/ \E o \in Op : Call(o)
  \/ Reset("initReset") \/ Reset("testReset") \/ HardReset
  \/ AntennaOff \/ SoftPowerDown \/ SoftPowerUp

ChipStep ==
  \/ WakesUp \/ ComputesCrc \/ TimerExpires
  \/ \E b \in BOOLEAN : RunsTest(b) \/ Transmits(b)
  \/ \E kind \in Answers, damaged \in BOOLEAN, error \in {"none", "error", "collision"} :
       CardAnswers(kind, damaged, error)
  \/ \E outcome \in {"none", "error", "silent"} : Authenticates(outcome)

Next == DriverStep \/ Begin \/ ChipStep

Spec == Init /\ [][Next]_vars

\* The driver's loop goes on.  Nothing is assumed of the chip: it may be dead.
FairSpec == Spec /\ WF_vars(DriverStep)

-----------------------------------------------------------------------------
(* Properties *)

\* An answer that PCD_CommunicateWithPICC returns with STATUS_OK is the one the
\* card gave to this frame, although the wait for an earlier frame's answer ended
\* (by the timer, or by the count of rounds) with the chip still receiving.
OwnAnswer ==
  status = "OK" =>
    CASE op = "Auth" -> frame \in given
      [] op = "TwoStep" /\ back = <<>> -> TRUE
      [] OTHER -> frame \in given /\ Len(back) = 1 /\ back[1].from = "card" /\ back[1].of = frame

\* If MIFARE_Read returns STATUS_OK, the data are what the card sent.
ReadIsIntact ==
  status = "OK" /\ op = "Read" => \A i \in DOMAIN back : ~back[i].damaged

\* No frame goes out with the CRC of another one: the interrupt bit that ends the
\* wait for a CRC is that of this computation.
FramesAreSealed ==
  chip.command = "Transceive" =>
    \A i \in DOMAIN chip.fifo : chip.fifo[i].from = "reader" => ~chip.fifo[i].damaged

\* Every call returns, even if the chip is dead.
CallsReturn == []<>(pc = "done")

\* The registers implement the exchange: the answer to each frame is had at most
\* once, and it is the answer to this frame.
AnExchange ==
  INSTANCE Exchange WITH
    outcome <- IF status = "busy" THEN "pending"
               ELSE IF status = "OK" /\ (op # "TwoStep" \/ back # <<>>) THEN "answered"
               ELSE "failed"
ImplementsExchange == AnExchange!Spec
=============================================================================
