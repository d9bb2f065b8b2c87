----------------------------- MODULE MifareOps -----------------------------
(***************************************************************************)
(* The calls of the MFRC522 driver that change MIFARE Classic cards in more  *)
(* than one exchange: value blocks, access bits and their dump, and the UID   *)
(* of cards with the backdoor.  One sector: block 0 with the UID, two data    *)
(* blocks, the trailer.  A step is one exchange; frames and answers get lost  *)
(* and cards are exchanged between any two.  Keys are the default ones.       *)
(***************************************************************************)
EXTENDS MifareCodec

CONSTANTS
  Cards,      \* cards, by their first block
  Magic,      \* those with the backdoor
  Values,     \* values to store
  Deltas,     \* amounts to add or take away
  Accesses,   \* access bits to set
  Uids,       \* new UIDs, of any length
  MaxCalls,   \* bound: calls
  None        \* no card, no command, no value

Sector == 0
Block  == 0 .. NoOfBlocks(Sector) - 1
Data   == {1, 2}
TrailerBlock   == 3

Op == {"set", "get", "inc", "dec", "restore", "transfer", "access", "dump", "setUid", "unbrick"}
Command == [op : Op \cup {"write"}, block : Block]

ASSUME OpsConstants ==
  /\ Cards \subseteq [1 .. 16 -> Byte] /\ Magic \subseteq Cards
  /\ Values \subseteq Int32 /\ Deltas \subseteq Int32 \cap Nat
  /\ Accesses \subseteq Access /\ Uids \subseteq Seq(Byte) /\ MaxCalls \in Nat
  /\ None \notin Cards \cup Access \cup Command

VARIABLES
  pc, calls,  \* the step the driver is at; how many calls there were
  call,       \* the call: [op, block, arg]
  result,     \* what it returned: TRUE for STATUS_OK or true
  got,        \* the value of MIFARE_GetValue
  shown,      \* what the dump shows of each block: its access bits and value
  blk,        \* blockOffset
  access,     \* the access bits read from the trailer, until then none: isSectorTrailer
  buf,        \* block0_buffer
  uid, crypto,\* this->uid and MFCrypto1On
  here, cards,\* the card in the field; all cards
  due,        \* history: the result of the last change of a value reported done
  granted,    \* history: the access bits each card was given
  before,     \* history: the cards' blocks when MIFARE_SetUid began, until the next call
  swapped     \* history: a card left or came during the call

vars == <<pc, calls, call, result, got, shown, blk, access, buf, uid, crypto, here,
          cards, due, granted, before, swapped>>

\* link: how the card follows; a lost encrypted frame puts it out of step (desync).
\* want: the command whose data it waits for.  reg: its volatile value.
Card ==
  [link : {"idle", "ready", "halt", "active", "auth", "desync", "gate", "open"},
   want : Command \cup {None},
   reg : Int32 \cup {None}, blocks : [Block -> [1 .. 16 -> Byte]]]

\* Every variable holds a value of its type.
TypeOK ==
  /\ pc \in {"free", "write1", "write2", "two1", "two2", "transfer", "get", "dumpAuth",
             "dumpRead", "uidAuth", "uidRequest", "uidSelect", "uidAgain", "uidRead", "halt",
             "magic40", "magic43", "wake"}
  /\ calls \in 0 .. MaxCalls /\ call.op \in Op \cup {None} /\ call.block \in Block
  /\ result \in BOOLEAN /\ got \in Int32
  /\ shown \in [Block -> [access : 0 .. 7, value : Int32 \cup {None}] \cup {None}]
  /\ blk \in Block /\ access \in Access \cup {None} /\ buf \in [1 .. 16 -> Byte]
  /\ uid \in [1 .. 4 -> Byte] /\ crypto \in BOOLEAN
  /\ here \in Cards \cup {None} /\ cards \in [Cards -> Card]
  /\ due \in Int \cup {None} /\ granted \in [Cards -> Access]
  /\ before \in [Cards -> [Block -> [1 .. 16 -> Byte]] \cup {None}] /\ swapped \in BOOLEAN

-----------------------------------------------------------------------------
(* Cards *)

Transport == [o \in 0 .. 3 |-> IF o = 3 THEN 1 ELSE 0]
Zeros(n)  == [i \in 1 .. n |-> 0]
Trailer(g) == Zeros(6) \o SetAccessBits(g) \o Zeros(7)
UidOf(c)  == SubSeq(c.blocks[0], 1, 4)

\* A reader selects the card only if the BCC fits.
Selectable(c) == c.blocks[0][5] = Bcc(UidOf(c))

Understands(c) == c.link = IF crypto THEN "auth" ELSE "open"

\* A frame that makes no sense to the card sends it back.
Confused(c) ==
  IF c.link \in {"idle", "halt"} THEN c
  ELSE [c EXCEPT !.link = "idle", !.want = None, !.reg = None]
Refuses(c) == [card |-> Confused(c), reply |-> "none"]
Acks(c)    == [card |-> c, reply |-> "ack"]
Nak(c)     == [card |-> Confused(c), reply |-> "nak"]

\* Two bytes: a command and a block.
OnCommand(c, op, b) ==
  IF ~Understands(c) \/ c.want # None THEN Refuses(c)
  ELSE CASE op = "write" -> Acks([c EXCEPT !.want = [op |-> op, block |-> b]])
         [] op = "read" -> Acks(c)
         [] op = "transfer" ->
              IF c.reg = None THEN Nak(c)
              ELSE Acks([c EXCEPT !.blocks[b] = ValueBlock(c.reg, b)])
         [] OTHER ->
              IF IsValueBlock(c.blocks[b])
              THEN Acks([c EXCEPT !.want = [op |-> op, block |-> b]]) ELSE Nak(c)

\* The value after an operation on a block.
Changed(c, op, b, delta) ==
  CASE op = "inc"     -> CardNumber(c.blocks[b]) + delta
    [] op = "dec"     -> CardNumber(c.blocks[b]) - delta
    [] op = "restore" -> CardNumber(c.blocks[b])

\* The same, within the bounds of an int32_t.
InRange(c, op, b, delta) ==
  CASE op = "inc"     -> CardNumber(c.blocks[b]) <= 2147483647 - delta
    [] op = "dec"     -> CardNumber(c.blocks[b]) >= -2147483647 - 1 + delta
    [] op = "restore" -> TRUE

\* The data of the second step: 16 bytes are confirmed, 4 bytes only if refused.
OnData(c, data) ==
  IF ~Understands(c) \/ c.want = None THEN Refuses(c)
  ELSE IF Len(data) # (IF c.want.op = "write" THEN 16 ELSE 4) THEN Refuses(c)
  ELSE IF c.want.op = "write"
       THEN Acks([c EXCEPT !.blocks[c.want.block] = data, !.want = None])
  ELSE IF InRange(c, c.want.op, c.want.block, CardNumber(data))
       THEN [card |-> [c EXCEPT !.want = None,
                         !.reg = Changed(c, c.want.op, c.want.block, CardNumber(data))],
             reply |-> "none"]
       ELSE Nak(c)

OnHalt(c) ==
  IF \/ Understands(c) /\ c.want = None
     \/ c.link = "active" /\ ~crypto
  THEN [card |-> [c EXCEPT !.link = "halt", !.reg = None], reply |-> "none"]
  ELSE Refuses(c)

OnMagic(c, from, to) ==
  IF ~crypto /\ c.link \in from THEN Acks([c EXCEPT !.link = to]) ELSE Refuses(c)

OnAuth(c) ==
  IF c.link = (IF crypto THEN "auth" ELSE "active") /\ c.want = None /\ uid = UidOf(c)
  THEN Acks([c EXCEPT !.link = "auth"]) ELSE Refuses(c)

OnRequest(c) ==
  IF ~crypto /\ c.link = "idle" THEN Acks([c EXCEPT !.link = "ready"]) ELSE Refuses(c)

OnSelect(c) ==
  IF ~crypto /\ c.link = "ready" /\ Selectable(c) THEN Acks([c EXCEPT !.link = "active"])
  ELSE Refuses(c)

OnWake(c) ==
  IF ~crypto /\ c.link \in {"idle", "halt"} THEN Acks([c EXCEPT !.link = "ready"])
  ELSE Refuses(c)

\* A frame that does not arrive.
Missed(c) == IF crypto /\ c.link = "auth" THEN [c EXCEPT !.link = "desync"] ELSE c

\* An exchange with the card in the field that would react so, and the answer as
\* the reader gets it.
Gets(reaction, reply) ==
  \/ reply = "none" /\ here = None /\ UNCHANGED cards
  \/ reply = "none" /\ here # None /\ cards' = [cards EXCEPT ![here] = Missed(@)]
  \/ /\ here # None /\ cards' = [cards EXCEPT ![here] = reaction.card]
     /\ reply \in {reaction.reply, "none"}

C == cards[here]

-----------------------------------------------------------------------------
(* Calls *)

NoCall == [op |-> None, block |-> 0, arg |-> 0]
Blank  == [b \in Block |-> None]

Init ==
  /\ pc = "free" /\ calls = 0 /\ call = NoCall /\ result = FALSE
  /\ got = 0 /\ shown = Blank /\ blk = 0 /\ access = None
  /\ buf = Zeros(16) /\ uid = Zeros(4) /\ crypto = FALSE
  /\ here = None /\ due = None /\ granted = [c \in Cards |-> Transport] /\ swapped = FALSE
  /\ cards = [c \in Cards |->
       [link |-> "idle", want |-> None, reg |-> None,
        blocks |-> [b \in Block |-> IF b = 0 THEN c
                                    ELSE IF b = TrailerBlock THEN Trailer(Transport)
                                    ELSE ValueBlock(0, b)]]]
  /\ before = [c \in Cards |-> None]

History == <<calls, call, before>>
Reading == <<got, shown, blk, access>>

Begin(op, b, arg, at) ==
  /\ pc = "free" /\ calls < MaxCalls /\ calls' = calls + 1 /\ pc' = at
  /\ call' = [op |-> op, block |-> b, arg |-> arg] /\ result' = FALSE /\ swapped' = FALSE
  /\ before' = [c \in Cards |-> IF op = "setUid" THEN cards[c].blocks ELSE None]
  /\ got' = 0 /\ shown' = Blank /\ blk' = NoOfBlocks(Sector) - 1 /\ access' = None
  /\ buf' = Zeros(16)
  /\ UNCHANGED <<uid, crypto, here, cards, due, granted>>

\* PICC_ReadCardSerial copies the UID also of a card whose answer to the SELECT was
\* damaged.
Selecting(reply) ==
  /\ Gets(OnSelect(C), reply)
  /\ \/ reply = "none" /\ uid' = uid
     \/ /\ here # None /\ OnSelect(C).reply = "ack" /\ cards'[here] = OnSelect(C).card
        /\ uid' = UidOf(C)

\* Between calls the caller, who has seen the last one's results, looks for a card,
\* selects it, authenticates, or ends the session.
BetweenCalls ==
  /\ pc = "free" /\ call' = NoCall /\ result' = FALSE /\ swapped' = FALSE
  /\ before' = [c \in Cards |-> None]
  /\ got' = 0 /\ shown' = Blank /\ blk' = 0 /\ access' = None /\ buf' = Zeros(16)
  /\ UNCHANGED <<pc, calls, here, due, granted>>

IsNewCardPresent ==
  /\ BetweenCalls /\ UNCHANGED <<uid, crypto>>
  /\ \E reply \in {"ack", "none"} : Gets(OnRequest(C), reply)

ReadCardSerial ==
  /\ BetweenCalls /\ UNCHANGED crypto
  /\ \E reply \in {"ack", "none"} : Selecting(reply)

Authenticate ==
  /\ BetweenCalls /\ UNCHANGED uid
  /\ \E reply \in {"ack", "none"} :
       Gets(OnAuth(C), reply) /\ crypto' = (crypto \/ reply = "ack")

StopCrypto1 ==
  /\ BetweenCalls /\ UNCHANGED <<uid, cards>> /\ crypto /\ crypto' = FALSE

\* MIFARE_SetUid refuses an empty UID and one that leaves no room for its BCC.
LengthFits(newUid) == Len(newUid) \in 1 .. 15

CallBegins ==
  \/ \E b \in Data, v \in Values : Begin("set", b, v, "write1")
  \/ \E b \in Data : Begin("get", b, 0, "get") \/ Begin("restore", b, 0, "two1")
                       \/ Begin("transfer", b, 0, "transfer")
  \/ \E b \in Data, d \in Deltas : Begin("inc", b, d, "two1") \/ Begin("dec", b, d, "two1")
  \/ \E g \in Accesses : Begin("access", TrailerBlock, g, "write1")
  \/ Begin("dump", 0, 0, "dumpAuth")
  \/ \E u \in Uids : Begin("setUid", 0, u, IF LengthFits(u) THEN "uidAuth" ELSE "free")
  \/ Begin("unbrick", 0, 0, "halt")

Return(r) == pc' = "free" /\ result' = r
GoTo(at)  == pc' = at /\ UNCHANGED result

-----------------------------------------------------------------------------
(* Exchanges that are answered by four bits *)

\* A slip: a timeout is success for every command.
Accepted_Always(acceptTimeout, reply) == reply \in {"ack", "none"}

\* PCD_MIFARE_Transceive returns STATUS_OK.
Accepted(acceptTimeout, reply) ==
  \/ reply = "ack"
  \/ acceptTimeout /\ reply = "none"

FourBits(reaction, acceptTimeout, ok, failed) ==
  \E reply \in {"ack", "nak", "none"} :
    Gets(reaction, reply) /\ IF Accepted(acceptTimeout, reply) THEN ok ELSE failed

\* MIFARE_Write: the command and the block ...
Write1 ==
  /\ pc = "write1"
  /\ FourBits(OnCommand(C, "write", call.block), FALSE, GoTo("write2"), Return(FALSE))
  /\ UNCHANGED <<buf, uid, crypto, here, due, granted, swapped, History, Reading>>

\* ... and the 16 bytes, which are a value block, a trailer, or block 0.
Bytes ==
  CASE call.op = "set"     -> ValueBlock(call.arg, call.block)
    [] call.op = "access"  -> Trailer(call.arg)
    [] call.op = "setUid"  -> buf
    [] call.op = "unbrick" -> UnbrickBlock0

Write2 ==
  /\ pc = "write2"
  /\ FourBits(OnData(C, Bytes), FALSE,
              IF call.op = "setUid" THEN GoTo("wake") ELSE Return(TRUE), Return(FALSE))
  /\ granted' = [c \in Cards |-> IF cards'[c].blocks[TrailerBlock] # cards[c].blocks[TrailerBlock]
                                 THEN call.arg ELSE granted[c]]
  /\ UNCHANGED <<buf, uid, crypto, here, due, swapped, History, Reading>>

\* MIFARE_TwoStepHelper: the command and the block ...
TwoStep1 ==
  /\ pc = "two1"
  /\ FourBits(OnCommand(C, call.op, call.block), FALSE, GoTo("two2"), Return(FALSE))
  /\ UNCHANGED <<buf, uid, crypto, here, due, granted, swapped, History, Reading>>

\* ... and the amount, to which the card answers only if it refuses.
TwoStep2 ==
  /\ pc = "two2"
  /\ FourBits(OnData(C, ValueBytes(call.arg)), TRUE, Return(TRUE), Return(FALSE))
  /\ due' = IF ~result' THEN due
             ELSE IF here # None /\ InRange(C, call.op, call.block, call.arg)
                  THEN Changed(C, call.op, call.block, call.arg) ELSE None
  /\ UNCHANGED <<buf, uid, crypto, here, granted, swapped, History, Reading>>

\* MIFARE_Transfer
Transfer ==
  /\ pc = "transfer"
  /\ FourBits(OnCommand(C, "transfer", call.block), FALSE, Return(TRUE), Return(FALSE))
  /\ UNCHANGED <<buf, uid, crypto, here, due, granted, swapped, History, Reading>>

-----------------------------------------------------------------------------
(* Reading *)

\* MIFARE_GetValue
GetValue ==
  /\ pc = "get"
  /\ \E reply \in {"ack", "none"} :
       /\ Gets(OnCommand(C, "read", call.block), reply)
       /\ Return(reply = "ack")
       /\ got' = IF reply = "ack" THEN ReadValue(C.blocks[call.block]) ELSE got
  /\ UNCHANGED <<shown, blk, access, buf, uid, crypto, here, due, granted, swapped, History>>

\* PICC_DumpMifareClassicSectorToSerial authenticates until a trailer was read ...
DumpAuth ==
  /\ pc = "dumpAuth"
  /\ \E reply \in {"ack", "none"} :
       /\ Gets(OnAuth(C), reply) /\ crypto' = (crypto \/ reply = "ack")
       /\ IF reply = "ack" THEN GoTo("dumpRead") ELSE Return(FALSE)
  /\ UNCHANGED <<buf, uid, here, due, granted, swapped, History, Reading>>

\* ... and shows the access bits of a block, and its value if they say so.
Shows(g, bytes) ==
  [access |-> g, value |-> IF Group(NoOfBlocks(Sector), blk) # 3 /\ g \in {1, 6}
                           THEN ReadValue(bytes) ELSE None]

DumpRead ==
  /\ pc = "dumpRead"
  /\ \E reply \in {"ack", "none"} :
       /\ Gets(OnCommand(C, "read", blk), reply)
       /\ IF reply = "none" THEN UNCHANGED <<shown, access>>
          ELSE LET bytes == C.blocks[blk]
               IN  /\ access' = IF access # None THEN access
                                ELSE ParseAccessBits(SubSeq(bytes, 7, 9))
                   /\ shown' = [shown EXCEPT
                                  ![blk] = Shows(access'[Group(NoOfBlocks(Sector), blk)], bytes)]
  /\ IF blk = 0 THEN Return(TRUE) /\ UNCHANGED blk
     ELSE blk' = blk - 1 /\ GoTo(IF access' = None THEN "dumpAuth" ELSE "dumpRead")
  /\ UNCHANGED <<got, buf, uid, crypto, here, due, granted, swapped, History>>

-----------------------------------------------------------------------------
(* MIFARE_SetUid, MIFARE_UnbrickUidSector and MIFARE_OpenUidBackdoor *)

\* Authenticate; only a timeout says that no card was selected yet.
UidAuth ==
  /\ pc = "uidAuth"
  /\ \E reply \in {"ack", "none"} :
       /\ Gets(OnAuth(C), reply) /\ crypto' = (crypto \/ reply = "ack")
       /\ IF reply = "ack" THEN GoTo("uidRead")
          ELSE GoTo("uidRequest") \/ Return(FALSE)
  /\ UNCHANGED <<buf, uid, here, due, granted, swapped, History, Reading>>

\* PICC_IsNewCardPresent ...
UidRequest ==
  /\ pc = "uidRequest"
  /\ \E reply \in {"ack", "none"} :
       /\ Gets(OnRequest(C), reply)
       /\ IF reply = "ack" THEN GoTo("uidSelect") ELSE Return(FALSE)
  /\ UNCHANGED <<buf, uid, crypto, here, due, granted, swapped, History, Reading>>

\* ... and PICC_ReadCardSerial.
UidSelect ==
  /\ pc = "uidSelect"
  /\ \E reply \in {"ack", "none"} :
       /\ Selecting(reply)
       /\ IF reply = "ack" THEN GoTo("uidAgain") ELSE Return(FALSE)
  /\ UNCHANGED <<buf, crypto, here, due, granted, swapped, History, Reading>>

UidAgain ==
  /\ pc = "uidAgain"
  /\ \E reply \in {"ack", "none"} :
       /\ Gets(OnAuth(C), reply) /\ crypto' = (crypto \/ reply = "ack")
       /\ IF reply = "ack" THEN GoTo("uidRead") ELSE Return(FALSE)
  /\ UNCHANGED <<buf, uid, here, due, granted, swapped, History, Reading>>

\* Read block 0 and put the new UID in; a read that fails leaves the reader encrypted.
UidRead ==
  /\ pc = "uidRead"
  /\ \E reply \in {"ack", "none"} :
       /\ Gets(OnCommand(C, "read", 0), reply)
       /\ IF reply = "ack"
          THEN GoTo("halt") /\ buf' = NewBlock0(C.blocks[0], call.arg) /\ crypto' = FALSE
          ELSE Return(FALSE) /\ UNCHANGED <<buf, crypto>>
  /\ UNCHANGED <<uid, here, due, granted, swapped, History, Reading>>

\* PICC_HaltA; its result is not looked at.
HaltA ==
  /\ pc = "halt" /\ GoTo("magic40") /\ Gets(OnHalt(C), "none")
  /\ UNCHANGED <<buf, uid, crypto, here, due, granted, swapped, History, Reading>>

\* Without the backdoor MIFARE_SetUid returns; MIFARE_UnbrickUidSector writes anyway.
NoBackdoor == IF call.op = "setUid" THEN Return(FALSE) ELSE GoTo("write1")

\* received is not initialised: an answer may be too long for it.
Magic40 ==
  /\ pc = "magic40"
  /\ \E reply \in {"ack", "none"} :
       /\ Gets(OnMagic(C, IF here \in Magic THEN {"idle", "halt"} ELSE {}, "gate"), reply)
       /\ \/ reply = "ack" /\ GoTo("magic43")
          \/ NoBackdoor
  /\ UNCHANGED <<buf, uid, crypto, here, due, granted, swapped, History, Reading>>

Magic43 ==
  /\ pc = "magic43"
  /\ \E reply \in {"ack", "none"} :
       /\ Gets(OnMagic(C, {"gate"}, "open"), reply)
       /\ IF reply = "ack" THEN GoTo("write1") ELSE NoBackdoor
  /\ UNCHANGED <<buf, uid, crypto, here, due, granted, swapped, History, Reading>>

\* PICC_WakeupA; its result is not looked at.
Wake ==
  /\ pc = "wake" /\ Return(TRUE)
  /\ \E reply \in {"ack", "none"} : Gets(OnWake(C), reply)
  /\ UNCHANGED <<buf, uid, crypto, here, due, granted, swapped, History, Reading>>

-----------------------------------------------------------------------------
\* A card without the field forgets everything but its blocks.
Off(c) == [c EXCEPT !.link = "idle", !.want = None, !.reg = None]

Exchanged ==
  /\ \/ here # None /\ here' = None /\ cards' = [cards EXCEPT ![here] = Off(@)]
     \/ here = None /\ here' \in Cards /\ UNCHANGED cards
  /\ swapped' = TRUE
  /\ UNCHANGED <<pc, result, buf, uid, crypto, due, granted, History, Reading>>

Next ==
  \/ CallBegins \/ IsNewCardPresent \/ ReadCardSerial \/ Authenticate \/ StopCrypto1
  \/ Write1 \/ Write2 \/ TwoStep1 \/ TwoStep2 \/ Transfer \/ GetValue \/ DumpAuth \/ DumpRead
  \/ UidAuth \/ UidRequest \/ UidSelect \/ UidAgain \/ UidRead
  \/ HaltA \/ Magic40 \/ Magic43 \/ Wake \/ Exchanged

Spec == Init /\ [][Next]_vars

-----------------------------------------------------------------------------
(* Properties *)

Succeeded(op) == pc = "free" /\ result /\ call.op = op /\ here # None /\ ~swapped

\* A transfer reported done has stored the result of the last change of a value that
\* was reported done, although a change that was lost is reported done as well, since
\* the card does not confirm it.
TransferDone ==
  Succeeded("transfer") => due # None /\ CardNumber(C.blocks[call.block]) = due

\* What MIFARE_SetValue has stored the card takes for a value block with that value, and
\* what MIFARE_GetValue returns is the value the card counts with.
ValuesAgree ==
  /\ Succeeded("set") => LET b == C.blocks[call.block]
                         IN  IsValueBlock(b) /\ CardNumber(b) = call.arg
  /\ Succeeded("get") => got = CardNumber(C.blocks[call.block])

\* The dump shows the access bits the card was given, if it could read the trailer, and
\* the values of value blocks.
AccessShown ==
  Succeeded("dump") /\ shown[TrailerBlock] # None =>
    \A b \in Block : shown[b] # None =>
      /\ shown[b].access = granted[here][b]
      /\ shown[b].value # None => shown[b].value = CardNumber(C.blocks[b])

\* If MIFARE_SetUid returns true, the card has the new UID, with its BCC, and keeps the
\* rest of block 0 and of its other blocks; a UID of four bytes can be selected.
UidReplaced ==
  Succeeded("setUid") =>
    LET old == before[here]
        n   == Len(call.arg)
    IN  /\ SubSeq(C.blocks[0], 1, n) = call.arg
        /\ SubSeq(C.blocks[0], n + 2, 16) = SubSeq(old[0], n + 2, 16)
        /\ \A b \in Block \ {0} : C.blocks[b] = old[b]
        /\ n = 4 => Selectable(C)

=============================================================================
