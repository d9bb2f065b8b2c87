----------------------------- MODULE CardReader -----------------------------
(***************************************************************************)
(* CardReader (src/CardReader.cpp): one request at a time, on the server   *)
(* thread, run on whatever cards are in the reader's field.  The module has *)
(* the loop of on_signal_received, handle_signal, the key search and the    *)
(* serialized reads and writes of the three data blocks, one action per     *)
(* exchange with the card, so that cards come and go between any two        *)
(* exchanges, and an exchange may be lost.                                  *)
(*                                                                          *)
(* The cards (PICCs) are external: MIFARE Classic tags with the states of   *)
(* ISO/IEC 14443-3 as MFRC522.cpp's comments give them.  A card that does   *)
(* not understand a frame, because of its state, of the wrong key or of a   *)
(* cipher stream out of step, falls back to IDLE without an answer.         *)
(*                                                                          *)
(* The text of a WRITE has at most 32 characters, so that no piece of it is *)
(* longer than a block; what the pieces are makes no difference here.       *)
(***************************************************************************)
EXTENDS Integers, Sequences, FiniteSets

CONSTANTS
  Card,        \* the cards
  NrKeys,      \* NR_KNOWN_KEYS: KeyChain is 1 .. NrKeys, 1 the factory default
  KeyOf,       \* each card's key A: its place in KeyChain, 0 if it is not there
  Content,     \* each card's data blocks: 0 if all zero bytes, -1 if text
  Command,     \* the commands requests carry
  Air,         \* {TRUE}: every frame arrives; BOOLEAN: frames may be lost
  MaxRequests, \* bound: requests
  MaxEmits,    \* bound: answers counted per request
  NoCard

\* blocks[] = {8, 9, 10} of handle_signal, by position.
Blocks == 1 .. 3

ASSUME ReaderConstants ==
  /\ NrKeys \in Nat \ {0} /\ KeyOf \in [Card -> 0 .. NrKeys]
  /\ Content \in [Card -> [Blocks -> {-1, 0}]]
  /\ Command \subseteq {"AUTH", "READ", "WRITE", "DUMP"}
  /\ Air \subseteq BOOLEAN /\ TRUE \in Air
  /\ MaxRequests \in Nat /\ MaxEmits \in Nat \ {0} /\ NoCard \notin Card

VARIABLES
  pc,       \* where on_signal_received is; "idle": no request
  request,  \* the request's number
  command,  \* and what it asks for
  blk, key, \* loop variables of handle_signal (blk: sectors too) and generate_key
  answer,   \* what the blocks handled so far gave: a sequence of results
  emitted,  \* answers emitted for this request, counted up to MaxEmits
  answered, \* answer.length() > 0 at the end of some handle_signal
  uid,      \* the card this->uid names
  crypto,   \* MFCrypto1On in the reader's Status2Reg
  field,    \* the state of each card
  mem,      \* the data blocks of each card; n > 0: written by request n
  undisturbed \* history: no card left and no frame was lost since the select

controlVars == <<pc, request, command, blk, key, answer, emitted, answered>>
vars == <<controlVars, uid, crypto, field, mem, undisturbed>>

CardState == {"away", "idle", "ready", "active", "auth", "desync", "halt"}
Result == {"text", "blank", "written", "error", "info"}

\* Every variable holds a value of its type.
TypeOK ==
  /\ pc \in {"idle", "poll", "select", "handle", "tryAuth", "tryRead", "auth",
             "read", "write", "writeData", "dump", "dumpTrailer", "dumpAgain",
             "dumpRest", "dumpEnd", "dumpHalt", "emit", "halt", "stopCrypto", "init"}
  /\ request \in 0 .. MaxRequests /\ command \in {"AUTH", "READ", "WRITE", "DUMP"}
  /\ blk \in Blocks /\ key \in 1 .. NrKeys
  /\ answer \in Seq(Result)
  /\ emitted \in 0 .. MaxEmits /\ answered \in BOOLEAN
  /\ uid \in Card \cup {NoCard} /\ crypto \in BOOLEAN
  /\ field \in [Card -> CardState]
  /\ mem \in [Card -> [Blocks -> -1 .. MaxRequests]]
  /\ undisturbed \in BOOLEAN

Init ==
  /\ pc = "idle" /\ request = 0 /\ command = "AUTH"
  /\ blk = 1 /\ key = 1 /\ answer = <<>> /\ emitted = 0 /\ answered = FALSE
  /\ uid = NoCard /\ crypto = FALSE
  /\ field \in [Card -> {"away", "idle"}]
  /\ mem = Content
  /\ undisturbed = TRUE

-----------------------------------------------------------------------------
(* What a frame of the reader does to the cards *)

\* A card that cannot make sense of a frame: an unselected one keeps silent.
Confused(s) == IF s \in {"ready", "active", "auth", "desync"} THEN "idle" ELSE s

\* The cards that understand what the reader sends now.
Partners == {c \in Card : field[c] = IF crypto THEN "auth" ELSE "active"}

\* A frame to the selected card puts it into state s; the others are confused.
Hears(s) ==
  [c \in Card |-> IF c \in Partners THEN s ELSE Confused(field[c])]

\* A frame that does not reach the field.  If it was enciphered, the streams of
\* the reader and of its card are out of step from now on.
Unheard ==
  [c \in Card |-> IF crypto /\ c \in Partners THEN "desync" ELSE field[c]]

\* One enciphered exchange succeeds: the frame and the response arrive.
Exchange(ok) ==
  \E sent \in Air, back \in Air :
    /\ ok = (sent /\ back /\ Partners # {})
    /\ field' = IF ~sent THEN Unheard ELSE Hears(IF back THEN "auth" ELSE "desync")
    /\ undisturbed' = (undisturbed /\ sent /\ back)

\* PICC_RequestA: REQA invites the cards in IDLE to READY.
RequestA ==
  [c \in Card |-> IF field[c] = "idle" /\ ~crypto THEN "ready"
                                                  ELSE Confused(field[c])]

\* PCD_Authenticate with key k succeeds.
Opens(k) == \E c \in Partners : c = uid /\ KeyOf[c] = k

\* PCD_Authenticate with key k: the card opens, or falls back to IDLE.  If one of
\* the later passes is lost, the card has begun a session and the reader has not.
Authenticate(k, ok) ==
  \E heard \in Air, back \in Air :
    /\ ok = (heard /\ back /\ Opens(k))
    /\ field' = IF ~heard THEN Unheard
                ELSE Hears(IF ~Opens(k) THEN "idle" ELSE IF back THEN "auth" ELSE "desync")
    /\ crypto' = (crypto \/ ok)
    /\ undisturbed' = (undisturbed /\ heard /\ back)

\* PICC_HaltA: the selected card goes to HALT; there is no response to lose.
HaltA ==
  \E heard \in Air : field' = IF heard THEN Hears("halt") ELSE Unheard

-----------------------------------------------------------------------------
(* on_signal_received *)

\* signal_card_reader.emit(command, data)
Signal(com) ==
  /\ pc = "idle" /\ request < MaxRequests
  /\ request' = request + 1 /\ command' = com
  /\ answer' = <<>> /\ emitted' = 0 /\ answered' = FALSE
  /\ pc' = "poll"
  /\ UNCHANGED <<blk, key, uid, crypto, field, mem, undisturbed>>

RequestSame == UNCHANGED <<request, command, mem>>
NoAnswer    == UNCHANGED <<answer, emitted, answered>>

\* PICC_IsNewCardPresent()
IsNewCardPresent ==
  /\ pc = "poll"
  /\ \E sent \in Air, back \in Air :
       /\ field' = IF sent THEN RequestA ELSE Unheard
       /\ pc' = IF sent /\ back /\ \E c \in Card : field'[c] = "ready"
                THEN "select" ELSE "halt"
  /\ UNCHANGED <<blk, key, uid, crypto, undisturbed>> /\ NoAnswer /\ RequestSame

\* The cards after anticollision has chosen c: the others go back to IDLE.
Selected(c) ==
  [d \in Card |-> IF d = c THEN "active" ELSE Confused(field[d])]

\* A slip: uid is filled in once and never again.
ReadCardSerial_StaleUid(c) ==
  /\ pc = "select" /\ field[c] = "ready"
  /\ field' = Selected(c)
  /\ uid' = (IF uid = NoCard THEN c ELSE uid) /\ undisturbed' = TRUE
  /\ pc' = "handle"
  /\ UNCHANGED <<blk, key, crypto>> /\ NoAnswer /\ RequestSame

\* PICC_ReadCardSerial() chooses a card and stores its UID ...
ReadCardSerial(c) ==
  /\ pc = "select" /\ field[c] = "ready"
  /\ field' = Selected(c)
  /\ uid' = c /\ undisturbed' = TRUE
  /\ pc' = "handle"
  /\ UNCHANGED <<blk, key, crypto>> /\ NoAnswer /\ RequestSame

\* ... or fails, since the card left, or since anticollision among several
\* went wrong (see PiccSelect) ...
ReadCardSerialFails ==
  /\ pc = "select"
  /\ Cardinality({c \in Card : field[c] = "ready"}) # 1
  /\ field' = [c \in Card |-> Confused(field[c])]
  /\ pc' = "halt"
  /\ UNCHANGED <<blk, key, uid, crypto, undisturbed>> /\ NoAnswer /\ RequestSame

\* ... or since a frame was lost: the SELECT, or only the SAK that a card
\* answered to it, which may have been damaged, its UID being stored already.
ReadCardSerialLost ==
  /\ pc = "select" /\ FALSE \in Air
  /\ \/ UNCHANGED <<field, uid>>
     \/ \E c \in Card :
          /\ field[c] = "ready"
          /\ field' = Selected(c) /\ uid' \in {uid, c}
  /\ pc' = "halt"
  /\ UNCHANGED <<blk, key, crypto, undisturbed>> /\ NoAnswer /\ RequestSame

\* A slip: the loops over the blocks start at the second block.
HandleSignal_SecondBlock ==
  /\ pc = "handle"
  /\ answer' = IF command = "AUTH" THEN <<"info">> ELSE <<>>
  /\ blk' = 2 /\ key' = 1
  /\ pc' = CASE command = "AUTH" -> "emit"
             [] command = "DUMP" -> "dump"
             [] OTHER            -> "tryAuth"
  /\ UNCHANGED <<emitted, answered, uid, crypto, field, undisturbed>> /\ RequestSame

\* handle_signal: look the command up.
HandleSignal ==
  /\ pc = "handle"
  /\ answer' = IF command = "AUTH" THEN <<"info">> ELSE <<>>
  /\ blk' = 1 /\ key' = 1
  /\ pc' = CASE command = "AUTH" -> "emit"
             [] command = "DUMP" -> "dump"
             [] OTHER            -> "tryAuth"
  /\ UNCHANGED <<emitted, answered, uid, crypto, field, undisturbed>> /\ RequestSame

\* generate_key goes on to its next key; after the last one it returns that.
NextKey ==
  IF key < NrKeys THEN key' = key + 1 /\ pc' = "tryAuth"
                  ELSE key' = key /\ pc' = "auth"

\* A slip: the keys are tried from the second on.
TryAuth_SkipsFirst ==
  /\ pc = "tryAuth"
  /\ \E ok \in BOOLEAN :
       /\ Authenticate(key + 1, ok)
       /\ IF ok THEN pc' = "tryRead" /\ key' = key ELSE NextKey
  /\ UNCHANGED <<blk, uid>> /\ NoAnswer /\ RequestSame

\* try_key: authenticate ...
TryAuth ==
  /\ pc = "tryAuth"
  /\ \E ok \in BOOLEAN :
       /\ Authenticate(key, ok)
       /\ IF ok THEN pc' = "tryRead" /\ key' = key ELSE NextKey
  /\ UNCHANGED <<blk, uid>> /\ NoAnswer /\ RequestSame

\* ... and read the block.
TryRead ==
  /\ pc = "tryRead"
  /\ \E ok \in BOOLEAN :
       /\ Exchange(ok)
       /\ IF ok THEN pc' = "auth" /\ key' = key ELSE NextKey
  /\ UNCHANGED <<blk, uid, crypto>> /\ NoAnswer /\ RequestSame

\* A read of a block is done: a READ keeps its result, a WRITE ignores it.
BlockRead(result) ==
  IF command = "WRITE"
  THEN pc' = "write" /\ UNCHANGED <<answer, blk, key>>
  ELSE /\ answer' = Append(answer, result)
       /\ IF blk < 3 THEN blk' = blk + 1 /\ key' = 1 /\ pc' = "tryAuth"
                     ELSE UNCHANGED <<blk, key>> /\ pc' = "emit"

\* read_block_serialized: authenticate with the key that was found ...
ReadBlockAuth ==
  /\ pc = "auth"
  /\ \E ok \in BOOLEAN :
       /\ Authenticate(key, ok)
       /\ IF ok THEN pc' = "read" /\ UNCHANGED <<answer, blk, key>>
                ELSE BlockRead("error")
  /\ UNCHANGED <<emitted, answered, uid>> /\ RequestSame

\* ... and read; sprintf("%c") of a zero byte adds nothing to the string.
ReadBlock ==
  /\ pc = "read"
  /\ \E ok \in BOOLEAN :
       /\ Exchange(ok)
       /\ BlockRead(IF ~ok THEN "error"
                    ELSE IF mem[uid][blk] = 0 THEN "blank" ELSE "text")
  /\ UNCHANGED <<emitted, answered, uid, crypto>> /\ RequestSame

\* The answer is overwritten by each block's.
BlockWritten(result) ==
  /\ answer' = <<result>>
  /\ IF blk < 3 THEN blk' = blk + 1 /\ key' = 1 /\ pc' = "tryAuth"
                ELSE UNCHANGED <<blk, key>> /\ pc' = "emit"

\* write_block_serialized: MIFARE_Write announces the block ...
WriteCommand ==
  /\ pc = "write"
  /\ \E sent \in Air, back \in Air :
       /\ field' = IF ~sent THEN Unheard
                   ELSE Hears(IF ~crypto THEN "idle" ELSE IF back THEN "auth" ELSE "desync")
       /\ undisturbed' = (undisturbed /\ sent /\ back)
       /\ IF sent /\ back /\ crypto /\ Partners # {}
          THEN pc' = "writeData" /\ UNCHANGED <<answer, blk, key>>
          ELSE BlockWritten("error")
  /\ UNCHANGED <<emitted, answered, uid, crypto>> /\ RequestSame

\* A slip: the status of the first exchange alone decides.
WriteResult_FirstOnly(ok) == "written"

WriteResult(ok) == IF ok THEN "written" ELSE "error"

\* ... and sends the data; a card that took them may not be heard to say so.
WriteData ==
  /\ pc = "writeData"
  /\ \E sent \in Air, back \in Air :
       /\ mem' = [c \in Card |-> IF sent /\ c \in Partners
                                 THEN [mem[c] EXCEPT ![blk] = request] ELSE mem[c]]
       /\ field' = IF ~sent THEN Unheard ELSE Hears(IF back THEN "auth" ELSE "desync")
       /\ undisturbed' = (undisturbed /\ sent /\ back)
       /\ BlockWritten(WriteResult(sent /\ back /\ Partners # {}))
  /\ UNCHANGED <<request, command, emitted, answered, uid, crypto>>

\* PICC_DumpToSerial handles the sectors one after the other ...
NextSector ==
  IF blk < 3 THEN blk' = blk + 1 /\ pc' = "dump" ELSE blk' = blk /\ pc' = "dumpEnd"

\* ... with the factory key, without which a sector is skipped ...
DumpAuth ==
  /\ pc \in {"dump", "dumpAgain"}
  /\ \E ok \in BOOLEAN :
       /\ Authenticate(1, ok)
       /\ IF ok THEN blk' = blk /\ pc' = IF pc = "dump" THEN "dumpTrailer" ELSE "dumpRest"
                ELSE NextSector
  /\ UNCHANGED <<key, uid>> /\ NoAnswer /\ RequestSame

\* ... reading its trailer; if that fails, authenticating for the next block too,
\* as isSectorTrailer stays set ...
DumpTrailer ==
  /\ pc = "dumpTrailer"
  /\ \E ok \in BOOLEAN :
       Exchange(ok) /\ pc' = IF ok THEN "dumpRest" ELSE "dumpAgain"
  /\ UNCHANGED <<blk, key, uid, crypto>> /\ NoAnswer /\ RequestSame

\* ... and reading the rest of the sector (one block stands for all) ...
DumpRest ==
  /\ pc = "dumpRest"
  /\ \E ok \in BOOLEAN : Exchange(ok)
  /\ NextSector
  /\ UNCHANGED <<key, uid, crypto>> /\ NoAnswer /\ RequestSame

\* ... HLTA inside the encrypted session, then out of it ...
DumpEnd ==
  /\ pc = "dumpEnd"
  /\ HaltA
  /\ crypto' = FALSE /\ pc' = "dumpHalt" /\ answer' = <<"info">>
  /\ UNCHANGED <<blk, key, emitted, answered, uid, undisturbed>> /\ RequestSame

\* ... and HLTA once more.
DumpHalt ==
  /\ pc = "dumpHalt"
  /\ HaltA
  /\ pc' = "emit"
  /\ UNCHANGED <<blk, key, uid, crypto, undisturbed>> /\ NoAnswer /\ RequestSame

\* A string is built from the results: it is empty if all blocks are blank.
Nonempty(results) == \E i \in DOMAIN results : results[i] # "blank"

\* The end of handle_signal: emit the answer if there is one.  Either way the
\* returned string is not empty.  The inner loop looks for a card again.
Emit ==
  /\ pc = "emit" /\ pc' = "poll"
  /\ emitted' = IF Nonempty(answer) /\ emitted < MaxEmits THEN emitted + 1 ELSE emitted
  /\ answered' = TRUE
  /\ UNCHANGED <<blk, key, answer, uid, crypto, field, undisturbed>> /\ RequestSame

\* while (answer.empty()): another round, or the request is done.
LoopTest == IF answered THEN "idle" ELSE "poll"

Halt ==
  /\ pc = "halt" /\ pc' = "stopCrypto"
  /\ HaltA
  /\ UNCHANGED <<blk, key, uid, crypto, undisturbed>> /\ NoAnswer /\ RequestSame

\* A slip: PCD_StopCrypto1 is left out.
StopCrypto1_Omitted ==
  /\ pc = "stopCrypto"
  /\ pc' = IF command = "DUMP" THEN "init" ELSE LoopTest
  /\ UNCHANGED <<blk, key, uid, crypto, field, undisturbed>> /\ NoAnswer /\ RequestSame

\* PCD_StopCrypto1, and after a DUMP the hard reset.
StopCrypto1 ==
  /\ pc = "stopCrypto"
  /\ crypto' = FALSE
  /\ pc' = IF command = "DUMP" THEN "init" ELSE LoopTest
  /\ UNCHANGED <<blk, key, uid, field, undisturbed>> /\ NoAnswer /\ RequestSame

\* PCD_Init switches the field off and on: every card starts again in IDLE.
HardReset ==
  /\ pc = "init"
  /\ crypto' = FALSE
  /\ field' = [c \in Card |-> IF field[c] = "away" THEN "away" ELSE "idle"]
  /\ pc' = LoopTest
  /\ UNCHANGED <<blk, key, uid, undisturbed>> /\ NoAnswer /\ RequestSame

-----------------------------------------------------------------------------
(* The people with the cards *)

Arrives(c) ==
  /\ field[c] = "away"
  /\ field' = [field EXCEPT ![c] = "idle"]
  /\ UNCHANGED <<controlVars, uid, crypto, mem, undisturbed>>

Leaves(c) ==
  /\ field[c] # "away"
  /\ field' = [field EXCEPT ![c] = "away"]
  /\ undisturbed' = FALSE
  /\ UNCHANGED <<controlVars, uid, crypto, mem>>

-----------------------------------------------------------------------------
ReaderStep ==
  \/ IsNewCardPresent \/ ReadCardSerialFails \/ ReadCardSerialLost
  \/ HandleSignal
  \/ \E c \in Card : ReadCardSerial(c)
  \/ TryAuth \/ TryRead \/ ReadBlockAuth \/ ReadBlock \/ WriteCommand \/ WriteData
  \/ DumpAuth \/ DumpTrailer \/ DumpRest \/ DumpEnd \/ DumpHalt \/ Emit \/ Halt \/ StopCrypto1 \/ HardReset

Next ==
  \/ ReaderStep
  \/ \E com \in Command : Signal(com)
  \/ \E c \in Card : Arrives(c) \/ Leaves(c)

Spec == Init /\ [][Next]_vars

\* The reader keeps running; nobody owes it a card, or takes one away.
FairSpec == Spec /\ WF_vars(ReaderStep)

-----------------------------------------------------------------------------
(* Properties *)

\* While a command runs, no card but the one this->uid names listens to what
\* is read and written: whoever else was in READY, was handled before or was
\* selected by a select that failed went back to IDLE or HALT, whichever
\* frames were lost meanwhile, and a card that comes back starts in IDLE.
Dumping  == {"dump", "dumpTrailer", "dumpAgain", "dumpRest", "dumpEnd", "dumpHalt"}
Handling == {"handle", "tryAuth", "tryRead", "auth", "read", "write", "writeData",
             "emit"} \cup Dumping
Listening(c) == field[c] \in {"active", "auth", "desync"}

OnlyUidListens ==
  pc \in Handling => \A c \in Card : Listening(c) => c = uid

\* The answer to a WRITE reports the last block only.  If no frame is lost, a
\* reported success still means that all three blocks of the card hold the new
\* data, whenever the card came or left: a card that missed one exchange has
\* left the encrypted session and completes no later one.
ReportsSuccess == pc = "emit" /\ command = "WRITE" /\ answer = <<"written">>

SuccessMeansAllWritten ==
  ReportsSuccess => \A b \in Blocks : mem[uid][b] = request

\* If frames are lost, success only means that the blocks from some block on
\* were written: those before it may have been missed without a word.
SuccessMeansSuffixWritten ==
  ReportsSuccess =>
    \E n \in Blocks : \A b \in Blocks : (mem[uid][b] = request) <=> b >= n

\* A card that has the factory key, stays and loses no frame is read and
\* written without an error.
Outcomes == {answer[i] : i \in DOMAIN answer}

FactoryKeyWorks ==
  (pc = "emit" /\ undisturbed /\ KeyOf[uid] = 1) => "error" \notin Outcomes

\* A request that waits is run on a card as long as one stays alone and no
\* frame is lost, whatever was done to that card or to others before: no card
\* is left in HALT and no encrypted session left open, both of which make the
\* reader's REQA go unanswered.
Alone(c) == \A d \in Card : field[d] # "away" <=> d = c

PresentCardServed ==
  \A c \in Card :
    (pc = "poll" /\ ~answered /\ Alone(c)) ~> (pc = "emit" \/ ~Alone(c))

\* CardReader.cpp:261 and 268, "loop through key from manufacturer's keychain",
\* "Try the known default keys": the same for every key of KeyChain.
KnownKeyWorks ==
  (pc = "emit" /\ undisturbed /\ KeyOf[uid] \in 1 .. NrKeys)
    => "error" \notin Outcomes

=============================================================================
