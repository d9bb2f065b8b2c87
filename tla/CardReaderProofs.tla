-------------------------- MODULE CardReaderProofs --------------------------
(***************************************************************************)
(* Proofs about CardReader, for any set of cards, contents, keys and     *)
(* number of requests.                                                      *)
(***************************************************************************)
EXTENDS CardReader, TLAPS

-----------------------------------------------------------------------------
(* Lemmas: what a frame does to the cards *)

\* Whatever the frame is, the field stays a function to card states.
LEMMA FrameTypes ==
  ASSUME TypeOK
  PROVE  /\ RequestA \in [Card -> CardState]
         /\ Unheard \in [Card -> CardState]
         /\ \A s \in CardState : Hears(s) \in [Card -> CardState]
         /\ \A c \in Card : Selected(c) \in [Card -> CardState]
         /\ [c \in Card |-> Confused(field[c])] \in [Card -> CardState]
BY DEF TypeOK, RequestA, Unheard, Hears, Selected, Confused, CardState

\* An authentication leaves the variables it sets in their types.
LEMMA AuthenticateType ==
  ASSUME TypeOK, NEW k, NEW ok \in BOOLEAN, Authenticate(k, ok)
  PROVE  /\ field' \in [Card -> CardState]
         /\ crypto' \in BOOLEAN /\ undisturbed' \in BOOLEAN
BY FrameTypes, ReaderConstants DEF Authenticate, TypeOK, CardState

\* So does any other exchange with the selected card.
LEMMA ExchangeType ==
  ASSUME TypeOK, NEW ok \in BOOLEAN, Exchange(ok)
  PROVE  field' \in [Card -> CardState] /\ undisturbed' \in BOOLEAN
BY FrameTypes, ReaderConstants DEF Exchange, TypeOK, CardState

\* The end of a block's read appends a result, or leaves the answer alone.
LEMMA BlockReadType ==
  ASSUME TypeOK, NEW result \in Result, BlockRead(result)
  PROVE  /\ answer' \in Seq(Result) /\ blk' \in Blocks /\ key' \in 1 .. NrKeys
         /\ pc' \in {"write", "tryAuth", "emit"}
<1>1. Append(answer, result) \in Seq(Result)
  BY DEF TypeOK
<1>2. CASE command = "WRITE"
  BY <1>2, ReaderConstants DEF BlockRead, TypeOK
<1>3. CASE command # "WRITE"
  <2>1. answer' \in Seq(Result)
    BY <1>1, <1>3, Zenon DEF BlockRead
  <2>2. /\ IF blk < 3 THEN blk' = blk + 1 /\ key' = 1 /\ pc' = "tryAuth"
                      ELSE blk' = blk /\ key' = key /\ pc' = "emit"
    BY <1>3, Zenon DEF BlockRead
  <2>3. blk' \in Blocks /\ key' \in 1 .. NrKeys /\ pc' \in {"write", "tryAuth", "emit"}
    BY <2>2, ReaderConstants DEF TypeOK, Blocks
  <2> QED
    BY <2>1, <2>3
<1> QED
  BY <1>2, <1>3

\* So does the end of a block's write.
LEMMA BlockWrittenType ==
  ASSUME TypeOK, NEW result \in Result, BlockWritten(result)
  PROVE  /\ answer' \in Seq(Result) /\ blk' \in Blocks /\ key' \in 1 .. NrKeys
         /\ pc' \in {"tryAuth", "emit"}
BY ReaderConstants DEF BlockWritten, TypeOK, Blocks

-----------------------------------------------------------------------------
(* Types *)

\* Every variable of CardReader holds a value of its type.
THEOREM Typing == Spec => []TypeOK
<1>1. Init => TypeOK
  <2> SUFFICES ASSUME Init PROVE TypeOK
    OBVIOUS
  <2>1. field \in [Card -> CardState]
    BY SMT DEF Init, CardState
  <2>2. mem \in [Card -> [Blocks -> -1 .. MaxRequests]]
    <3>1. {-1, 0} \subseteq -1 .. MaxRequests
      BY ReaderConstants
    <3> QED
      BY <3>1, ReaderConstants DEF Init
  <2>3. answer \in Seq(Result)
    BY DEF Init
  <2> QED
    <3>1. /\ 1 \in 1 .. NrKeys /\ 0 \in 0 .. MaxRequests /\ 0 \in 0 .. MaxEmits
          /\ 1 \in Blocks
      BY ReaderConstants DEF Blocks
    <3>2. /\ pc \in {"idle"} /\ command \in {"AUTH"}
          /\ answered \in BOOLEAN /\ crypto \in BOOLEAN /\ undisturbed \in BOOLEAN
          /\ uid \in Card \cup {NoCard}
      BY Zenon DEF Init
    <3> QED
      BY <2>1, <2>2, <2>3, <3>1, <3>2, Zenon DEF Init, TypeOK
<1>2. TypeOK /\ [Next]_vars => TypeOK'
  <2> SUFFICES ASSUME TypeOK, [Next]_vars PROVE TypeOK'
    OBVIOUS
  <2>1. CASE IsNewCardPresent
    BY <2>1, FrameTypes DEF IsNewCardPresent, TypeOK, NoAnswer, RequestSame
  <2>2. CASE ReadCardSerialFails
    BY <2>2, FrameTypes DEF ReadCardSerialFails, TypeOK, NoAnswer, RequestSame
  <2>3. CASE ReadCardSerialLost
    BY <2>3, FrameTypes DEF ReadCardSerialLost, TypeOK, NoAnswer, RequestSame
  <2>4. CASE HandleSignal
    <3>1. answer' \in Seq(Result)
      <4>1. <<"info">> \in Seq(Result) /\ <<>> \in Seq(Result)
        BY DEF Result
      <4> QED
        BY <2>4, <4>1, Zenon DEF HandleSignal
    <3>2. pc' \in {"emit", "dump", "tryAuth"}
      BY <2>4 DEF HandleSignal
    <3> QED
      BY <2>4, <3>1, <3>2, ReaderConstants DEF HandleSignal, TypeOK, Blocks, RequestSame
  <2>5. ASSUME NEW c \in Card, ReadCardSerial(c) PROVE TypeOK'
    BY <2>5, FrameTypes DEF ReadCardSerial, TypeOK, NoAnswer, RequestSame
  <2>6. CASE TryAuth
    BY <2>6, AuthenticateType, ReaderConstants
    DEF TryAuth, TypeOK, NextKey, NoAnswer, RequestSame
  <2>7. CASE TryRead
    BY <2>7, ExchangeType, ReaderConstants
    DEF TryRead, TypeOK, NextKey, NoAnswer, RequestSame
  <2>8. CASE ReadBlockAuth
    <3> PICK ok \in BOOLEAN :
               /\ Authenticate(key, ok)
               /\ IF ok THEN pc' = "read" /\ UNCHANGED <<answer, blk, key>>
                        ELSE BlockRead("error")
      BY <2>8 DEF ReadBlockAuth
    <3>1. field' \in [Card -> CardState] /\ crypto' \in BOOLEAN /\ undisturbed' \in BOOLEAN
      BY AuthenticateType
    <3>2. /\ answer' \in Seq(Result) /\ blk' \in Blocks /\ key' \in 1 .. NrKeys
          /\ pc' \in {"read", "write", "tryAuth", "emit"}
      <4>1. CASE ok
        BY <4>1 DEF TypeOK
      <4>2. CASE ~ok
        BY <4>2, BlockReadType DEF Result
      <4> QED
        BY <4>1, <4>2
    <3> QED
      BY <2>8, <3>1, <3>2 DEF ReadBlockAuth, TypeOK, RequestSame
  <2>9. CASE ReadBlock
    <3> PICK ok \in BOOLEAN :
               /\ Exchange(ok)
               /\ BlockRead(IF ~ok THEN "error"
                            ELSE IF mem[uid][blk] = 0 THEN "blank" ELSE "text")
      BY <2>9 DEF ReadBlock
    <3>1. field' \in [Card -> CardState] /\ undisturbed' \in BOOLEAN
      BY ExchangeType
    <3>2. /\ answer' \in Seq(Result) /\ blk' \in Blocks /\ key' \in 1 .. NrKeys
          /\ pc' \in {"write", "tryAuth", "emit"}
      BY BlockReadType DEF Result
    <3> QED
      BY <2>9, <3>1, <3>2 DEF ReadBlock, TypeOK, RequestSame
  <2>10. CASE WriteCommand
    <3>1. field' \in [Card -> CardState] /\ undisturbed' \in BOOLEAN
      BY <2>10, FrameTypes DEF WriteCommand, TypeOK, CardState
    <3>2. /\ answer' \in Seq(Result) /\ blk' \in Blocks /\ key' \in 1 .. NrKeys
          /\ pc' \in {"writeData", "tryAuth", "emit"}
      <4>1. CASE BlockWritten("error")
        BY <4>1, BlockWrittenType DEF Result
      <4>2. CASE pc' = "writeData" /\ UNCHANGED <<answer, blk, key>>
        BY <4>2 DEF TypeOK
      <4> QED
        BY <2>10, <4>1, <4>2 DEF WriteCommand
    <3> QED
      BY <2>10, <3>1, <3>2 DEF WriteCommand, TypeOK, RequestSame
  <2>21. CASE WriteData
    <3>1. field' \in [Card -> CardState] /\ undisturbed' \in BOOLEAN
      BY <2>21, FrameTypes DEF WriteData, TypeOK, CardState
    <3>2. mem' \in [Card -> [Blocks -> -1 .. MaxRequests]]
      <4>1. request \in -1 .. MaxRequests
        BY ReaderConstants DEF TypeOK
      <4>2. \A c \in Card : [mem[c] EXCEPT ![blk] = request] \in [Blocks -> -1 .. MaxRequests]
        BY <4>1 DEF TypeOK
      <4> QED
        BY <2>21, <4>2 DEF WriteData, TypeOK
    <3>3. /\ answer' \in Seq(Result) /\ blk' \in Blocks /\ key' \in 1 .. NrKeys
          /\ pc' \in {"tryAuth", "emit"}
      BY <2>21, BlockWrittenType DEF WriteData, WriteResult, Result
    <3> QED
      BY <2>21, <3>1, <3>2, <3>3 DEF WriteData, TypeOK
  <2>11. CASE DumpAuth \/ DumpTrailer \/ DumpRest
    <3>1. field' \in [Card -> CardState] /\ crypto' \in BOOLEAN /\ undisturbed' \in BOOLEAN
      BY <2>11, AuthenticateType, ExchangeType
      DEF DumpAuth, DumpTrailer, DumpRest, TypeOK
    <3>2. /\ blk' \in Blocks
          /\ pc' \in {"dump", "dumpTrailer", "dumpAgain", "dumpRest", "dumpEnd"}
      BY <2>11 DEF DumpAuth, DumpTrailer, DumpRest, NextSector, TypeOK, Blocks
    <3>3. UNCHANGED <<key, uid, answer, emitted, answered, request, command, mem>>
      BY <2>11, Zenon DEF DumpAuth, DumpTrailer, DumpRest, NoAnswer, RequestSame
    <3> QED
      BY <3>1, <3>2, <3>3 DEF TypeOK
  <2>12. CASE DumpEnd
    <3>1. answer' \in Seq(Result)
      BY <2>12 DEF DumpEnd, Result
    <3>2. field' \in [Card -> CardState] /\ pc' = "dumpHalt" /\ crypto' \in BOOLEAN
      BY <2>12, FrameTypes DEF DumpEnd, HaltA, CardState
    <3>3. UNCHANGED <<blk, key, emitted, answered, uid, undisturbed,
                      request, command, mem>>
      BY <2>12, Zenon DEF DumpEnd, RequestSame
    <3> QED
      BY <3>1, <3>2, <3>3 DEF TypeOK
  <2>13. CASE DumpHalt
    BY <2>13, FrameTypes DEF DumpHalt, HaltA, TypeOK, CardState, NoAnswer, RequestSame
  <2>14. CASE Emit
    BY <2>14, ReaderConstants DEF Emit, TypeOK, RequestSame
  <2>15. CASE Halt
    BY <2>15, FrameTypes DEF Halt, HaltA, TypeOK, CardState, NoAnswer, RequestSame
  <2>16. CASE StopCrypto1
    BY <2>16 DEF StopCrypto1, LoopTest, TypeOK, NoAnswer, RequestSame
  <2>17. CASE HardReset
    BY <2>17 DEF HardReset, LoopTest, TypeOK, CardState, NoAnswer, RequestSame
  <2>18. ASSUME NEW com \in Command, Signal(com) PROVE TypeOK'
    <3>1. answer' \in Seq(Result)
      BY <2>18 DEF Signal
    <3>2. com \in {"AUTH", "READ", "WRITE", "DUMP"}
      BY ReaderConstants
    <3>3. request' \in 0 .. MaxRequests /\ 0 \in 0 .. MaxEmits
      BY <2>18, ReaderConstants DEF Signal, TypeOK
    <3> QED
      BY <2>18, <3>1, <3>2, <3>3, Zenon DEF Signal, TypeOK
  <2>19. ASSUME NEW c \in Card, Arrives(c) \/ Leaves(c) PROVE TypeOK'
    <3>1. field' \in [Card -> CardState]
      BY <2>19 DEF Arrives, Leaves, TypeOK, CardState
    <3>2. undisturbed' \in BOOLEAN /\ UNCHANGED <<controlVars, uid, crypto, mem>>
      BY <2>19, Zenon DEF Arrives, Leaves, TypeOK
    <3> QED
      BY <3>1, <3>2, Zenon DEF TypeOK, controlVars
  <2>20. CASE UNCHANGED vars
    BY <2>20 DEF vars, controlVars, TypeOK
  <2> QED
    BY <2>1, <2>2, <2>3, <2>4, <2>5, <2>6, <2>7, <2>8, <2>9, <2>10, <2>11,
       <2>12, <2>13, <2>14, <2>15, <2>16, <2>17, <2>18, <2>19, <2>20, <2>21
    DEF Next, ReaderStep
<1> QED
  BY <1>1, <1>2, PTL DEF Spec

-----------------------------------------------------------------------------
(* Who listens *)

\* A frame leaves the selected card in a state s or out of step, and makes no
\* other card listen.
LEMMA FrameListeners ==
  ASSUME TypeOK, NEW c \in Card, NEW s
  PROVE  /\ Hears(s)[c] = IF c \in Partners THEN s ELSE Confused(field[c])
         /\ Confused(field[c]) \notin {"active", "auth", "desync"}
         /\ Unheard[c] \in {field[c], "desync"}
         /\ (c \in Partners \/ Unheard[c] # field[c]) => Listening(c)
BY DEF TypeOK, CardState, Hears, Unheard, Confused, Partners, Listening

\* No frame of a running command makes a card listen that did not before.
LEMMA NoNewListener ==
  ASSUME TypeOK, OnlyUidListens, pc \in Handling, uid' = uid,
         \/ field' = Unheard
         \/ \E s : field' = Hears(s)
         \/ field' = field
  PROVE  OnlyUidListens'
<1> SUFFICES ASSUME NEW c \in Card, Listening(c)' PROVE c = uid
  BY DEF OnlyUidListens
<1>1. Listening(c)
  BY FrameListeners DEF Listening
<1> QED
  BY <1>1 DEF OnlyUidListens

\* No card but the selected one listens while a command runs, whichever frames
\* are lost and whoever comes and goes.
THEOREM Listeners == Spec => []OnlyUidListens
<1>1. Init => OnlyUidListens
  BY DEF Init, OnlyUidListens, Handling, Dumping
<1>2. TypeOK /\ OnlyUidListens /\ [Next]_vars => OnlyUidListens'
  <2> SUFFICES ASSUME TypeOK, OnlyUidListens, [Next]_vars PROVE OnlyUidListens'
    OBVIOUS
  <2>1. CASE pc' \notin Handling
    BY <2>1 DEF OnlyUidListens
  <2>2. ASSUME NEW c \in Card, ReadCardSerial(c) PROVE OnlyUidListens'
    BY <2>2, FrameListeners
    DEF ReadCardSerial, Selected, OnlyUidListens, Listening
  <2>3. CASE HandleSignal
    <3>1. pc \in Handling /\ uid' = uid /\ field' = field
      BY <2>3 DEF HandleSignal, Handling, Dumping
    <3> QED
      BY <3>1, NoNewListener
  <2>4. CASE \E k : \E ok \in BOOLEAN : Authenticate(k, ok) /\ pc \in Handling /\ uid' = uid
    BY <2>4, NoNewListener DEF Authenticate
  <2>5. CASE \E ok \in BOOLEAN : Exchange(ok) /\ pc \in Handling /\ uid' = uid
    BY <2>5, NoNewListener DEF Exchange
  <2>6. CASE HaltA /\ pc \in Handling /\ uid' = uid
    BY <2>6, NoNewListener DEF HaltA
  <2>7. CASE WriteCommand \/ WriteData
    <3>1. pc \in Handling /\ uid' = uid
      BY <2>7 DEF WriteCommand, WriteData, Handling, Dumping
    <3>2. field' = Unheard \/ \E s : field' = Hears(s)
      BY <2>7 DEF WriteCommand, WriteData
    <3> QED
      BY <3>1, <3>2, NoNewListener
  <2>8. ASSUME NEW c \in Card, Arrives(c) \/ Leaves(c) PROVE OnlyUidListens'
    BY <2>8 DEF Arrives, Leaves, OnlyUidListens, Listening, TypeOK, controlVars
  <2>9. CASE UNCHANGED vars
    BY <2>9 DEF vars, controlVars, OnlyUidListens, Listening
  <2>10. CASE TryAuth \/ ReadBlockAuth \/ DumpAuth
    BY <2>4, <2>10 DEF TryAuth, ReadBlockAuth, DumpAuth, Handling, Dumping
  <2>11. CASE TryRead \/ ReadBlock \/ DumpTrailer \/ DumpRest
    BY <2>5, <2>11 DEF TryRead, ReadBlock, DumpTrailer, DumpRest, Handling, Dumping
  <2>12. CASE DumpEnd \/ DumpHalt
    BY <2>6, <2>12 DEF DumpEnd, DumpHalt, Handling, Dumping
  <2>13. CASE IsNewCardPresent \/ ReadCardSerialFails \/ ReadCardSerialLost
              \/ Emit \/ Halt \/ StopCrypto1 \/ HardReset
    BY <2>1, <2>13
    DEF IsNewCardPresent, ReadCardSerialFails, ReadCardSerialLost, Emit, Halt,
        StopCrypto1, HardReset, LoopTest, Handling, Dumping
  <2>14. ASSUME NEW com, Signal(com) PROVE OnlyUidListens'
    BY <2>1, <2>14 DEF Signal, Handling, Dumping
  <2> QED
    BY <2>2, <2>3, <2>7, <2>8, <2>9, <2>10, <2>11, <2>12, <2>13, <2>14
    DEF Next, ReaderStep
<1> QED
  BY <1>1, <1>2, Typing, PTL DEF Spec

-----------------------------------------------------------------------------
(* The cipher *)

\* The reader selects in the clear, and reads or writes a block that it opened;
\* only a DUMP dumps.
CipherInv ==
  /\ pc \in Handling => uid \in Card
  /\ pc \in Dumping => command = "DUMP"
  /\ pc \in {"select", "handle"} => ~crypto
  /\ pc \in {"tryRead", "read", "writeData"} => crypto

LEMMA Cipher == Spec => []CipherInv
<1>1. Init => CipherInv
  BY DEF Init, CipherInv, Handling, Dumping
<1>2. CipherInv /\ [Next]_vars => CipherInv'
  <2> SUFFICES ASSUME CipherInv, [Next]_vars PROVE CipherInv'
    OBVIOUS
  <2> USE DEF CipherInv, Handling, Dumping
  <2>1. CASE IsNewCardPresent
    <3>1. /\ uid' = uid /\ crypto' = crypto /\ pc' \in {"select", "halt"}
          /\ pc' = "select" => \E c \in Card : RequestA[c] = "ready"
      BY <2>1 DEF IsNewCardPresent
    <3>2. \A c \in Card : RequestA[c] = "ready" => ~crypto
      BY DEF RequestA, Confused
    <3> QED
      BY <3>1, <3>2
  <2>2. ASSUME NEW c \in Card, ReadCardSerial(c) PROVE CipherInv'
    BY <2>2 DEF ReadCardSerial
  <2>3. CASE ReadCardSerialFails \/ ReadCardSerialLost \/ Emit \/ Halt \/ StopCrypto1 \/ HardReset
    BY <2>3 DEF ReadCardSerialFails, ReadCardSerialLost, Emit, Halt, StopCrypto1, HardReset,
       LoopTest
  <2>4. CASE HandleSignal
    BY <2>4 DEF HandleSignal, RequestSame
  <2>5. CASE TryAuth
    BY <2>5 DEF TryAuth, Authenticate, NextKey
  <2>6. CASE TryRead
    BY <2>6 DEF TryRead, NextKey
  <2>7. CASE ReadBlockAuth
    BY <2>7 DEF ReadBlockAuth, Authenticate, BlockRead
  <2>8. CASE ReadBlock
    BY <2>8 DEF ReadBlock, BlockRead
  <2>9. CASE WriteCommand \/ WriteData
    BY <2>9 DEF WriteCommand, WriteData, BlockWritten, RequestSame
  <2>10. CASE DumpAuth \/ DumpTrailer \/ DumpRest \/ DumpEnd \/ DumpHalt
    BY <2>10 DEF DumpAuth, DumpTrailer, DumpRest, DumpEnd, DumpHalt, NextSector, RequestSame
  <2>11. ASSUME NEW com, Signal(com) PROVE CipherInv'
    BY <2>11 DEF Signal
  <2>12. ASSUME NEW c \in Card, Arrives(c) \/ Leaves(c) PROVE CipherInv'
    BY <2>12 DEF Arrives, Leaves, controlVars
  <2>13. CASE UNCHANGED vars
    BY <2>13 DEF vars, controlVars
  <2> QED
    BY <2>1, <2>2, <2>3, <2>4, <2>5, <2>6, <2>7, <2>8, <2>9, <2>10, <2>11, <2>12, <2>13
    DEF Next, ReaderStep
<1> QED
  BY <1>1, <1>2, PTL DEF Spec

-----------------------------------------------------------------------------
(* A reported success, when no frame is lost *)

Running == {"tryAuth", "tryRead", "auth", "read", "write", "writeData"}

\* The blocks before the n-th hold what the current request writes.
Written(n) == \A b \in Blocks : b < n => mem[uid][b] = request

\* As long as the card that a WRITE runs on is inside the encrypted session,
\* every block handled so far was written; and once a block was handled, no
\* card can enter a session again without having been selected again.
Session ==
  pc \in Running /\ command = "WRITE"
    => /\ field[uid] = "auth" => Written(blk)
       /\ blk > 1 => field[uid] # "active"

WriteInv ==
  /\ pc \in Handling => uid \in Card
  /\ pc \in Dumping => command = "DUMP"
  /\ Session
  /\ SuccessMeansAllWritten

\* A frame that arrives keeps the session's invariant, whatever state it leaves
\* the selected card in: only a card already in the session, or a card at its
\* first block, is in the session afterwards.
LEMMA FrameInSession ==
  ASSUME TypeOK, Session, pc \in Running, command = "WRITE", uid \in Card,
         NEW s \in {"auth", "idle", "desync"}, field' = Hears(s)
  PROVE  /\ field'[uid] # "active"
         /\ field'[uid] = "auth" => Written(blk)
<1>1. field'[uid] = IF uid \in Partners THEN s ELSE Confused(field[uid])
  BY FrameListeners
<1>2. Confused(field[uid]) \notin {"active", "auth"}
  BY FrameListeners
<1>3. uid \in Partners => field[uid] \in {"auth", "active"}
  BY DEF Partners
<1>4. field[uid] = "active" => Written(blk)
  BY DEF Session, Written, TypeOK, Blocks
<1> QED
  BY <1>1, <1>2, <1>3, <1>4 DEF Session

\* If no frame is lost, a reported success of a WRITE means that the card holds
\* the new data in all of its blocks, for any number of cards, requests and
\* keys, and however cards come and go.
THEOREM SuccessIsComplete ==
  ASSUME Air = {TRUE}
  PROVE  Spec => []SuccessMeansAllWritten
<1>1. Init => WriteInv
  BY DEF Init, WriteInv, Session, SuccessMeansAllWritten, ReportsSuccess,
         Handling, Dumping, Running
<1>2. TypeOK /\ OnlyUidListens /\ CipherInv /\ WriteInv /\ [Next]_vars => WriteInv'
  <2> SUFFICES ASSUME TypeOK, OnlyUidListens, CipherInv, WriteInv, [Next]_vars
               PROVE  WriteInv'
    OBVIOUS
  <2>1. CASE pc' \notin Handling
    BY <2>1 DEF WriteInv, Session, SuccessMeansAllWritten, ReportsSuccess,
                Handling, Dumping, Running
  <2>2. ASSUME NEW c \in Card, ReadCardSerial(c) PROVE WriteInv'
    BY <2>2 DEF ReadCardSerial, WriteInv, Session, SuccessMeansAllWritten,
                ReportsSuccess, Running, Dumping
  <2>3. CASE HandleSignal
    <3>1. /\ pc = "handle" /\ uid' = uid /\ command' = command /\ blk' = 1
          /\ pc' = "emit" => command = "AUTH"
          /\ pc' = "dump" => command = "DUMP"
          /\ pc' \in {"emit", "dump", "tryAuth"}
      BY <2>3 DEF HandleSignal, RequestSame
    <3> QED
      BY <3>1 DEF WriteInv, Session, SuccessMeansAllWritten, ReportsSuccess,
                  Handling, Dumping, Running, Written, Blocks
  <2>4. ASSUME pc \in Running, pc' \in Running, uid' = uid, command' = command,
               request' = request, blk' = blk, mem' = mem,
               \E s \in {"auth", "idle", "desync"} : field' = Hears(s)
        PROVE  WriteInv'
    <3>1. Session'
      <4> SUFFICES ASSUME command = "WRITE"
                   PROVE  /\ field'[uid] = "auth" => Written(blk)
                          /\ field'[uid] # "active"
        BY <2>4 DEF Session, Written
      <4>1. uid \in Card
        BY <2>4 DEF WriteInv, Running, Handling, Dumping
      <4> QED
        BY <2>4, <4>1, FrameInSession DEF WriteInv
    <3> QED
      BY <2>4, <3>1 DEF WriteInv, SuccessMeansAllWritten, ReportsSuccess,
                        Running, Handling, Dumping
  <2>5. ASSUME pc \in Handling, pc' \in Handling, command # "WRITE",
               uid' = uid, command' = command,
               pc' \in Dumping => command = "DUMP"
        PROVE  WriteInv'
    BY <2>5 DEF WriteInv, Session, SuccessMeansAllWritten, ReportsSuccess
  <2>6. CASE TryAuth
    BY <2>6, <2>4 DEF TryAuth, Authenticate, NextKey, Running, RequestSame
  <2>7. CASE TryRead
    BY <2>7, <2>4 DEF TryRead, Exchange, NextKey, Running, RequestSame
  <2>8. CASE ReadBlockAuth /\ command = "WRITE"
    BY <2>8, <2>4 DEF ReadBlockAuth, Authenticate, BlockRead, Running, RequestSame
  <2>9. CASE ReadBlock /\ command = "WRITE"
    BY <2>9, <2>4 DEF ReadBlock, Exchange, BlockRead, Running, RequestSame
  <2>10. CASE ReadBlockAuth /\ command # "WRITE"
    BY <2>10, <2>5 DEF ReadBlockAuth, BlockRead, Handling, Dumping, RequestSame
  <2>11. CASE ReadBlock /\ command # "WRITE"
    BY <2>11, <2>5 DEF ReadBlock, BlockRead, Handling, Dumping, RequestSame
  <2>12. CASE DumpAuth \/ DumpTrailer \/ DumpRest \/ DumpEnd \/ DumpHalt
    <3>1. /\ pc \in Dumping /\ pc' \in Dumping \cup {"emit"}
          /\ uid' = uid /\ command' = command
      BY <2>12 DEF DumpAuth, DumpTrailer, DumpRest, DumpEnd, DumpHalt,
                   NextSector, Dumping, RequestSame
    <3> QED
      BY <2>5, <3>1 DEF WriteInv, Handling, Dumping
  <2>13. CASE WriteData /\ Partners # {}
    <3>1. /\ uid \in Card /\ pc \in Running /\ uid' = uid /\ crypto
          /\ command' = command /\ request' = request
      BY <2>13 DEF WriteData, WriteInv, CipherInv, Running, Handling, Dumping
    <3>2. Partners = {uid} /\ field[uid] = "auth"
      BY <2>13, <3>1 DEF Partners, WriteData, OnlyUidListens, Handling, Dumping, Listening
    <3>3. /\ field' = Hears("auth")
          /\ mem' = [c \in Card |-> IF c \in Partners
                                    THEN [mem[c] EXCEPT ![blk] = request] ELSE mem[c]]
          /\ IF blk < 3 THEN blk' = blk + 1 /\ pc' = "tryAuth"
                        ELSE blk' = blk /\ pc' = "emit"
      BY <2>13 DEF WriteData, BlockWritten
    <3>4. field'[uid] = "auth"
      BY <3>1, <3>2, <3>3, FrameListeners
    <3>5. mem'[uid] = [mem[uid] EXCEPT ![blk] = request]
      BY <3>1, <3>2, <3>3
    <3>6. command = "WRITE" => \A b \in Blocks : b <= blk => mem'[uid][b] = request
      BY <3>1, <3>2, <3>5 DEF WriteInv, Session, Written, TypeOK, Blocks
    <3>7. Session'
      BY <3>1, <3>3, <3>4, <3>6 DEF Session, Written, Running, TypeOK, Blocks
    <3>8. SuccessMeansAllWritten'
      BY <3>1, <3>3, <3>6 DEF SuccessMeansAllWritten, ReportsSuccess, TypeOK, Blocks
    <3> QED
      BY <3>1, <3>3, <3>7, <3>8 DEF WriteInv, Dumping
  <2>19. ASSUME pc \in {"write", "writeData"}, uid' = uid, BlockWritten("error"),
                \E s : field' = Hears(s) /\ (s \in {"idle", "desync"} \/ Partners = {})
         PROVE  WriteInv'
    <3>1. uid \in Card /\ answer' = <<"error">> /\ pc' \in {"tryAuth", "emit"}
      BY <2>19 DEF BlockWritten, WriteInv, Handling
    <3>2. field'[uid] \notin {"active", "auth"}
      BY <2>19, <3>1, FrameListeners
    <3>3. Session'
      BY <2>19, <3>1, <3>2 DEF Session
    <3>4. SuccessMeansAllWritten'
      BY <3>1 DEF SuccessMeansAllWritten, ReportsSuccess
    <3> QED
      BY <2>19, <3>1, <3>3, <3>4 DEF WriteInv, Dumping
  <2>14. CASE WriteCommand \/ (WriteData /\ Partners = {})
    <3>1. CASE WriteCommand /\ pc' = "writeData"
      <4>1. pc = "write" /\ field' = Hears("auth") /\ UNCHANGED <<uid, blk>> /\ RequestSame
        BY <3>1 DEF WriteCommand, BlockWritten
      <4> QED
        BY <2>4, <3>1, <4>1 DEF Running, RequestSame
    <3>2. CASE WriteCommand /\ pc' # "writeData"
      <4>1. PICK sent \in Air, back \in Air :
              /\ field' = IF ~sent THEN Unheard
                          ELSE Hears(IF ~crypto THEN "idle" ELSE IF back THEN "auth" ELSE "desync")
              /\ ~(sent /\ back /\ crypto /\ Partners # {}) /\ BlockWritten("error")
        BY <3>2 DEF WriteCommand
      <4>2. \E s : field' = Hears(s) /\ (s \in {"idle", "desync"} \/ Partners = {})
        BY <4>1
      <4> QED
        BY <2>19, <3>2, <4>1, <4>2 DEF WriteCommand
    <3>3. CASE WriteData /\ Partners = {}
      BY <2>19, <3>3 DEF WriteData, WriteResult
    <3> QED
      BY <2>14, <3>1, <3>2, <3>3
  <2>15. ASSUME NEW c \in Card, Arrives(c) \/ Leaves(c) PROVE WriteInv'
    <3>1. UNCHANGED <<controlVars, uid, mem>>
      BY <2>15, Zenon DEF Arrives, Leaves
    <3>2. uid \in Card => field'[uid] \in {field[uid], "idle", "away"}
      BY <2>15 DEF Arrives, Leaves, TypeOK
    <3>3. Session'
      BY <3>1, <3>2 DEF Session, Written, WriteInv, Running, Handling, Dumping, controlVars
    <3> QED
      BY <3>1, <3>3 DEF WriteInv, SuccessMeansAllWritten, ReportsSuccess, controlVars
  <2>16. CASE UNCHANGED vars
    BY <2>16 DEF vars, controlVars, WriteInv, Session, Written,
                 SuccessMeansAllWritten, ReportsSuccess
  <2>17. CASE IsNewCardPresent \/ ReadCardSerialFails \/ ReadCardSerialLost
              \/ Emit \/ Halt \/ StopCrypto1 \/ HardReset
    BY <2>1, <2>17
    DEF IsNewCardPresent, ReadCardSerialFails, ReadCardSerialLost, Emit, Halt,
        StopCrypto1, HardReset, LoopTest, Handling, Dumping
  <2>18. ASSUME NEW com, Signal(com) PROVE WriteInv'
    BY <2>1, <2>18 DEF Signal, Handling, Dumping
  <2> QED
    BY <2>2, <2>3, <2>6, <2>7, <2>8, <2>9, <2>10, <2>11, <2>12, <2>13, <2>14,
       <2>15, <2>16, <2>17, <2>18
    DEF Next, ReaderStep
<1>3. WriteInv => SuccessMeansAllWritten
  BY DEF WriteInv
<1> QED
  BY <1>1, <1>2, <1>3, Typing, Listeners, Cipher, PTL DEF Spec
-----------------------------------------------------------------------------
(* A card with the factory key *)

KnownGood == undisturbed /\ KeyOf[uid] = 1

\* As long as it is undisturbed, such a card takes part in every exchange, and is
\* never tried with another key.
FactoryInv ==
  /\ pc \in Dumping => "error" \notin Outcomes
  /\ pc \in Running \cup {"handle"} /\ KnownGood =>
       /\ uid \in Partners
       /\ pc # "handle" => key = 1 /\ "error" \notin Outcomes
       /\ pc = "write" => crypto
  /\ FactoryKeyWorks

\* A partner that hears a frame is one again, if it goes into the state that the
\* reader's cipher calls for.
LEMMA StaysPartner ==
  ASSUME TypeOK, uid \in Partners, NEW s, field' = Hears(s), uid' = uid,
         s = IF crypto' THEN "auth" ELSE "active"
  PROVE  (uid \in Partners)'
BY DEF TypeOK, Partners, Hears

\* The results that are left out of an answer, appended to it or replace it.
LEMMA NoErrorYet ==
  ASSUME answer \in Seq(Result), "error" \notin Outcomes, NEW r \in Result, r # "error"
  PROVE  /\ answer' = Append(answer, r) => ("error" \notin Outcomes)'
         /\ answer' = answer => ("error" \notin Outcomes)'
BY DEF Outcomes

LEMMA NoErrorIn ==
  /\ answer' = <<>> => ("error" \notin Outcomes)'
  /\ answer' = <<"info">> => ("error" \notin Outcomes)'
  /\ answer' = <<"written">> => ("error" \notin Outcomes)'
BY DEF Outcomes

\* The end of a block's read without an error.
LEMMA GoodRead ==
  ASSUME TypeOK, "error" \notin Outcomes, NEW r \in Result, r # "error",
         BlockRead(r), key = 1, command' = command
  PROVE  ("error" \notin Outcomes)' /\ key' = 1 /\ pc' \in {"write", "tryAuth", "emit"}
BY NoErrorYet DEF TypeOK, BlockRead

\* A card that has the factory key, stays and loses no frame is read and written
\* without an error, for any other cards and keys, and whatever was lost before
\* it was selected.
THEOREM FactoryKeySuffices == Spec => []FactoryKeyWorks
<1>1. Init => FactoryInv
  BY DEF Init, FactoryInv, FactoryKeyWorks, Dumping, Running
<1>2. TypeOK /\ CipherInv /\ FactoryInv /\ [Next]_vars => FactoryInv'
  <2> SUFFICES ASSUME TypeOK, CipherInv, FactoryInv, [Next]_vars PROVE FactoryInv'
    OBVIOUS
  <2> DEFINE Good == undisturbed' /\ KeyOf[uid'] = 1
  <2>1. ASSUME pc' \notin Running \cup Dumping \cup {"handle", "emit"} PROVE FactoryInv'
    BY <2>1 DEF FactoryInv, FactoryKeyWorks
  <2>2. CASE IsNewCardPresent \/ ReadCardSerialFails \/ ReadCardSerialLost
             \/ Emit \/ Halt \/ StopCrypto1 \/ HardReset
    BY <2>1, <2>2
    DEF IsNewCardPresent, ReadCardSerialFails, ReadCardSerialLost, Emit, Halt,
        StopCrypto1, HardReset, LoopTest, Dumping, Running
  <2>3. ASSUME NEW com, Signal(com) PROVE FactoryInv'
    BY <2>1, <2>3 DEF Signal, Dumping, Running
  <2>4. ASSUME NEW c \in Card, ReadCardSerial(c) PROVE FactoryInv'
    <3>1. pc' = "handle" /\ uid' = c /\ crypto' = crypto /\ ~crypto /\ field'[c] = "active"
      BY <2>4 DEF ReadCardSerial, Selected, CipherInv
    <3> QED
      BY <3>1 DEF FactoryInv, FactoryKeyWorks, Dumping, Partners
  <2>5. CASE HandleSignal
    <3>1. /\ pc = "handle" /\ pc' \in {"emit", "dump", "tryAuth"} /\ key' = 1
          /\ UNCHANGED <<uid, crypto, field, undisturbed>>
          /\ answer' = <<"info">> \/ answer' = <<>>
      BY <2>5 DEF HandleSignal
    <3>2. ("error" \notin Outcomes)'
      BY <3>1, NoErrorIn
    <3> QED
      BY <3>1, <3>2 DEF FactoryInv, FactoryKeyWorks, KnownGood, Dumping, Running, Partners
  <2>6. ASSUME pc \in Running, pc' \in Running \cup {"emit"}, uid' = uid,
               Good => /\ (uid \in Partners)' /\ key' = 1 /\ ("error" \notin Outcomes)'
                       /\ pc' = "write" => crypto'
        PROVE  FactoryInv'
    BY <2>6 DEF FactoryInv, FactoryKeyWorks, KnownGood, Dumping, Running
  <2>7. ASSUME NEW k, NEW ok \in BOOLEAN, Authenticate(k, ok), uid' = uid,
               uid \in Partners, KeyOf[uid] = k, undisturbed'
        PROVE  ok /\ (uid \in Partners)' /\ crypto' /\ undisturbed
    <3>1. PICK heard \in Air, back \in Air :
            /\ ok = (heard /\ back /\ Opens(k))
            /\ field' = IF ~heard THEN Unheard
                        ELSE Hears(IF ~Opens(k) THEN "idle" ELSE IF back THEN "auth" ELSE "desync")
            /\ crypto' = (crypto \/ ok)
            /\ undisturbed' = (undisturbed /\ heard /\ back)
      BY <2>7 DEF Authenticate
    <3>2. heard /\ back /\ undisturbed
      BY <2>7, <3>1, ReaderConstants DEF TypeOK
    <3>3. ok /\ crypto' /\ field' = Hears("auth")
      BY <2>7, <3>1, <3>2 DEF Opens, TypeOK
    <3> QED
      BY <2>7, <3>2, <3>3, StaysPartner
  <2>8. ASSUME NEW ok \in BOOLEAN, Exchange(ok), uid' = uid, crypto' = crypto, crypto,
               uid \in Partners, undisturbed'
        PROVE  ok /\ (uid \in Partners)' /\ undisturbed
    <3>1. PICK sent \in Air, back \in Air :
            /\ ok = (sent /\ back /\ Partners # {})
            /\ field' = IF ~sent THEN Unheard ELSE Hears(IF back THEN "auth" ELSE "desync")
            /\ undisturbed' = (undisturbed /\ sent /\ back)
      BY <2>8 DEF Exchange
    <3>2. sent /\ back /\ undisturbed
      BY <2>8, <3>1, ReaderConstants DEF TypeOK
    <3>3. ok /\ field' = Hears("auth")
      BY <2>8, <3>1, <3>2
    <3> QED
      BY <2>8, <3>2, <3>3, StaysPartner
  <2>9. ASSUME pc \in Running, undisturbed, KeyOf[uid] = 1
        PROVE  uid \in Partners /\ key = 1 /\ "error" \notin Outcomes /\ (pc = "write" => crypto)
    BY <2>9 DEF FactoryInv, KnownGood, Running
  <2>10. ASSUME NEW k, NEW ok, Authenticate(k, ok) \/ Exchange(ok), undisturbed' PROVE undisturbed
    BY <2>10, ReaderConstants DEF Authenticate, Exchange, TypeOK
  <2>11. CASE TryAuth
    <3>1. PICK ok \in BOOLEAN :
            /\ Authenticate(key, ok)
            /\ IF ok THEN pc' = "tryRead" /\ key' = key ELSE NextKey
      BY <2>11 DEF TryAuth
    <3>2. pc = "tryAuth" /\ uid' = uid /\ answer' = answer
      BY <2>11 DEF TryAuth, NoAnswer
    <3>3. pc' \in {"tryRead", "tryAuth", "auth"}
      BY <3>1 DEF NextKey
    <3>4. ASSUME Good
          PROVE  /\ (uid \in Partners)' /\ key' = 1 /\ ("error" \notin Outcomes)'
      <4>1. undisturbed
        BY <3>1, <3>4, <2>10
      <4>2. uid \in Partners /\ key = 1 /\ "error" \notin Outcomes
        BY <2>9, <3>2, <3>4, <4>1 DEF Running
      <4>3. ok /\ (uid \in Partners)'
        BY <2>7, <3>1, <3>2, <3>4, <4>2
      <4> QED
        BY <3>1, <3>2, <4>2, <4>3 DEF Outcomes
    <3> QED
      BY <2>6, <3>2, <3>3, <3>4 DEF Running
  <2>12. CASE TryRead
    <3>1. PICK ok \in BOOLEAN :
            /\ Exchange(ok)
            /\ IF ok THEN pc' = "auth" /\ key' = key ELSE NextKey
      BY <2>12 DEF TryRead
    <3>2. pc = "tryRead" /\ uid' = uid /\ answer' = answer /\ crypto' = crypto /\ crypto
      BY <2>12 DEF TryRead, NoAnswer, CipherInv
    <3>3. pc' \in {"tryAuth", "auth"}
      BY <3>1 DEF NextKey
    <3>4. ASSUME Good
          PROVE  /\ (uid \in Partners)' /\ key' = 1 /\ ("error" \notin Outcomes)'
      <4>1. undisturbed
        BY <3>1, <3>4, <2>10
      <4>2. uid \in Partners /\ key = 1 /\ "error" \notin Outcomes
        BY <2>9, <3>2, <3>4, <4>1 DEF Running
      <4>3. ok /\ (uid \in Partners)'
        BY <2>8, <3>1, <3>2, <3>4, <4>2
      <4> QED
        BY <3>1, <3>2, <4>2, <4>3 DEF Outcomes
    <3> QED
      BY <2>6, <3>2, <3>3, <3>4 DEF Running
  <2>13. CASE ReadBlockAuth
    <3>1. PICK ok \in BOOLEAN :
            /\ Authenticate(key, ok)
            /\ IF ok THEN pc' = "read" /\ UNCHANGED <<answer, blk, key>>
                     ELSE BlockRead("error")
      BY <2>13 DEF ReadBlockAuth
    <3>2. pc = "auth" /\ uid' = uid
      BY <2>13 DEF ReadBlockAuth
    <3>3. pc' \in {"read", "write", "tryAuth", "emit"}
      BY <3>1 DEF BlockRead
    <3>4. ASSUME Good
          PROVE  /\ (uid \in Partners)' /\ key' = 1 /\ ("error" \notin Outcomes)' /\ pc' = "read"
      <4>1. undisturbed
        BY <3>1, <3>4, <2>10
      <4>2. uid \in Partners /\ key = 1 /\ "error" \notin Outcomes
        BY <2>9, <3>2, <3>4, <4>1 DEF Running
      <4>3. ok /\ (uid \in Partners)'
        BY <2>7, <3>1, <3>2, <3>4, <4>2
      <4> QED
        BY <3>1, <4>2, <4>3 DEF Outcomes
    <3> QED
      BY <2>6, <3>2, <3>3, <3>4 DEF Running
  <2>14. CASE ReadBlock
    <3>1. PICK ok \in BOOLEAN :
            /\ Exchange(ok)
            /\ BlockRead(IF ~ok THEN "error"
                         ELSE IF mem[uid][blk] = 0 THEN "blank" ELSE "text")
      BY <2>14 DEF ReadBlock
    <3>2. /\ pc = "read" /\ uid' = uid /\ crypto' = crypto /\ crypto /\ command' = command
      BY <2>14 DEF ReadBlock, CipherInv, RequestSame
    <3>3. pc' \in {"write", "tryAuth", "emit"}
      BY <3>1 DEF BlockRead
    <3>4. ASSUME Good
          PROVE  /\ (uid \in Partners)' /\ key' = 1 /\ ("error" \notin Outcomes)'
      <4>1. undisturbed
        BY <3>1, <3>4, <2>10
      <4>2. uid \in Partners /\ key = 1 /\ "error" \notin Outcomes
        BY <2>9, <3>2, <3>4, <4>1 DEF Running
      <4>3. ok /\ (uid \in Partners)'
        BY <2>8, <3>1, <3>2, <3>4, <4>2
      <4>4. CASE mem[uid][blk] = 0
        BY <3>1, <3>2, <4>2, <4>3, <4>4, GoodRead DEF Result
      <4>5. CASE mem[uid][blk] # 0
        BY <3>1, <3>2, <4>2, <4>3, <4>5, GoodRead DEF Result
      <4> QED
        BY <4>3, <4>4, <4>5
    <3> QED
      BY <2>6, <3>2, <3>3, <3>4 DEF Running
  <2>15. CASE WriteCommand
    <3>1. /\ pc = "write" /\ uid' = uid /\ crypto' = crypto
          /\ pc' \in {"writeData", "tryAuth", "emit"}
      BY <2>15 DEF WriteCommand, BlockWritten
    <3>2. ASSUME Good
          PROVE  /\ (uid \in Partners)' /\ key' = 1 /\ ("error" \notin Outcomes)'
      <4>1. undisturbed
        BY <2>15, <3>2, ReaderConstants DEF WriteCommand, TypeOK
      <4>2. uid \in Partners /\ key = 1 /\ crypto /\ "error" \notin Outcomes
        BY <2>9, <3>1, <3>2, <4>1 DEF Running
      <4>3. field' = Hears("auth") /\ answer' = answer /\ key' = key
        BY <2>15, <3>2, <4>2, ReaderConstants DEF WriteCommand, TypeOK
      <4> QED
        BY <3>1, <4>2, <4>3, StaysPartner DEF Outcomes
    <3> QED
      BY <2>6, <3>1, <3>2 DEF Running
  <2>20. CASE WriteData
    <3>1. /\ pc = "writeData" /\ uid' = uid /\ crypto' = crypto /\ crypto
          /\ pc' \in {"tryAuth", "emit"} /\ (key' = 1 \/ key' = key)
      BY <2>20 DEF WriteData, BlockWritten, CipherInv
    <3>2. ASSUME Good
          PROVE  /\ (uid \in Partners)' /\ key' = 1 /\ ("error" \notin Outcomes)'
      <4>1. undisturbed
        BY <2>20, <3>2, ReaderConstants DEF WriteData, TypeOK
      <4>2. uid \in Partners /\ key = 1
        BY <2>9, <3>1, <3>2, <4>1 DEF Running
      <4>3. field' = Hears("auth") /\ answer' = <<"written">>
        BY <2>20, <3>2, <4>2, ReaderConstants DEF WriteData, BlockWritten, WriteResult, TypeOK
      <4> QED
        BY <3>1, <4>2, <4>3, StaysPartner, NoErrorIn
    <3> QED
      BY <2>6, <3>1, <3>2 DEF Running
  <2>16. CASE DumpAuth \/ DumpTrailer \/ DumpRest \/ DumpEnd \/ DumpHalt
    <3>1. /\ pc \in Dumping /\ pc' \in Dumping \cup {"emit"}
          /\ answer' = answer \/ answer' = <<"info">>
      BY <2>16 DEF DumpAuth, DumpTrailer, DumpRest, DumpEnd, DumpHalt, NextSector, Dumping,
         NoAnswer
    <3>2. ("error" \notin Outcomes)'
      BY <3>1, NoErrorIn DEF FactoryInv, Outcomes
    <3> QED
      BY <3>1, <3>2 DEF FactoryInv, FactoryKeyWorks, Dumping, Running
  <2>17. ASSUME NEW c \in Card, Leaves(c) PROVE FactoryInv'
    BY <2>17 DEF Leaves, controlVars, FactoryInv, FactoryKeyWorks, KnownGood, Outcomes
  <2>18. ASSUME NEW c \in Card, Arrives(c) PROVE FactoryInv'
    <3>1. UNCHANGED <<controlVars, uid, crypto, undisturbed>>
      BY <2>18 DEF Arrives
    <3>2. uid \in Partners => (uid \in Partners)'
      BY <2>18 DEF Arrives, Partners, TypeOK
    <3> QED
      BY <3>1, <3>2 DEF controlVars, FactoryInv, FactoryKeyWorks, KnownGood, Outcomes
  <2>19. CASE UNCHANGED vars
    BY <2>19 DEF vars, controlVars, FactoryInv, FactoryKeyWorks, KnownGood, Outcomes, Partners
  <2> QED
    BY <2>2, <2>3, <2>4, <2>5, <2>11, <2>12, <2>13, <2>14, <2>15, <2>16, <2>17, <2>18, <2>19,
       <2>20
    DEF Next, ReaderStep
<1>3. FactoryInv => FactoryKeyWorks
  BY DEF FactoryInv
<1> QED
  BY <1>1, <1>2, <1>3, Typing, Cipher, PTL DEF Spec
-----------------------------------------------------------------------------
(* A reported success, when frames may be lost *)

\* No card holds anything of the current request.
Untouched == \A c \in Card : \A b \in Blocks : mem[c][b] # request

\* What the current request has written to cards, it has written in an encrypted
\* session that is still open, or is over with the search for a card.
FreshInv ==
  /\ \A c \in Card : \A b \in Blocks : mem[c][b] <= request
  /\ pc \notin {"idle", "init"} /\ ~crypto => Untouched
  /\ pc \in {"poll", "select", "halt", "stopCrypto", "init"} /\ ~answered => Untouched
  /\ pc \in Dumping => Untouched

\* During a WRITE, the blocks written so far are those from the n-th on.
WrittenFrom(n) == \A b \in Blocks : mem[uid][b] = request <=> (n <= b /\ b < blk)

\* A selected card that was not opened yet holds nothing of the request; one in
\* the session has missed no block since the first that it took.
SuffixInv ==
  /\ pc \in Running \cup {"handle"} /\ field[uid] = "auth" => crypto
  /\ pc \in Running /\ command = "WRITE" =>
       /\ field[uid] = "active" => \A b \in Blocks : mem[uid][b] # request
       /\ field[uid] = "auth" => \E n \in 1 .. blk : WrittenFrom(n)
  /\ SuccessMeansSuffixWritten

LEMMA Freshness == Spec => []FreshInv
<1>1. Init => FreshInv
  <2> SUFFICES ASSUME Init PROVE FreshInv
    OBVIOUS
  <2>1. pc = "idle" /\ request = 0 /\ mem = Content
    BY DEF Init
  <2>2. \A c \in Card : \A b \in Blocks : mem[c][b] <= request
    BY <2>1, ReaderConstants
  <2> QED
    BY <2>1, <2>2 DEF FreshInv, Dumping
<1>2. TypeOK /\ CipherInv /\ FreshInv /\ [Next]_vars => FreshInv'
  <2> SUFFICES ASSUME TypeOK, CipherInv, FreshInv, [Next]_vars PROVE FreshInv'
    OBVIOUS
  <2>1. ASSUME UNCHANGED <<mem, request>>,
               pc' \notin {"idle", "init"} /\ ~crypto' => Untouched,
               pc' \in {"poll", "select", "halt", "stopCrypto", "init"} /\ ~answered' => Untouched,
               pc' \in Dumping => Untouched
        PROVE  FreshInv'
    BY <2>1 DEF FreshInv, Untouched
  <2> USE DEF FreshInv, Dumping
  <2>2. CASE IsNewCardPresent \/ ReadCardSerialFails \/ ReadCardSerialLost \/ Halt
    BY <2>1, <2>2 DEF IsNewCardPresent, ReadCardSerialFails, ReadCardSerialLost, Halt,
       NoAnswer, RequestSame
  <2>3. ASSUME NEW c \in Card, ReadCardSerial(c) PROVE FreshInv'
    BY <2>1, <2>3 DEF ReadCardSerial, NoAnswer, RequestSame
  <2>4. CASE HandleSignal
    BY <2>1, <2>4 DEF HandleSignal, RequestSame, CipherInv
  <2>5. CASE TryAuth \/ TryRead
    BY <2>1, <2>5 DEF TryAuth, TryRead, Authenticate, NextKey, NoAnswer, RequestSame
  <2>6. CASE ReadBlockAuth \/ ReadBlock
    BY <2>1, <2>6 DEF ReadBlockAuth, ReadBlock, Authenticate, BlockRead, RequestSame
  <2>7. CASE WriteCommand
    BY <2>1, <2>7 DEF WriteCommand, BlockWritten, RequestSame
  <2>15. CASE WriteData
    <3>1. /\ pc = "writeData" /\ pc' \in {"tryAuth", "emit"} /\ crypto
          /\ UNCHANGED <<request, crypto, answered>>
      BY <2>15 DEF WriteData, BlockWritten, CipherInv
    <3>2. \A c \in Card : \A b \in Blocks : mem'[c][b] <= request
      <4>1. \A c \in Card : mem'[c] = mem[c] \/ mem'[c] = [mem[c] EXCEPT ![blk] = request]
        BY <2>15 DEF WriteData
      <4>2. /\ request \in Int
            /\ \A c \in Card : mem[c] \in [Blocks -> -1 .. MaxRequests]
        BY DEF TypeOK
      <4>3. ASSUME NEW c \in Card, NEW b \in Blocks PROVE mem'[c][b] <= request
        <5>1. mem'[c][b] = mem[c][b] \/ mem'[c][b] = request
          BY <4>1, <4>2
        <5> QED
          BY <4>2, <5>1
      <4> QED
        BY <4>3
    <3> QED
      BY <3>1, <3>2
  <2>8. CASE DumpAuth \/ DumpTrailer \/ DumpRest
    BY <2>1, <2>8 DEF DumpAuth, DumpTrailer, DumpRest, NextSector, Authenticate, NoAnswer,
       RequestSame
  <2>9. CASE DumpEnd \/ DumpHalt
    BY <2>1, <2>9 DEF DumpEnd, DumpHalt, NoAnswer, RequestSame
  <2>10. CASE Emit
    BY <2>1, <2>10 DEF Emit, RequestSame
  <2>11. CASE StopCrypto1 \/ HardReset
    BY <2>1, <2>11 DEF StopCrypto1, HardReset, LoopTest, NoAnswer, RequestSame
  <2>12. ASSUME NEW com, Signal(com) PROVE FreshInv'
    <3>1. request' = request + 1 /\ mem' = mem /\ pc' = "poll"
      BY <2>12 DEF Signal
    <3>2. \A c \in Card : \A b \in Blocks : mem[c][b] <= request /\ mem[c][b] \in Int
      BY DEF TypeOK
    <3>3. \A c \in Card : \A b \in Blocks : mem'[c][b] <= request' /\ mem'[c][b] # request'
      BY <3>1, <3>2 DEF TypeOK
    <3> QED
      BY <3>1, <3>3 DEF Untouched
  <2>13. ASSUME NEW c \in Card, Arrives(c) \/ Leaves(c) PROVE FreshInv'
    BY <2>1, <2>13 DEF Arrives, Leaves, controlVars
  <2>14. CASE UNCHANGED vars
    BY <2>1, <2>14 DEF vars, controlVars
  <2> QED
    BY <2>2, <2>3, <2>4, <2>5, <2>6, <2>7, <2>8, <2>9, <2>10, <2>11, <2>12, <2>13, <2>14,
       <2>15
    DEF Next, ReaderStep
<1> QED
  BY <1>1, <1>2, Typing, Cipher, PTL DEF Spec

\* A frame of a running command, which writes nothing, keeps the invariant if it
\* opens a card only together with the reader's cipher.
LEMMA FrameInSuffix ==
  ASSUME TypeOK, SuffixInv, pc \in Running, pc' \in Running, uid \in Card,
         UNCHANGED <<uid, command, request, blk, mem>>,
         crypto => crypto',
         \/ field' = Unheard
         \/ \E s \in {"idle", "desync"} : field' = Hears(s)
         \/ field' = Hears("auth") /\ crypto'
  PROVE  SuffixInv'
<1>1. field'[uid] \in {field[uid], "desync", "idle"} \/ field'[uid] \notin {"active", "auth"}
      \/ (field'[uid] = "auth" /\ crypto' /\ uid \in Partners)
  BY FrameListeners
<1>2. uid \in Partners => field[uid] \in {"active", "auth"}
  BY DEF Partners
<1>3. field'[uid] = "auth" => crypto'
  BY <1>1 DEF SuffixInv
<1>4. field'[uid] = "active" => field[uid] = "active"
  BY <1>1
<1>5. field'[uid] = "auth" => field[uid] \in {"active", "auth"}
  BY <1>1, <1>2
<1>6. ASSUME command = "WRITE", field[uid] = "active" PROVE \E n \in 1 .. blk : WrittenFrom(n)
  <2>1. WrittenFrom(blk) /\ blk \in 1 .. blk
    BY <1>6 DEF SuffixInv, WrittenFrom, TypeOK, Blocks
  <2> QED
    BY <2>1
<1>7. (\E n \in 1 .. blk : WrittenFrom(n)) => (\E n \in 1 .. blk : WrittenFrom(n))'
  BY DEF WrittenFrom
<1>8. SuccessMeansSuffixWritten'
  BY DEF SuccessMeansSuffixWritten, ReportsSuccess, Running
<1> QED
  BY <1>3, <1>4, <1>5, <1>6, <1>7, <1>8 DEF SuffixInv, Running

\* A success reported for a WRITE means that the blocks of the card from some
\* block on hold the new data, and those before it do not, whichever frames are
\* lost and whoever comes and goes.
THEOREM SuccessIsSuffix == Spec => []SuccessMeansSuffixWritten
<1>1. Init => SuffixInv
  BY DEF Init, SuffixInv, SuccessMeansSuffixWritten, ReportsSuccess, Running
<1>2. /\ TypeOK /\ CipherInv /\ FreshInv /\ OnlyUidListens /\ SuffixInv
      /\ [Next]_vars
      => SuffixInv'
  <2> SUFFICES ASSUME TypeOK, CipherInv, FreshInv, OnlyUidListens, SuffixInv, [Next]_vars
               PROVE  SuffixInv'
    OBVIOUS
  <2>1. ASSUME pc' \notin Running \cup {"handle", "emit"} PROVE SuffixInv'
    BY <2>1 DEF SuffixInv, SuccessMeansSuffixWritten, ReportsSuccess, Running
  <2>2. ASSUME pc' = "emit", command' # "WRITE" PROVE SuffixInv'
    BY <2>2 DEF SuffixInv, SuccessMeansSuffixWritten, ReportsSuccess, Running
  <2>3. ASSUME pc \in Running, command # "WRITE", pc' \in Running, uid' = uid,
               command' = command, field'[uid] = "auth" => crypto'
        PROVE  SuffixInv'
    BY <2>3 DEF SuffixInv, SuccessMeansSuffixWritten, ReportsSuccess, Running
  <2>4. CASE IsNewCardPresent \/ ReadCardSerialFails \/ ReadCardSerialLost
             \/ Emit \/ Halt \/ StopCrypto1 \/ HardReset
    BY <2>1, <2>4
    DEF IsNewCardPresent, ReadCardSerialFails, ReadCardSerialLost, Emit, Halt,
        StopCrypto1, HardReset, LoopTest, Running
  <2>5. ASSUME NEW com, Signal(com) PROVE SuffixInv'
    BY <2>1, <2>5 DEF Signal, Running
  <2>6. ASSUME NEW c \in Card, ReadCardSerial(c) PROVE SuffixInv'
    <3>1. pc' = "handle" /\ uid' = c /\ field'[c] = "active"
      BY <2>6 DEF ReadCardSerial, Selected
    <3> QED
      BY <3>1 DEF SuffixInv, SuccessMeansSuffixWritten, ReportsSuccess, Running
  <2>7. CASE HandleSignal
    <3>1. /\ pc = "handle" /\ pc' \in {"emit", "dump", "tryAuth"} /\ blk' = 1
          /\ UNCHANGED <<uid, crypto, field, command, request, mem>>
          /\ pc' = "emit" => command = "AUTH"
      BY <2>7 DEF HandleSignal, RequestSame
    <3>2. Untouched /\ uid \in Card /\ ~crypto
      BY <3>1 DEF FreshInv, CipherInv, Handling
    <3>3. field[uid] # "auth"
      BY <3>1, <3>2 DEF SuffixInv
    <3> QED
      BY <2>1, <2>2, <3>1, <3>2, <3>3
      DEF SuffixInv, SuccessMeansSuffixWritten, ReportsSuccess, Running, Untouched
  <2>8. ASSUME NEW k, NEW ok \in BOOLEAN, Authenticate(k, ok)
        PROVE  /\ crypto => crypto'
               /\ \/ field' = Unheard
                  \/ \E s \in {"idle", "desync"} : field' = Hears(s)
                  \/ field' = Hears("auth") /\ crypto'
    BY <2>8 DEF Authenticate, TypeOK
  <2>9. ASSUME NEW ok \in BOOLEAN, Exchange(ok), crypto' = crypto, crypto
        PROVE  /\ crypto => crypto'
               /\ \/ field' = Unheard
                  \/ \E s \in {"idle", "desync"} : field' = Hears(s)
                  \/ field' = Hears("auth") /\ crypto'
    BY <2>9 DEF Exchange
  <2>10. pc \in Running => uid \in Card
    BY DEF CipherInv, Running, Handling
  <2>11. CASE TryAuth
    <3>1. /\ pc \in Running /\ pc' \in Running
          /\ UNCHANGED <<uid, command, request, blk, mem>>
          /\ \E ok \in BOOLEAN : Authenticate(key, ok)
      BY <2>11 DEF TryAuth, NextKey, Running, RequestSame
    <3> QED
      BY <2>8, <2>10, <3>1, FrameInSuffix
  <2>12. CASE TryRead
    <3>1. /\ pc \in Running /\ pc' \in Running
          /\ UNCHANGED <<uid, command, request, blk, mem, crypto>> /\ crypto
          /\ \E ok \in BOOLEAN : Exchange(ok)
      BY <2>12 DEF TryRead, NextKey, Running, RequestSame, CipherInv
    <3> QED
      BY <2>9, <2>10, <3>1, FrameInSuffix
  <2>13. CASE ReadBlockAuth
    <3>1. /\ pc \in Running /\ pc' \in Running \cup {"emit"}
          /\ command = "WRITE" => pc' \in Running /\ blk' = blk
          /\ UNCHANGED <<uid, command, request, mem>>
          /\ \E ok \in BOOLEAN : Authenticate(key, ok)
      BY <2>13 DEF ReadBlockAuth, BlockRead, Running, RequestSame
    <3>2. CASE command = "WRITE"
      BY <2>8, <2>10, <3>1, <3>2, FrameInSuffix
    <3>3. CASE command # "WRITE"
      <4>1. field'[uid] = "auth" => crypto'
        BY <2>8, <2>10, <3>1, FrameListeners DEF SuffixInv
      <4> QED
        BY <2>2, <2>3, <3>1, <3>3, <4>1
    <3> QED
      BY <3>2, <3>3
  <2>14. CASE ReadBlock
    <3>1. /\ pc \in Running /\ pc' \in Running \cup {"emit"}
          /\ command = "WRITE" => pc' \in Running /\ blk' = blk
          /\ UNCHANGED <<uid, command, request, mem, crypto>> /\ crypto
          /\ \E ok \in BOOLEAN : Exchange(ok)
      BY <2>14 DEF ReadBlock, BlockRead, Running, RequestSame, CipherInv
    <3>2. CASE command = "WRITE"
      BY <2>9, <2>10, <3>1, <3>2, FrameInSuffix
    <3>3. CASE command # "WRITE"
      BY <2>2, <2>3, <3>1, <3>3
    <3> QED
      BY <3>2, <3>3
  <2>21. ASSUME pc \in {"write", "writeData"}, UNCHANGED <<uid, command, request, crypto, mem>>,
                BlockWritten("error"), field'[uid] # "auth",
                field'[uid] = "active" => field[uid] = "active"
         PROVE  SuffixInv'
    BY <2>21 DEF BlockWritten, SuffixInv, SuccessMeansSuffixWritten, ReportsSuccess, Running
  <2>22. CASE WriteCommand
    <3>1. PICK sent \in Air, back \in Air :
            /\ field' = IF ~sent THEN Unheard
                        ELSE Hears(IF ~crypto THEN "idle" ELSE IF back THEN "auth" ELSE "desync")
            /\ IF sent /\ back /\ crypto /\ Partners # {}
               THEN pc' = "writeData" /\ UNCHANGED <<answer, blk, key>>
               ELSE BlockWritten("error")
      BY <2>22 DEF WriteCommand
    <3>2. /\ pc = "write" /\ pc \in Running /\ uid \in Card
          /\ UNCHANGED <<uid, command, request, crypto, mem>>
      BY <2>10, <2>22 DEF WriteCommand, Running, RequestSame
    <3>3. CASE sent /\ back /\ crypto /\ Partners # {}
      BY <3>1, <3>2, <3>3, FrameInSuffix DEF Running
    <3>4. CASE ~(sent /\ back /\ crypto /\ Partners # {})
      <4>1. field[uid] = "auth" => crypto /\ uid \in Partners
        BY <3>2 DEF SuffixInv, Partners
      <4>2. field'[uid] # "auth" /\ (field'[uid] = "active" => field[uid] = "active")
        <5>1. CASE ~sent
          <6>1. field[uid] = "auth" => Unheard[uid] = "desync"
            BY <3>2, <4>1 DEF Unheard
          <6> QED
            BY <3>1, <3>2, <5>1, <6>1, FrameListeners
        <5>2. CASE sent /\ (~crypto \/ ~back)
          <6>1. \E s \in {"idle", "desync"} : field' = Hears(s)
            BY <3>1, <5>2
          <6> QED
            BY <3>2, <6>1, FrameListeners
        <5>3. CASE sent /\ Partners = {}
          BY <3>1, <3>2, <5>3, FrameListeners
        <5> QED
          BY <3>4, <5>1, <5>2, <5>3
      <4> QED
        BY <2>21, <3>1, <3>2, <3>4, <4>2
    <3> QED
      BY <3>3, <3>4
  <2>15. CASE WriteData
    <3>1. PICK sent \in Air, back \in Air :
            /\ mem' = [c \in Card |-> IF sent /\ c \in Partners
                                      THEN [mem[c] EXCEPT ![blk] = request] ELSE mem[c]]
            /\ field' = IF ~sent THEN Unheard ELSE Hears(IF back THEN "auth" ELSE "desync")
            /\ BlockWritten(WriteResult(sent /\ back /\ Partners # {}))
      BY <2>15 DEF WriteData
    <3>2. /\ pc = "writeData" /\ pc \in Running /\ uid \in Card /\ crypto
          /\ UNCHANGED <<uid, command, request, crypto>>
          /\ IF blk < 3 THEN blk' = blk + 1 /\ pc' = "tryAuth"
                        ELSE blk' = blk /\ pc' = "emit"
      BY <2>10, <2>15 DEF WriteData, BlockWritten, CipherInv, Running
    <3> DEFINE written == sent /\ Partners # {}
    <3>3. CASE written
      <4>1. Partners = {uid} /\ field[uid] = "auth"
        BY <3>2, <3>3 DEF Partners, OnlyUidListens, Handling, Listening
      <4>2. mem'[uid] = [mem[uid] EXCEPT ![blk] = request]
        BY <3>1, <3>2, <3>3, <4>1
      <4>3. field'[uid] = IF back THEN "auth" ELSE "desync"
        BY <3>1, <3>2, <3>3, <4>1, FrameListeners
      <4>4. ~back => answer' = <<"error">>
        BY <3>1 DEF WriteResult, BlockWritten
      <4>5. ASSUME command = "WRITE"
            PROVE  \E n \in 1 .. blk :
                     \A b \in Blocks : mem'[uid][b] = request <=> (n <= b /\ b <= blk)
        <5>1. PICK n \in 1 .. blk : WrittenFrom(n)
          BY <3>2, <4>1, <4>5 DEF SuffixInv
        <5>2. blk \in Blocks /\ mem[uid] \in [Blocks -> -1 .. MaxRequests]
          BY <3>2 DEF TypeOK
        <5>3. \A b \in Blocks : mem'[uid][b] = IF b = blk THEN request ELSE mem[uid][b]
          BY <4>2, <5>2
        <5>4. \A b \in Blocks : mem'[uid][b] = request <=> (n <= b /\ b <= blk)
          BY <5>1, <5>2, <5>3 DEF WrittenFrom, Blocks
        <5> QED
          BY <5>4
      <4>6. CASE blk < 3
        <5>1. ASSUME command = "WRITE" PROVE (\E n \in 1 .. blk : WrittenFrom(n))'
          <6>1. PICK n \in 1 .. blk :
                  \A b \in Blocks : mem'[uid][b] = request <=> (n <= b /\ b <= blk)
            BY <4>5, <5>1
          <6>2. n \in 1 .. blk' /\ \A b \in Blocks : b <= blk <=> b < blk'
            BY <3>2, <4>6 DEF TypeOK, Blocks
          <6>3. WrittenFrom(n)'
            BY <3>2, <6>1, <6>2 DEF WrittenFrom
          <6> QED
            BY <6>2, <6>3
        <5> QED
          BY <3>2, <3>3, <4>3, <4>6, <5>1
          DEF SuffixInv, SuccessMeansSuffixWritten, ReportsSuccess
      <4>7. CASE ~(blk < 3)
        <5>1. ASSUME command = "WRITE"
              PROVE \E n \in Blocks : \A b \in Blocks : (mem'[uid][b] = request) <=> b >= n
          BY <4>5, <4>7, <5>1 DEF TypeOK, Blocks
        <5> QED
          BY <3>2, <4>7, <5>1
          DEF SuffixInv, SuccessMeansSuffixWritten, ReportsSuccess, Running
      <4> QED
        BY <4>6, <4>7
    <3>4. CASE ~written
      <4>1. mem' = mem
        BY <3>1, <3>4 DEF TypeOK
      <4>2. BlockWritten("error")
        BY <3>1, <3>4 DEF WriteResult
      <4>3. field'[uid] # "auth" /\ (field'[uid] = "active" => field[uid] = "active")
        <5>1. CASE ~sent
          <6>1. field[uid] = "auth" => Unheard[uid] = "desync"
            BY <3>2 DEF Unheard, Partners
          <6> QED
            BY <3>1, <3>2, <5>1, <6>1, FrameListeners
        <5>2. CASE sent /\ Partners = {}
          BY <3>1, <3>2, <5>2, FrameListeners
        <5> QED
          BY <3>4, <5>1, <5>2
      <4> QED
        BY <2>21, <3>2, <4>1, <4>2, <4>3
    <3> QED
      BY <3>3, <3>4
  <2>16. CASE DumpAuth \/ DumpTrailer \/ DumpRest
    BY <2>1, <2>16 DEF DumpAuth, DumpTrailer, DumpRest, NextSector, Running
  <2>17. CASE DumpEnd
    BY <2>1, <2>17 DEF DumpEnd, Running
  <2>18. CASE DumpHalt
    <3>1. pc' = "emit" /\ command' = "DUMP"
      BY <2>18 DEF DumpHalt, RequestSame, CipherInv, Dumping
    <3> QED
      BY <2>2, <3>1
  <2>19. ASSUME NEW c \in Card, Arrives(c) \/ Leaves(c) PROVE SuffixInv'
    <3>1. UNCHANGED <<controlVars, uid, crypto, mem>>
      BY <2>19 DEF Arrives, Leaves
    <3>2. uid \in Card => field'[uid] \in {field[uid], "idle", "away"}
      BY <2>19 DEF Arrives, Leaves, TypeOK
    <3>3. pc \in Running \cup {"handle"} => uid \in Card
      BY DEF CipherInv, Running, Handling
    <3>4. SuccessMeansSuffixWritten'
      BY <3>1 DEF SuffixInv, SuccessMeansSuffixWritten, ReportsSuccess, controlVars
    <3> QED
      BY <3>1, <3>2, <3>3, <3>4 DEF SuffixInv, WrittenFrom, controlVars
  <2>20. CASE UNCHANGED vars
    BY <2>20 DEF vars, controlVars, SuffixInv, WrittenFrom, SuccessMeansSuffixWritten,
       ReportsSuccess
  <2> QED
    BY <2>4, <2>5, <2>6, <2>7, <2>11, <2>12, <2>13, <2>14, <2>15, <2>16, <2>17, <2>18, <2>19,
       <2>20, <2>22
    DEF Next, ReaderStep
<1>3. SuffixInv => SuccessMeansSuffixWritten
  BY DEF SuffixInv
<1> QED
  BY <1>1, <1>2, <1>3, Typing, Cipher, Freshness, Listeners, PTL DEF Spec
=============================================================================
