# pi-rfid: specification and verification

pi-rfid is a card reader service for a Raspberry Pi (`main.cpp`,
`src/NetworkServer.*`, `src/CardReader.*`, the MFRC522 driver in `src/mfrc522/`)
and a GTK program that sends it commands over TCP (`src/interface/`). This
directory holds TLA+ models of both programs, of the two together, of the
driver from the chip's registers to the card protocols, TLC configurations, and
proofs that TLAPS checks.

Contents: [the system](#the-system) · [modules](#the-modules-and-the-code) ·
[runs](#the-runs) · [fairness](#fairness) · [proofs](#proofs) ·
[findings](#where-the-code-and-its-texts-disagree) ·
[not modelled](#what-is-not-modelled)

## The system

```
 GTK thread ──push──> job_queue ──> worker thread ──TCP──> server thread ──> CardReader ──> MFRC522 ──> cards
 (windows)            (mutex,       (one recv()            (keep_listening,   (signal        (SPI)
                      condition)     per job, 10 s)         one connection)    emission)
```

| Component | State | Operations | Hard about it | Correct if |
|---|---|---|---|---|
| `NetworkClient` (`interface/NetworkClient.cc`) | `job_queue`, `clientSocket`, `network_thread_running`, two threads | `start`, `socket_send`, `test_socket`, `stop`, the worker's loop, `recv_bg_listener` | flag without a lock, descriptor replaced under the worker, one `recv` per job, ten second timeout | jobs run once, in order; answers are never shown out of order; no socket leaks; `stop` returns |
| `NetworkServer` (`NetworkServer.cpp`, `.h`) | `serverSocket`, `clientSocket`, `server_thread_running`, one job | constructor, `keep_listening`, `process_req_data`, `on_data_received`, `stop` | the wait for a card runs on the network thread; clients go away meanwhile; the slot is connected late; the destructor kills the process | an answer goes to the connection that asked; connections are closed; requests are served one by one; the service stays up |
| both together | the connections | | a request outlives the patience, the connection and the process of its client; an answer outlives its request | each program is a peer the other can live with; commands are carried out, and in order |
| `CardReader` (`CardReader.cpp`) | `uid`, the reader's cipher bit, `signal_handler` | `on_signal_received`, `handle_signal`, `generate_key`/`try_key`, serialized read and write, dump | cards come and go between any two exchanges, frames get lost, the cards have states of their own | only the chosen card is touched; a reported success is true; every later card is found |
| `PICC_Select` (`mfrc522/MFRC522.cpp`, `MFRC522Extended.cpp`) | buffer of the level, known bits, cascade level | ANTICOLLISION and SELECT rounds | several cards answer at once | one card is selected and its UID complete; it ends |
| MFRC522 chip (`MFRC522.cpp`) | command, interrupt bits, FIFO, mode registers, CRC | `PCD_CommunicateWithPICC`, `PCD_CalculateCRC`, self test, reset, power-down | two machines that share registers: the wait ends by a bit, by a timer or by a count of rounds, while the chip goes on | an answer is the answer to this frame; the data are intact; every wait ends |
| ISO/IEC 14443-4 (`MFRC522Extended.cpp`) | ATS, speeds, block number, PCB | RATS, PPS, `TCL_Transceive`, chaining, deselection | two block numbers and two speeds that must agree though blocks get lost | a complete answer, or an error; the next card is heard |
| MIFARE values, access bits, backdoor cards (`MFRC522.cpp`) | bytes of a block | `MIFARE_SetValue`, increment and transfer, `MIFARE_SetAccessBits`, dump of a sector, `MIFARE_SetUid`, unbrick | commands in two halves whose second is not confirmed; a read, changed bytes, a write | the stored value is the computed one; the dump is true; the card is not broken |
| GUI (`App`, `BaseWindow`, `ControlsWindow`, `LoginWindow`, `InputDialog`) | widgets, login file | buttons | signals from the worker thread, window lifetimes | its calls into the client are the user's steps of `NetworkClient`; windows are not modelled |
| `ConsoleMenu`, `SecurityTag`, `AppLogger`, board support, `extras/`, `py-rfid/`, `tests/` | | | | not modelled, see below |

Interaction: `ControlsWindow` and `BaseWindow` call `socket_send`, and
`test_socket` for the connection check. `keep_listening` builds an `RFIDRequest`
from what one `recv` returned, which emits `signal_card_reader` (slot:
`CardReader::on_signal_received`) or `signal_data_received` (slot:
`NetworkServer::on_data_received`, which sends); `handle_signal` emits the latter
for each card it handled. All of this runs on the one server thread. On the
client, `signal_data_received` is emitted on the worker thread.

What is hard to test in this code is listed, line by line, under `hazards` in
`PROJECT.json`, with the properties that cover each entry.

## The modules and the code

```
 System ──┬── NetworkClient ──┬── Tcp          CardReader      PiccSelect      Tcl
          └── NetworkServer ──┘
 NetworkClient ── JobPump (refined)            MifareOps ── MifareCodec        Pcd ── Exchange (refined)
```

Every model definition has its source lines in the `map` of `PROJECT.json`.
Operators named `X_Something` next to a definition `X` are slips: plausible wrong
versions of `X` that show that a property can fail. No specification uses them.

**`Tcp`** (external: the kernel). A connection is a record with the state of both
ends, the messages in transit each way and whether a reset has reached each end.
`connect` succeeds when the kernel queues the connection; `recv` takes any
non-empty prefix of what is buffered, so that requests may be merged; a `close`
with unread data resets the other end; a send to an end that is gone provokes a
reset, and the next send raises SIGPIPE. One message is not split over two
`recv`s, except for answers longer than the client's buffer, which are two
messages, the first marked `more`.

**`NetworkClient`**. Two program counters, `gui` and `worker`. The mutex has no
variable: its holder is the worker between the wait's predicate and its sleep
(`worker = "blocking"`), which is what makes a lost wake-up possible or not; all
other critical sections are one step. `fdtab` is the process' descriptor table
(lowest free number first), since the code keeps *numbers*: a failed `connect`
closes the descriptor and leaves the number in `clientSocket`, a job is given the
number before the connection check may replace what is behind it, and
`recv_bg_listener` reads the member again. `rconn` is what a blocking `recv`
refers to even when its descriptor was closed. The peer is an environment: it
accepts one connection at a time, takes what one `recv` returned (`asked`),
answers it at once or later, in one or several sends, keeps silent, repeats an
answer, dies and restarts. `calm` is a history variable: nothing has
happened yet after which answers may be shifted to later jobs. The descriptors
of other files (GTK's, the log) are left out: the number closed a second time is
never somebody else's here.

**`JobPump`** is the abstract specification of a job queue with one worker: jobs
are executed one at a time, in the order of submission, none twice.
`NetworkClient!ImplementsPump` is its refinement, with
`taken <- submitted - Len(queue)`.

**`NetworkServer`**. Program counters `main` and `thread`. The main thread
constructs the base parts, starts the server thread, pushes `keep_listening`,
initialises the chip, connects the slot, returns from `main()` and enters the
destructor. `Recv`, `Dispatch…`, `CardAnswers`, `NextCard`, `ReaderReturns` are
the calls nested inside `keep_listening`; the reader is abstract (a card may or
may not be there, more cards may follow, without a bound, a card may yield an
empty answer). `done` are the requests that were carried out to the end,
`dropped` those that were read and not carried out: the slot was not connected
yet, or several arrived in one buffer and were taken for one. `handlers` is the
map `signal_handler`: `~CardReader` destroys it before `~NetworkServer` blocks in
its join, and the server thread goes on to assign it; once nodes were freed that
way, the assignment may crash the process or not (`HandlerCrashes`). A
request text is a member of `Req` with a `Kind`; what follows the first colon of
a merged buffer decides as in `process_req_data` (`TypeOf`). `EndProcess` is any
end of the process; systemd restarts after a failure. The clients are an
environment that may connect, send on any connection it holds, and close it, at
any time.

**`System`** joins the two: the actions of both modules over one `net`, with no
environment left but the user, the cards, the scheduler and systemd. Two of its
properties discharge what the parts assume. `ServerIsPeer`: seen from the client,
the service is a behaviour of `NetworkClient!Spec`, with `asked` and `replied`
computed from where the server thread is and `repeats`, `crashes` and `calm` kept
along; so what is shown of the client against the free peer holds against this
service. `ClientIsClient`: seen from the service, the client is one of
`NetworkServer!Spec`'s; `Visible` hides sockets that were never connected, of
which the service cannot know. `listen(serverSocket, 5)` bounds how many
connections wait, so a `connect` succeeds only while there is room (`Admitted`);
with none it waits, and its send timeout ends it. `asker`, `done`, `dropped`,
`answered` are history. One GUI is
connected; several of them are the environment of `NetworkServer`.

**`CardReader`**. One action per exchange with the field. A card is `away`, or in
a state of ISO/IEC 14443-3 (`idle`, `ready`, `active`, `halt`), authenticated
(`auth`) or authenticated with its cipher stream out of step (`desync`). `Hears`
and `Unheard` say what a frame does to every card; a card that cannot make sense
of a frame goes back to IDLE, as MIFARE Classic cards do after a failed
authentication. If a later pass of an authentication is lost, the card has begun a
session that the reader has not (`desync`). A write is two exchanges, the command
and the data. All cards are MIFARE Classic with one key for the whole card.
Data blocks hold text, zeros or the number of the request that wrote them.
`Air = {TRUE}` means that no frame is lost, `BOOLEAN` that any frame or response
may be. A DUMP handles three sectors, of a
card's 5, 16 or 40, and of each the trailer and one more block, which are
authenticated for and read as `PICC_DumpMifareClassicSectorToSerial` does, and
ends with the two halts. `undisturbed` is history: no card left and no frame was
lost since the last select. Texts have at most 32 characters, so that each of the three
pieces that `substr` cuts off, or the padding that stands for a missing one, fits
the block buffer; what the overflow by a longer text does to the process is not
modelled, and how a text is cut makes no difference to any property.

**`PiccSelect`**. A level of a UID is the set of the positions of its ones, so
that "the bits known so far" are `Prefix(buffer, known)` and the cards that
still answer are those that agree with it. `extended` says whether the base
class's function runs or the override, which the reader really calls;
`BitToSet` is where they differ. Known bits are never supplied
(`validBits = 0`, as everywhere in the repository). The chip reports a collision
at its position in the level, from 1 to 32, as the code assumes.

**`Pcd`**. The driver and the chip as two processes that share registers
(`chip`: command, FIFO, interrupt bits, collision and error bits, mode, antenna).
Each register access whose place in the order matters is an action:
stop, clear the interrupt bits, flush, fill, execute, start to send, poll,
collect. The six kinds of frame in `Op` are the six ways the code calls
`PCD_CommunicateWithPICC`: what they send a CRC with, how much room they have, which
interrupts end the wait. A packet names who made it and for which frame, so that
"the answer to an earlier frame" can be told from the right one; it may be
damaged. The card answers any time after it heard a frame, also after the driver
stopped waiting; a card that hears a new frame forgets the earlier one. The
timer may expire spuriously, since it is not stopped between frames. The chip
may be dead: nothing obliges `ChipStep`. Reset, power-down, initialisation
and the self test run between exchanges.

**`Exchange`** is what an exchange promises: frames go out one at a time, each
fails or is answered once, with the card's answer to this very frame. `Pcd`
implements it, and it is what `CardReader`, `PiccSelect`, `Tcl` and `MifareOps`
take an exchange to be. (`TwoStep` is the exception the code makes: the second half of a value
operation takes a timeout for success; the refinement mapping counts it as
failed, and `MifareOps` models what follows from it.)

**`Tcl`**. From the search for a card to the exchange of blocks: REQA, SELECT,
RATS with the decoding of the ATS (`DecodeAts`, with the masks the code uses), PPS,
`TCL_Transceive` with the acknowledgements of a chained answer, deselection.
`tx` and `rx` are the mode registers; a frame is heard only if the card's speed
and framing are those of the reader. The card numbers its blocks as the
standard says, repeats a block it is asked for again, and may be one that does
not support a CID or PPS (`kind`). Any frame may be lost (`calm` is the
history of it). A RATS ends in one of four ways: with the ATS; without, after which
the card is halted and the rest of the function runs all the same; with an answer
of less than two bytes, after which it also does, and copies a negative number of
bytes (`RatsHalt` to "crashed"); or before anything is sent, if the chip does not
get the CRC done. Assumed: a card answers within 25 ms or not at all; no damage
that the parity bits miss goes unnoticed while the chip does the CRC.

**`MifareCodec`**, **`MifareOps`**. The codec: value blocks, access bits with their
inverted copy, sector geometry, block checksums, with integers of their width,
as functions on bytes. The operations: one action per exchange of increment,
decrement, restore and transfer, set and get of a value, access bits of a
trailer, the dump of a sector, and the functions for cards with a backdoor
(`MIFARE_OpenUidBackdoor`, `MIFARE_SetUid`, `MIFARE_UnbrickUidSector`). One
sector, 0, with default keys; a card is found by REQA and selected by a second
exchange, whose damaged answer leaves its UID in `uid` all the same; an encrypted frame that gets lost leaves the
card's cipher out of step; cards are exchanged at any time; output parameters
are not carried from one call to the next. `due`, `granted`, `before`, `swapped`
are history.

**`MC…`** give constants their values. **`…Proofs`** hold the theorems; those of
`System` instantiate the ones of its two parts.
`NetworkClient` and `Pcd` need no MC module: their constants are numbers.

`TypeOK` of each module is its type invariant, and each is proved; those of
`CardReader`, `PiccSelect`, `Pcd`, `Tcl`, `MifareOps` and `System` are in no run. The last is the
conjunction of its parts', which have a run each.

## The runs

| Run | Specification | What it shows |
|---|---|---|
| `NetworkClient` | `FairSpec` | `TypeOK`; `OneSocket`: no socket the member does not name; `PairedWhileCalm`: while nothing timed out, was cut, repeated or replaced, each shown answer is the answer to its job; `ShownInOrder`: in *all* cases answers are shown in the order of their jobs and never before the job; `ImplementsPump`; `PushedIsTaken`: no push is lost to a worker on its way to sleep, or behind one that waits; `StopWhileBusyReturns`: `stop()` returns if the worker is executing a job |
| `NetworkClientStop` | `FairSpec` | violation of `StopReturns` |
| `NetworkServer` | `CardSpec` | `TypeOK`; `AnswersOnlyToAsker`: whatever is on its way down a connection answers requests sent on it; `OneAccepted`: no accepted connection is forgotten open; `ServesForever`; `AnsweredBeforeNext`: a request that is carried out is answered before the next is read; `BacklogServed`: waiting clients are accepted, if clients hang up some time and people take their cards away |
| `System` | `Spec` | `NeverMergedWhileCalm`: a client that waits for its answers is never misunderstood; `CarriedOutInOrder`: commands run in the user's order, over reconnections and restarts too |
| `SystemLive` | `FairSpec` | `SentIsCarriedOut`: a command that was sent is carried out even if its client gives up, reconnects or ends, unless the service dies or reads it together with another one, which only happens after the client gave up a wait; `ServerIsPeer` and `ClientIsClient`: each program is an environment the other's model allows |
| `CardReader` | `FairSpec`, no loss | `OnlyUidListens`; `SuccessMeansAllWritten`: a success reported for a WRITE, which is the last block's result, means that all three blocks hold the data, although the card may leave and another come at any time; `FactoryKeyWorks`; `PresentCardServed`: no command leaves a card in HALT or the reader in an encrypted session |
| `CardReaderLoss` | `Spec`, loss | the weaker `SuccessMeansSuffixWritten`: `SuccessMeansAllWritten` is false here, since a lost frame in the first block is overwritten by the later blocks' success |
| `CardReaderKeys` | `Spec`, no loss | violation of `KnownKeyWorks` |
| `PiccSelect` | `FairSpec` | `SelectsOne` and `Returns` for both versions, `BaseFailsOnlyIfDisturbed` for the base class's |
| `Pcd` | `FairSpec` | `OwnAnswer`: no answer to an earlier frame is taken for this one's; `ReadIsIntact`; `FramesAreSealed`: no frame goes out with the CRC of another; `CallsReturn`, with a dead chip too; `ImplementsExchange` |
| `Tcl` | `FairSpec` | `ChainInOrder`: what is collected of an answer is its beginning, no block left out or another command's, also with the numbers out of step; `InStep`: the block numbers agree while nothing is lost, through commands that failed for want of room; `ModesAgree`: speeds and CRC modes agree, but after a lost confirmation of a PPS; `NewCardFound`: no speed left over from the last card hides the next one; `ChainEnds` |
| `MifareOps` | `Spec` | `TransferDone`: what a transfer stores is the last change that was reported done; `ValuesAgree`: driver and card read value blocks alike; `AccessShown`: the dump shows the bits the card has; `UidReplaced`: nothing else of the card is changed |

Bounds, and why they are enough:

- `NetworkClient`: three jobs, two sockets, two descriptor numbers, one repeated
  answer, one death of the peer. Three jobs let an answer that is late by one or
  by two jobs be shown; two sockets are the one before and the one after a
  check, which is all that the code can hold at a time. The second job's answer
  exceeds a buffer.
- `NetworkServer`: two connections (one served, one waiting), two requests, a
  WRITE whose answer is long and a command that may find a blank card (merged
  into one buffer they are an unknown request or a WRITE, the cases of
  `TypeOf`), two recorded answers per request, one restart. `MaxCards` bounds the
  answers that are recorded, not the loop of `on_signal_received`: it goes on
  beyond it (`CardUncounted`).
- `System`: two commands (the second may find a blank card), two connections,
  one descriptor number, two recorded answers per command, a service that dies and is
  restarted once: the first command's late answer, second connection and death
  meet the second command. `SystemLive` has one recorded answer per command and
  no restart. Two connections never fill the backlog; the proofs, which cover all
  that these two runs check but the liveness, hold for every value of the constants.
- `CardReader`: three cards: one with text, one blank, one with an unknown key;
  two keys; two requests, so that a request meets what the one before left.
  `MaxEmits = 1` only caps a counter of answers (no or some).
- `PiccSelect`: any subset of six cards; the UIDs collide in the first, the last
  and inner bits of a byte, and in a second cascade level behind a common first.
- `Pcd`: two frames, an earlier and a later one, and waits of two rounds: one
  that may see the bit and one that gives up.
- `Tcl`: three commands, answers of up to three blocks (block numbers
  wrap), room for none, two and four of them, four kinds of card: with all of TA1, TB1,
  TC1 and two speeds, with TA1 only, without CID, and not of this standard.
- `MifareOps`: three calls (change, transfer, and what reads the result), two
  cards, one of them with the backdoor, a value so low that taking two away is
  refused, access bits that differ in every group, and UIDs of the card's length,
  of fewer bytes and of a whole block.

`CHECK_DEADLOCK` is off everywhere: the GUI stops, clients stop sending, bounded
requests, frames and calls run out, and `PICC_Select` returns.

## Fairness

- Client: weak fairness of the GTK thread's steps once a handler has begun, and
  of the worker's. This includes the return of a `recv` without an answer, since
  `SO_RCVTIMEO` is set on every socket. The user and the peer owe nothing.
- Server: weak fairness of both threads, and strong fairness of `run_bg`'s lock:
  a spurious wake-up may take the mutex again and again, and a mutex that is free
  infinitely often is acquired. `CardSpec` adds what people do, not the code:
  somebody presents a card, and takes cards away again, so that of the searches
  that follow one finds none (strong fairness of `ReaderReturns`). The code does
  not see to that: with two cards on the reader, or with one that falls back to
  IDLE and answers REQA again, such as one whose key is not the first, the loop of
  `CardReader.cpp:212` never ends, and without the assumption TLC finds
  `BacklogServed` violated by it. `BacklogServed` assumes in its statement
  that clients hang up some time.
- System: weak fairness of the server thread, cards presented, and the same strong
  fairness. The client and the service's main thread owe nothing, and
  clients need not hang up: the one client closes what it replaces.
- Reader: weak fairness of its steps. Nobody owes it a card: `PresentCardServed`
  says for which fields it speaks.
- Select, and the acknowledgement loop of `Tcl`: weak fairness of the loop.
- Chip: weak fairness of the driver only. The chip owes nothing, not even a
  timer: the waits are counted.

## Proofs

Proved with TLAPS for every value of the constants that the named assumptions
allow (`ClientBounds`, `ServerBounds`, `ReaderConstants`, `SelectConstants`,
`PcdConstants`, `TclConstants`, `OpsConstants`, `SystemBounds`). They fix the types of
the constants and that markers for "none" are no member of the set they are added to:

| Theorem | States | Argument |
|---|---|---|
| `NetworkClientProofs!Typing` | `Spec => []TypeOK` | `TypeInv` adds that a thread inside a job has a job and a descriptor number; each kernel call keeps a connection a connection (`ConnectionTypes`, `TookTypes`) |
| `NetworkClientProofs!NoSocketLeaks` | `Spec => []OneSocket` | `SocketInv`: between the `close` and the `socket` of a reconnection no descriptor is in use, so that the new one is the only one |
| `NetworkClientProofs!PumpRefined` | `Spec => ImplementsPump` | `QueueInv`: the queue holds the last `Len(queue)` numbers submitted, in order, and a job being executed is the last one taken; each action is a step of `JobPump` or a stutter |
| `NetworkClientProofs!AnswersInOrder` | `Spec => []ShownInOrder` | `HeldInv`: which connection the descriptor is for, where the threads are, and that of the others all are closed but at most the one that `recv` is still blocked on. With it `OrderInv`: requests on their way, those the peer works on and answers on their way are each in the order of their numbers over *all* connections, answers go before the requests not yet answered, and what was shown goes before both |
| `NetworkClientProofs!AnswersPaired` | `Spec => []PairedWhileCalm` | `CalmInv`: in the calm there is one request at most between the two programs, on its way, being worked on, or its answer on the way, and it is the job's; `JoinInv`: the socket is closed by `stop` only after the join |
| `NetworkServerProofs!Typing` | `Spec => []TypeOK` | `TypeInv`, with what thread and main thread may count on where they are (`ServedInv`, `CountInv`) |
| `NetworkServerProofs!NeverStops` | `Spec => []ServesForever` | `FlagInv`: the running flag is set before the thread is created and cleared only after the join |
| `NetworkServerProofs!OneAtATime` | `Spec => []OneAccepted` | `ServedInv`: the thread accepts only when no connection is accepted, and every end of serving closes it or has reset it |
| `NetworkServerProofs!AnswersGoBack` | `Spec => []AnswersOnlyToAsker` | `AskerInv`: what is on its way up a connection was sent on it (`UpAsked`), and what the thread processes came from the connection it serves (`ChunkAsked`) |
| `NetworkServerProofs!NoneForgotten` | `Spec => AnsweredBeforeNext` | `ReaderInv`: the reader works on requests for a card, and when its loop comes round again all of them that are not for a blank card are answered, so that what becomes `done` is |
| `CardReaderProofs!Typing` | `Spec => []TypeOK` | inductive as it stands, one step per action |
| `CardReaderProofs!Listeners` | `Spec => []OnlyUidListens` | inductive with the types; `Hears` makes nobody listen who did not (a lemma), and a select makes everyone but its card fall back |
| `CardReaderProofs!SuccessIsComplete` | `Air = {TRUE} /\ Spec => []SuccessMeansAllWritten` | `WriteInv`: during a WRITE, the blocks before the current one are written, or else the card has left the session; a card that is not in the session cannot come back without a new select, so that the last block cannot succeed after an earlier one failed |
| `CardReaderProofs!FactoryKeySuffices` | `Spec => []FactoryKeyWorks` | `CipherInv`: where the reader's cipher is on and off; `FactoryInv`: an undisturbed card with the factory key answers each exchange, so that the search for a key ends at the first one |
| `CardReaderProofs!SuccessIsSuffix` | `Spec => []SuccessMeansSuffixWritten` | `FreshInv`: no block holds the new data before the first write; `SuffixInv`: a card still in the session has missed no block since the first one it took |
| `PiccSelectProofs!SelectsOneCard` | `Spec => []SelectsOne` | `SelectInv`: the levels copied so far are those of every card that still takes part (`Learnt`); cards that answer a SELECT agree in the current level, hence on whether another one follows, since the cascade tag is part of the level; the last SELECT leaves cards with equal UIDs, that is one card |
| `PiccSelectProofs!BaseKeepsACard` | `Spec => []BaseFailsOnlyIfDisturbed` | `NobodyLost`: while nothing is disturbed, some card answers the next frame. After a collision it is one that has the colliding bit: before the first collision all answers agree (`ReceivedIsSent`), and the base class sets the very bit of the collision (`SetsTheCollidingBit`). The override fails this lemma only |
| `PiccSelectProofs!Typing` | `Spec => []TypeOK` | with the above: the first collision is one of the 32 bits |
| `PcdProofs!AnswerIsOwn`, `IntactRead`, `SealedFrames`, `Typing` | `Spec => []OwnAnswer`, `[]ReadIsIntact`, `[]FramesAreSealed`, `[]TypeOK` | one inductive invariant, `PcdInv`, that says for each place of the driver what the registers may hold: nothing in the FIFO and no stale interrupt bit between flush and send (`PrepareInv`), only this frame and its answer while it waits (`ReceiveInv`), at most what was collected in `backData` (`BackInv`), no CRC bit that is not of this computation (`CrcInv`) |
| `PcdProofs!ExchangeRefined` | `Spec => ImplementsExchange` | with `PcdInv`: only a collected answer to the pending frame succeeds |
| `TclProofs!FoundAgain` | `Spec => NewCardFound` | `TclInv`, below: a search starts at the slowest speed (`ModeInv`), which is that of a card that was not selected (`CardInv`) |
| `TclProofs!AnswerInOrder`, `BlocksInStep`, `SameModes`, `Typing` | `Spec => []ChainInOrder`, `[]InStep`, `[]ModesAgree`, `[]TypeOK` | `TclInv`: what the card sends belongs to the last command it heard (`CardInv`), the modes differ only while a switch is going on or something was lost (`ModeInv`), the numbers agree while nothing was (`CalmInv`), and what was collected ends with the block the card sent last to this command, with none left out before it (`AnswerInv`) |
| `MifareOpsProofs!ValueRoundTrip`, `AccessBitsRoundTrip`, `SectorGeometry` | the codec decodes what it encoded, for every 32-bit value and every choice of access bits; sectors are adjacent and their trailers where the code looks for them | arithmetic |
| `MifareOpsProofs!OpsTyping`, `TransferIsDone` | `Spec => []TypeOK`, `[]TransferDone` | `OpsInv`: arguments fit the call and its step (`CallInv`); the trailer of each card is the one it was granted, a card outside the field has fallen back, and a card's register holds what is due (`CardInv`); between the halves of a command the card waits for this call's data, or was exchanged or has fallen back (`WantInv`), which is why a timeout taken for success does no harm here |
| `MifareOpsProofs!ValuesDoAgree` | `Spec => []ValuesAgree` | with `OpsInv` and the codec's theorems: a write that was acknowledged has stored the bytes that were made of the value |
| `MifareOpsProofs!UidIsReplaced` | `Spec => []UidReplaced` | `UidInv`: the card's blocks are those from before the call until the write, and the buffer is the changed copy of the same card's block 0, unless the card was exchanged |
| `MifareOpsProofs!AccessIsShown` | `Spec => []AccessShown` | `DumpInv`: what is shown so far is that card's, with the access bits of that card's trailer; nothing is shown before the trailer was read |
| `SystemProofs!ServerPeer`, `ClientClients` | `Spec => ServerIsPeer`, `Spec => ClientIsClient` | `SysInv`, below: each step of the service is one of the client's peer or is not seen by the client, each step of the client is one of the service's clients or is not seen by the service. What a step of the client does to the connections is one operation on one of them (`OneOperation`), which is all that the proof looks at |
| `SystemProofs!NeverMerged`, `InOrder` | `Spec => []NeverMergedWhileCalm`, `Spec => CarriedOutInOrder` | `CP!CalmInv` (the client's `CalmInv` with the service as the peer) bounds what is read; `HistoryInv` orders it: what was carried out goes before what is worked on, and this before what is on its way |
| `SystemProofs!Typing`, `Together` | `Spec => []TypeOK`; `Spec` implies `ShownInOrder`, `PairedWhileCalm`, `OneSocket`, `AnswersOnlyToAsker` and `OneAccepted` of the parts | from the two refinements: what was proved of each program against its environment holds of the two together |

`SysInv`, the inductive invariant of the composition, is circular at first sight:
each part's invariant (`CP!HeldInv`, `CP!OrderInv`, `SP!TypeInv`) is preserved only
by steps that the part's environment allows, and that the other program's steps are
such is shown from the invariant. It is sound since both are statements about one
step: from `SysInv`, the step is one of both parts' (`StepOfClient`,
`StepOfServer`); hence their invariants hold after it. To these it adds what no part
knows: the service's socket, the connection it serves and its process go together
(`ProcessInv`), only a connection that its client has closed is reset for the
service (`EndsInv`), history goes before what is still on its way (`HistoryInv`),
and deaths and repeated answers stay within the bounds of the client's peer, a death
per restart and an answer per card (`BoundInv`). TLC has this invariant hold on
`MCSystem`'s instance as well.

Only model-checked: every liveness property (`StopWhileBusyReturns`,
`PushedIsTaken`, `BacklogServed`, `PresentCardServed`, `Returns`, `CallsReturn`, `ChainEnds`,
`SentIsCarriedOut`), since fairness and `ENABLED` are out of the prover's reach.

## Where the code and its texts disagree

Each has a run that reaches it (`findings` in `PROJECT.json` quote the lines).

1. `NetworkClient::stop` can hang: the flag is cleared without the mutex
   (`NetworkClientStop`).
2. `generate_key`'s loop over the known keys cannot find any but the first
   (`CardReaderKeys`).

Also noticed while modelling, without a run of its own. The models do what the
code does here; the properties are stated so as to leave these cases out, or the
case is outside of what is modelled.

Service and client:

- A request that arrives during construction gets no answer: the slot is
  connected (`CardReader.cpp:69`) after the server thread is started
  (`NetworkServer.h:139`).
- `NetworkServer::stop` joins a thread whose flag it has not cleared
  (`NetworkServer.cpp:124-125`), and never gets past it; the service stays up
  after `main()` returns only because of this (`ServesForever`).
- A READ of a blank card is not answered at all (`CardReader.cpp:164`); while
  two cards are in the field, or one that answers REQA after it was handled, the
  inner loop of a request does not end (`CardReader.cpp:212`), and the service
  serves nobody else: `CardSpec`'s assumption leaves it out.
- `~CardReader` destroys `signal_handler` (`CardReader.h:61`) before it destroys
  `network_server` (`:58`), whose destructor waits for the server thread for ever:
  that thread assigns a destroyed map with each card (`CardReader.cpp:122`).
- Texts of more than 32 bytes overflow the block buffer (`CardReader.cpp:137`,
  `176-177`), and both receive buffers write their terminating zero one past the
  end when a `recv` fills them (`NetworkServer.cpp:43`, `NetworkClient.cc:28`).
- A second send to a peer that is gone raises SIGPIPE (`NetworkServer.cpp:253`,
  `NetworkClient.cc:130`); the heartbeat feeds the watchdog whatever the server
  thread does (`NetworkServer.cpp:236`).
- A timer's lambda uses its window after the window may be deleted
  (`BaseWindow.cc:73`), and `App.cc:91` deletes a member object.

Driver (`MFRC522.cpp`, `MFRC522Extended.cpp`):

- The override of `PICC_Select` sets another bit than the colliding one in some
  positions (`MFRC522Extended.cpp:187`, `MFRC522.cpp` has it right), and fails
  on UIDs that the base class resolves: the lemma `SetsTheCollidingBit` needs
  `~extended`.
- The masks of T0 for TA1 and TC1 are swapped, against the table above them
  (`MFRC522Extended.cpp:404`, `391-393`), so that a card's speeds may be read from a byte that
  is not TA1; the decoded ATS is never stored in the tag (`:243`); the loop over a
  chained answer looks at the first block's PCB only and ends with an error or
  for want of room, never with `STATUS_OK` (`:840`), which is why `ChainInOrder`
  speaks of the blocks collected and not of the status; the block of a
  deselection is sent without CRC (`:940`); a confirmation of PPS that gets lost
  leaves card and reader at different speeds, and nothing repairs it.
- After a RATS that failed the function does not return
  (`MFRC522Extended.cpp:378`). `MFRC522.cpp:500` stores the length of the answer
  before it is checked, so that an answer of less than two bytes makes the length
  of the copy negative (`MFRC522Extended.cpp:523`).
- `CRCErr` is not looked at (`MFRC522.cpp:488`), and callers that want the CRC checked do it themselves; a failed read in `MIFARE_SetUid` leaves `MFCrypto1On` set (`:1817`),
  a UID of another length than the card's makes it unusable (`:1834`);
  unbrick ignores the result of the backdoor (`:1869`); a length is read
  uninitialised (`:1711`).

## What is not modelled

- The windows: GTK wiring. That `signal_data_received` touches widgets from the
  worker thread, and that the login signal destroys the window whose handler
  runs, are hazards listed without a property: what GTK does then is not in
  this repository.
- Signals and the watchdog: SIGPIPE ends the process in the models, and the
  heartbeat has nothing to say about the server thread that a property could state.
- Ultralight and NTAG functions, the register map, gain and version functions,
  and the functions that only print: sequential code with no state beyond the
  exchange that `Pcd` covers.
- `NetworkClient::run_bg`, `authorize_socket`, `NetworkServer::authenticate`,
  `read_block`, `write_block`, `dump_tag_info`: never called by the two programs.
- `ConsoleMenu`, `SecurityTag`: commented out of `main.cpp`. `AppLogger`: no state
  that anything depends on. `extras/`, `py-rfid/`, `tests/`: experiments and
  examples. `src/RPi-Arduino-SPI/`: third-party.
- The undefined behaviour behind the buffer overruns, and the data race on the
  running flags beyond their two values.

All parts of the system with a state machine of their own now have a module; what
is left could be modelled only by modelling GTK, the kernel's signals or the
chip's electrical side.
