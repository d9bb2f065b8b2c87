---------------------------- MODULE NetworkServer ----------------------------
(***************************************************************************)
(* The reader service process: main.cpp, the construction and destruction  *)
(* of NetworkServer and CardReader, the server thread with its job queue,   *)
(* and keep_listening, which serves one connection at a time and runs every *)
(* request, the wait for a card included, on the server thread.             *)
(*                                                                          *)
(* CardReader::on_signal_received is abstract here (module CardReader has   *)
(* it in full): it waits for a card, and emits an answer each time a card   *)
(* was handled.  The clients are an environment that connects, sends, reads *)
(* and hangs up whenever it likes.                                          *)
(***************************************************************************)
EXTENDS Integers, Sequences, FiniteSets, Tcp

CONSTANTS
  MaxConns,    \* bound: connections the clients open
  Req,         \* the requests, each sent once
  Kind,        \* what each request asks for: see RequestType
  Long,        \* the requests whose answer fills more than one client buffer
  Backlog,     \* listen(serverSocket, 5)
  MaxCards,    \* bound: answers of one request that are recorded (its loop goes on)
  Blank,       \* the requests to which a card may yield an empty answer
  MaxRestarts, \* bound: restarts by systemd
  NoConn       \* clientSocket = -1

Conn == 1 .. MaxConns
RequestType == {"PING", "CARD", "WRITE", "OTHER"}

ASSUME ServerBounds ==
  /\ MaxConns \in Nat /\ Backlog \in Nat \ {0}
  /\ MaxCards \in Nat \ {0} /\ MaxRestarts \in Nat
  /\ Kind \in [Req -> RequestType]
  /\ Long \subseteq Req
  /\ Blank \subseteq {r \in Req : Kind[r] = "CARD"}
  /\ NoConn \notin Conn

Answer == [for : Seq(Req), more : BOOLEAN]

VARIABLES
  main,         \* where the main thread is
  thread,       \* where the server thread is
  running,      \* server_thread_running
  jobs,         \* length of job_queue: keep_listening is the only job
  slot,         \* signal_card_reader is connected to CardReader
  listening,    \* serverSocket is open
  clientSocket, \* the accepted connection, open or closed
  chunk,        \* the buffer being processed: the requests of one recv()
  cards,        \* cards the current request was run on, as far as recorded
  handlers,     \* CardReader::signal_handler: its nodes are "empty", "set", "freed"
  exit,         \* how the process ended: "no", "exit1" or the signal
  restarts,
  net,
  asker,        \* history: the connection each request was sent on
  done,         \* history: requests read, carried out and done with
  dropped,      \* history: requests read and done with, but not carried out
  answered      \* history: requests of the buffers to which something was sent

processVars == <<main, thread, running, jobs, slot, listening, clientSocket,
                 chunk, cards, handlers>>
historyVars == <<asker, done, dropped, answered>>
vars == <<processVars, exit, restarts, net, historyVars>>

MainAt == {"socket", "spawn", "push", "notify", "pcdInit", "connect", "return",
           "stopNotify", "join", "gone"}
ThreadAt == {"unborn", "loop", "lock", "blocking", "waiting", "accept",
             "recv", "dispatch", "reader", "again", "close", "exited", "gone"}

\* Every variable holds a value of its type.
TypeOK ==
  /\ main \in MainAt /\ thread \in ThreadAt
  /\ running \in BOOLEAN /\ slot \in BOOLEAN /\ listening \in BOOLEAN
  /\ jobs \in 0 .. 1
  /\ clientSocket \in Conn \cup {NoConn}
  /\ chunk \in Seq(Req)
  /\ cards \in 0 .. MaxCards /\ handlers \in {"empty", "set", "freed"}
  /\ exit \in {"no", "exit1", "SIGPIPE", "SIGKILL", "SIGSEGV"}
  /\ restarts \in 0 .. MaxRestarts
  /\ net \in [Conn -> Connection(Req, Answer)]
  /\ asker \in [Req -> Conn \cup {NoConn}]
  /\ done \subseteq Req /\ dropped \subseteq Req /\ answered \subseteq Req

\* A process about to run main(): CardReader's base and its member's defaults.
ProcessStart ==
  /\ main' = "socket" /\ thread' = "unborn" /\ running' = FALSE /\ jobs' = 0
  /\ slot' = FALSE /\ listening' = FALSE /\ clientSocket' = NoConn
  /\ chunk' = <<>> /\ cards' = 0 /\ handlers' = "empty"

Init ==
  /\ main = "socket" /\ thread = "unborn" /\ running = FALSE /\ jobs = 0
  /\ slot = FALSE /\ listening = FALSE /\ clientSocket = NoConn
  /\ chunk = <<>> /\ cards = 0 /\ handlers = "empty"
  /\ exit = "no" /\ restarts = 0
  /\ net = [c \in Conn |-> Unused]
  /\ asker = [r \in Req |-> NoConn]
  /\ done = {} /\ dropped = {} /\ answered = {}

-----------------------------------------------------------------------------
(* The end of the process *)

\* The kernel closes every socket; both threads are gone.
EndProcess(how) ==
  /\ exit' = how
  /\ main' = "gone" /\ thread' = "gone"
  /\ listening' = FALSE
  /\ net' = [c \in Conn |-> IF net[c].server \in {"backlog", "open"}
                            THEN ServerClosed(net[c]) ELSE net[c]]
  /\ UNCHANGED <<running, jobs, slot, clientSocket, chunk, cards, handlers,
                 restarts, historyVars>>

-----------------------------------------------------------------------------
(* The main thread *)

MainKeeps ==
  UNCHANGED <<clientSocket, chunk, cards, exit, restarts, net, historyVars>>
MainSame == MainKeeps /\ UNCHANGED handlers

\* start(): init_socket_server() binds and listens, the flag is set.
InitSocketServer ==
  /\ main = "socket" /\ main' = "spawn"
  /\ listening' = TRUE /\ running' = TRUE
  /\ UNCHANGED <<thread, jobs, slot>> /\ MainSame

\* socket(), setsockopt(), bind() or listen() failed.
InitSocketFails == main = "socket" /\ EndProcess("exit1")

Spawn ==
  /\ main = "spawn" /\ main' = "push"
  /\ thread' = "loop"
  /\ UNCHANGED <<running, jobs, slot, listening>> /\ MainSame

\* run_bg(keep_listening): push under the mutex ...
RunBg ==
  /\ main = "push" /\ thread # "blocking" /\ main' = "notify"
  /\ jobs' = jobs + 1
  /\ UNCHANGED <<thread, running, slot, listening>> /\ MainSame

Woken == IF thread = "waiting" THEN "lock" ELSE thread

\* ... and notify_one().  READY=1 is sent and the heartbeat detached.
RunBgNotify ==
  /\ main = "notify" /\ main' = "pcdInit"
  /\ thread' = Woken
  /\ UNCHANGED <<running, jobs, slot, listening>> /\ MainSame

\* The body of CardReader's constructor: PCD_Init ...
PcdInit ==
  /\ main = "pcdInit" /\ main' = "connect"
  /\ UNCHANGED <<thread, running, jobs, slot, listening>> /\ MainSame

\* ... and only now the slot for requests.
ConnectSlot ==
  /\ main = "connect" /\ main' = "return"
  /\ slot' = TRUE
  /\ UNCHANGED <<thread, running, jobs, listening>> /\ MainSame

\* main() returns; ~CardReader destroys its members, the last one declared first:
\* signal_handler, whose nodes are freed while the server thread may be about to
\* assign it, and then ~NetworkServer, stop().  An empty map is left as it was.
Return ==
  /\ main = "return" /\ main' = "stopNotify"
  /\ \/ handlers = "empty" /\ UNCHANGED handlers
     \/ (handlers = "set" \/ thread = "reader") /\ handlers' = "freed"
  /\ UNCHANGED <<thread, running, jobs, slot, listening>> /\ MainKeeps

\* A slip: stop() clears the flag first, as NetworkClient::stop() does.
StopNotify_ClearsFlag ==
  /\ main = "stopNotify" /\ main' = "join"
  /\ thread' = Woken /\ running' = FALSE
  /\ UNCHANGED <<jobs, slot, listening>> /\ MainSame

\* stop(): notify ...
StopNotify ==
  /\ main = "stopNotify" /\ main' = "join"
  /\ thread' = Woken
  /\ UNCHANGED <<running, jobs, slot, listening>> /\ MainSame

\* ... and join, which blocks until the thread has exited, with the flag still
\* set.  What follows the join (clear the flag, close the sockets, kill -9 the
\* own process) is one step: no other thread is left to see it happen.
StopJoin ==
  /\ main = "join"
  /\ IF thread = "exited" THEN EndProcess("SIGKILL") ELSE UNCHANGED vars

-----------------------------------------------------------------------------
(* The server thread: taking the job *)

QueueSame == UNCHANGED <<main, running, slot, listening, clientSocket, chunk,
                         cards, handlers, exit, restarts, net, historyVars>>

ThreadLoop ==
  /\ thread = "loop"
  /\ thread' = IF running THEN "lock" ELSE "exited"
  /\ UNCHANGED jobs /\ QueueSame

\* A slip: whoever wakes up takes a job without looking.
ThreadCheck_Unguarded ==
  /\ thread = "lock"
  /\ thread' = IF ~running THEN "exited" ELSE "accept"
  /\ jobs' = IF running THEN jobs - 1 ELSE jobs
  /\ QueueSame

\* The wait's predicate, under the mutex: exit, go to sleep, or take the job.
ThreadCheck ==
  /\ thread = "lock"
  /\ thread' = IF ~running THEN "exited"
                ELSE IF jobs = 0 THEN "blocking" ELSE "accept"
  /\ jobs' = IF running /\ jobs > 0 THEN jobs - 1 ELSE jobs
  /\ QueueSame

\* wait() releases the mutex and sleeps in one step.
ThreadSleep ==
  /\ thread = "blocking" /\ thread' = "waiting"
  /\ UNCHANGED jobs /\ QueueSame

\* A condition variable may wake spuriously.
ThreadSpurious ==
  /\ thread = "waiting" /\ thread' = "lock"
  /\ UNCHANGED jobs /\ QueueSame

-----------------------------------------------------------------------------
(* The server thread: keep_listening *)

ListenKeeps == UNCHANGED <<main, running, jobs, slot, listening, restarts>>
ListenSame  == ListenKeeps /\ UNCHANGED handlers

\* A slip: connections are accepted while a request is being processed.
Accept_Anytime(c) ==
  /\ thread \in {"accept", "reader"}
  /\ net[c].server = "backlog"
  /\ net' = [net EXCEPT ![c].server = "open"]
  /\ clientSocket' = c /\ thread' = IF thread = "accept" THEN "recv" ELSE thread
  /\ UNCHANGED <<chunk, cards, exit, historyVars>> /\ ListenSame

\* accept(): the oldest connection of the backlog.
Accept(c) ==
  /\ thread = "accept"
  /\ net[c].server = "backlog"
  /\ \A d \in Conn : d < c => net[d].server # "backlog"
  /\ net' = [net EXCEPT ![c].server = "open"]
  /\ clientSocket' = c /\ thread' = "recv"
  /\ UNCHANGED <<chunk, cards, exit, historyVars>> /\ ListenSame

AcceptFails == thread = "accept" /\ EndProcess("exit1")

\* recv(): any non-empty part of what the client has sent so far.
Recv ==
  /\ thread = "recv"
  /\ \E n \in 1 .. Len(net[clientSocket].up) :
       /\ chunk' = First(net[clientSocket].up, n)
       /\ net' = [net EXCEPT ![clientSocket] = ServerTook(@, n)]
  /\ thread' = "dispatch"
  /\ UNCHANGED <<clientSocket, cards, exit, historyVars>> /\ ListenSame

\* A slip: a recv() that fails is tried again.
RecvEnds_EofOnly ==
  /\ thread = "recv"
  /\ ServerAtEof(net[clientSocket])
  /\ thread' = "close"
  /\ UNCHANGED <<clientSocket, chunk, cards, exit, net, historyVars>> /\ ListenSame

\* recv() returns 0 or -1: leave the loop.
RecvEnds ==
  /\ thread = "recv"
  /\ ServerAtEof(net[clientSocket]) \/ ServerAtReset(net[clientSocket])
  /\ thread' = "close"
  /\ UNCHANGED <<clientSocket, chunk, cards, exit, net, historyVars>> /\ ListenSame

\* A slip: only a connection at its end is closed, not a reset one.
CloseClient_EofOnly ==
  /\ thread = "close" /\ thread' = "accept"
  /\ net' = IF ServerAtEof(net[clientSocket])
            THEN [net EXCEPT ![clientSocket] = ServerClosed(@)] ELSE net
  /\ UNCHANGED <<clientSocket, chunk, cards, exit, historyVars>> /\ ListenSame

\* close(clientSocket), whose number the member keeps.
CloseClient ==
  /\ thread = "close" /\ thread' = "accept"
  /\ net' = [net EXCEPT ![clientSocket] = ServerClosed(@)]
  /\ UNCHANGED <<clientSocket, chunk, cards, exit, historyVars>> /\ ListenSame

\* process_req_data: the text up to the first colon of the whole buffer names
\* the request, so that only a WRITE, which has a colon, survives having
\* another request behind it in the buffer.
TypeOf(reqs) ==
  IF Len(reqs) = 1 \/ Kind[Head(reqs)] = "WRITE" THEN Kind[Head(reqs)]
                                                 ELSE "OTHER"

IsCardRequest(reqs) == TypeOf(reqs) \in {"CARD", "WRITE"}
Requests(reqs) == {reqs[i] : i \in DOMAIN reqs}

\* The buffers that the client needs for the answer to reqs.
Reply(reqs) ==
  IF Len(reqs) = 1 /\ Head(reqs) \in Long
  THEN << [for |-> reqs, more |-> TRUE], [for |-> reqs, more |-> FALSE] >>
  ELSE << [for |-> reqs, more |-> FALSE] >>

\* A slip: one request per connection.
Send_ThenClose(next) ==
  /\ net' = [net EXCEPT ![clientSocket] = ServerSent(@, Reply(chunk))]
  /\ answered' = (answered \cup Requests(chunk))
  /\ thread' = "close"
  /\ UNCHANGED <<clientSocket, exit, asker>> /\ ListenKeeps

\* on_data_received: send() to clientSocket, without MSG_NOSIGNAL.  It reaches
\* the client, or is lost: the peer is gone, and its reset may be known.
Send(next) ==
  /\ net' = [net EXCEPT ![clientSocket] = ServerSent(@, Reply(chunk))]
  /\ answered' = (answered \cup Requests(chunk))
  /\ thread' = next
  /\ UNCHANGED <<clientSocket, exit, asker>> /\ ListenKeeps

\* A second send() to a peer that is gone raises SIGPIPE, which nobody ignores.
Sigpipe == net[clientSocket].serverRst /\ EndProcess("SIGPIPE")

\* A request is over.  One of several in a buffer was taken for an unknown one,
\* or has the others' text behind its data: it is not carried out.
Over ==
  IF Len(chunk) = 1
  THEN done' = done \cup Requests(chunk) /\ UNCHANGED dropped
  ELSE dropped' = dropped \cup Requests(chunk) /\ UNCHANGED done

\* PING and unknown requests are answered at once.
DispatchAnswer ==
  /\ thread = "dispatch" /\ ~IsCardRequest(chunk)
  /\ \/ Send("recv") /\ Over /\ UNCHANGED <<chunk, cards, handlers>>
     \/ Sigpipe

\* A slip: the request ends when no card is there.
DispatchCard_NoWait ==
  /\ thread = "dispatch" /\ IsCardRequest(chunk) /\ slot
  /\ thread' = "again" /\ cards' = 0
  /\ UNCHANGED <<clientSocket, chunk, exit, net, historyVars>> /\ ListenSame

\* signal_card_reader.emit() calls on_signal_received ...
DispatchCard ==
  /\ thread = "dispatch" /\ IsCardRequest(chunk) /\ slot
  /\ thread' = "reader" /\ cards' = 0
  /\ UNCHANGED <<clientSocket, chunk, exit, net, historyVars>> /\ ListenSame

\* ... or nobody, while the constructor has not connected it.
DispatchLost ==
  /\ thread = "dispatch" /\ IsCardRequest(chunk) /\ ~slot
  /\ thread' = "recv" /\ dropped' = dropped \cup Requests(chunk)
  /\ UNCHANGED <<clientSocket, chunk, cards, exit, net, asker, done, answered>>
  /\ ListenSame

\* handle_signal() assigns signal_handler.  Once its destructor has run, only the
\* nodes that it had before matter.
Handled == handlers' = IF main = "return" THEN "set" ELSE handlers

\* A card was found and handled, and its answer is emitted.
CardAnswers ==
  /\ thread = "reader"
  /\ \/ /\ cards < MaxCards /\ cards' = cards + 1
        /\ Send("again") /\ UNCHANGED <<chunk, done, dropped>> /\ Handled
     \/ Sigpipe

\* A card was found and handled, with an empty answer: nothing is emitted.
CardBlank ==
  /\ thread = "reader" /\ Head(chunk) \in Blank
  /\ cards < MaxCards /\ cards' = cards + 1
  /\ thread' = "again"
  /\ UNCHANGED <<clientSocket, chunk, exit, net, historyVars>>
  /\ Handled /\ ListenKeeps

\* Beyond the bound the loop goes on, but its answers are not recorded.
CardUncounted ==
  /\ thread = "reader" /\ cards = MaxCards
  /\ thread' = "again"
  /\ UNCHANGED <<clientSocket, chunk, cards, exit, net, historyVars>>
  /\ Handled /\ ListenKeeps

\* Assigning a map whose nodes were freed crashes, or does not (the steps above).
HandlerCrashes ==
  /\ thread = "reader" /\ handlers = "freed"
  /\ EndProcess("SIGSEGV")

\* The inner loop of on_signal_received finds a card again: another one, or the
\* one just handled, if it answers REQA once more ...
NextCard ==
  /\ thread = "again" /\ thread' = "reader"
  /\ UNCHANGED <<clientSocket, chunk, cards, exit, net, historyVars>> /\ ListenSame

\* ... or none, and the request is over.
ReaderReturns ==
  /\ thread = "again" /\ thread' = "recv" /\ Over
  /\ UNCHANGED <<clientSocket, chunk, cards, exit, net, asker, answered>>
  /\ ListenSame

-----------------------------------------------------------------------------
(* The clients and systemd *)

ClientSame == UNCHANGED <<processVars, exit, restarts, done, dropped, answered>>

\* Connections are numbered in the order in which they are made.
ClientConnects(c) ==
  /\ \A d \in Conn : d >= c => net[d] = Unused
  /\ listening
  /\ Cardinality({d \in Conn : net[d].server = "backlog"}) <= Backlog
  /\ net' = [net EXCEPT ![c] = Connected(@)]
  /\ UNCHANGED asker /\ ClientSame

ClientSends(c, r) ==
  /\ net[c].client = "open" /\ asker[r] = NoConn
  /\ net' = [net EXCEPT ![c] = ClientSent(@, r)]
  /\ asker' = [asker EXCEPT ![r] = c]
  /\ ClientSame

\* What recv() of the first n buffers leaves.
Read(k, n) == [k EXCEPT !.down = SubSeq(@, n + 1, Len(@))]

ClientReads(c) ==
  /\ net[c].client = "open"
  /\ \E n \in 1 .. Len(net[c].down) : net' = [net EXCEPT ![c] = Read(@, n)]
  /\ UNCHANGED asker /\ ClientSame

\* A close() that had to wait for a last recv() takes effect with it.
ClientCloses(c) ==
  /\ net[c].client = "open"
  /\ \E n \in 0 .. Len(net[c].down) :
       net' = [net EXCEPT ![c] = ClientClosed(Read(@, n))]
  /\ UNCHANGED asker /\ ClientSame

\* Restart=on-failure: an exit status or SIGKILL is a failure, SIGPIPE is not.
SystemdRestart ==
  /\ exit \in {"exit1", "SIGKILL", "SIGSEGV"} /\ restarts < MaxRestarts
  /\ exit' = "no" /\ restarts' = restarts + 1
  /\ ProcessStart
  /\ UNCHANGED <<net, historyVars>>

-----------------------------------------------------------------------------
MainStep ==
  \/ InitSocketServer \/ InitSocketFails \/ Spawn \/ RunBg \/ RunBgNotify
  \/ PcdInit \/ ConnectSlot \/ Return
  \/ StopNotify \/ StopJoin

\* The search for one more card finds one or not; nothing else bounds the loop.
SearchStep == NextCard \/ ReaderReturns

ListenStep ==
  \/ \E c \in Conn : Accept(c)
  \/ Recv \/ RecvEnds \/ CloseClient
  \/ DispatchAnswer \/ DispatchCard \/ DispatchLost \/ SearchStep

\* Steps that need a card to be presented.
CardStep == CardAnswers \/ CardBlank \/ CardUncounted \/ HandlerCrashes

TakeStep == ThreadLoop \/ ThreadCheck \/ ThreadSleep

ClientStep ==
  \E c \in Conn : \/ ClientConnects(c) \/ ClientReads(c) \/ ClientCloses(c)
                  \/ \E r \in Req : ClientSends(c, r)

Next == \/ MainStep \/ TakeStep \/ ThreadSpurious \/ ListenStep \/ CardStep
        \/ AcceptFails \/ ClientStep \/ SystemdRestart

Spec == Init /\ [][Next]_vars

\* The operating system schedules both threads, and a mutex that is free again
\* and again is acquired (spurious wake-ups do not starve run_bg).  Nobody owes
\* a client or a card.
FairSpec ==
  /\ Spec
  /\ WF_vars(MainStep) /\ WF_vars(TakeStep) /\ WF_vars(ListenStep)
  /\ SF_vars(RunBg)

\* Moreover somebody presents a card whenever the reader waits for one, and takes
\* cards away: of the searches that follow, one finds none.  Where two cards lie on
\* the reader, or one that answers REQA after it was handled, none ever does.
CardSpec == FairSpec /\ WF_vars(CardStep) /\ SF_vars(ReaderReturns)

-----------------------------------------------------------------------------
(* Properties *)

\* An answer only ever travels on the connection its request came from: the
\* member clientSocket still names it when on_data_received sends, however long
\* the card took and whoever connected meanwhile.
AnswersOnlyToAsker ==
  \A c \in Conn : \A i \in DOMAIN net[c].down :
    \A r \in Requests(net[c].down[i].for) : asker[r] = c

\* keep_listening closes what it accepted before it accepts again: no accepted
\* connection is forgotten open, neither after an end nor after a reset.
OneAccepted == \A c \in Conn : net[c].server = "open" => c = clientSocket

\* The service stays up although main() returns at once: the destructor's join
\* is never passed, so that its kill -9 is never reached.
ServesForever == thread # "exited" /\ exit # "SIGKILL"

\* A request that is carried out is answered before the next one is read, unless
\* a card was blank.
AnsweredBeforeNext == [][(done' \ done) \ Blank \subseteq answered']_vars

\* With cards presented and taken away, and if clients hang up some time, a client
\* that waits in the backlog behind others is accepted, unless the process ends.
ClientsHangUp == \A c \in Conn : (net[c].client = "open") ~> (net[c].client # "open")
BacklogServed ==
  ClientsHangUp =>
    \A c \in Conn : (net[c].server = "backlog") ~> (net[c].server # "backlog")
=============================================================================
