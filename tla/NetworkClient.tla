---------------------------- MODULE NetworkClient ----------------------------
(***************************************************************************)
(* The GUI's network client (src/interface/NetworkClient.cc): the GTK thread*)
(* queues jobs, checks the connection and finally stops the client; one     *)
(* worker thread takes the jobs one at a time, sends each and waits up to   *)
(* ten seconds for one answer.  The two threads share the job queue (under  *)
(* job_queue_mutex), and, with no lock at all, network_thread_running and   *)
(* the descriptor number clientSocket.                                      *)
(*                                                                          *)
(* The peer (the reader service) is an environment here: it accepts         *)
(* connections one after the other, answers what a recv() returned, at once *)
(* or later, once, twice or not at all, or dies.  Module System shows that  *)
(* the service of module NetworkServer is such a peer.                      *)
(***************************************************************************)
EXTENDS Integers, Sequences, Tcp

CONSTANTS
  MaxJobs,    \* bound: how many requests the user submits
  MaxConns,   \* bound: how many times a socket is created
  MaxFd,      \* bound: descriptor numbers the process uses for sockets
  LongJobs,   \* the jobs whose answer (a card dump) overflows one recv buffer
  MaxRepeats, \* bound: surplus answers of the peer
  MaxCrashes, \* bound: deaths of the peer
  NoConn,     \* no connection behind a descriptor
  NoFd        \* clientSocket = -1

Job  == 1 .. MaxJobs
Conn == 1 .. MaxConns
Fd   == 1 .. MaxFd

ASSUME ClientBounds ==
  /\ MaxJobs \in Nat /\ MaxConns \in Nat /\ MaxFd \in Nat
  /\ MaxRepeats \in Nat /\ MaxCrashes \in Nat
  /\ LongJobs \subseteq Job
  /\ NoConn \notin Conn /\ NoFd \notin Fd

\* One buffer full of answer: the jobs it answers (several when the peer read
\* several requests at once) and whether the rest of the answer follows.
Answer == [for : Seq(Job), more : BOOLEAN]

VARIABLES
  gui,          \* where the GTK thread is
  running,      \* network_thread_running
  worker,       \* where the worker thread is
  queue,        \* job_queue
  submitted,    \* how many jobs were submitted: job n is the n-th
  clientSocket, \* the descriptor number, open or not
  fdtab,        \* the process' descriptors: the connection behind each
  job, jobFd,   \* the job being executed and the descriptor it was given
  rconn,        \* the connection the worker's recv() blocks on
  shown,        \* what signal_data_received emitted, and for which job
  net,          \* the connections
  serverUp, repeats, crashes,  \* the peer process
  asked, replied, \* what the peer's last recv() returned, and whether answered
  calm          \* history: nothing yet that can shift answers to later jobs

threadVars == <<gui, running, worker, queue, submitted, job, jobFd, rconn>>
fdVars     == <<clientSocket, fdtab>>
askVars    == <<asked, replied>>
peerVars   == <<serverUp, repeats, crashes, askVars>>
vars == <<threadVars, fdVars, shown, net, peerVars, calm>>

GuiAt == {"startSocket", "startConnect", "idle", "pushed", "testSocket",
          "testConnect", "stopNotify", "join", "close", "stopped", "killed"}
WorkerAt == {"unborn", "loop", "lock", "blocking", "waiting", "took", "send",
             "sent", "receiving", "done", "killed"}

\* Every variable holds a value of its type.
TypeOK ==
  /\ gui \in GuiAt /\ worker \in WorkerAt
  /\ running \in BOOLEAN /\ calm \in BOOLEAN
  /\ queue \in Seq(Job) /\ submitted \in 0 .. MaxJobs
  /\ clientSocket \in Fd \cup {NoFd}
  /\ fdtab \in [Fd -> Conn \cup {NoConn}]
  /\ job \in Job \cup {0} /\ jobFd \in Fd \cup {NoFd}
  /\ rconn \in Conn \cup {NoConn}
  /\ shown \in Seq([job : Job, got : Seq(Answer)])
  /\ net \in [Conn -> Connection(Job, Answer)]
  /\ serverUp \in BOOLEAN
  /\ repeats \in 0 .. MaxRepeats /\ crashes \in 0 .. MaxCrashes
  /\ asked \in Seq(Job) /\ replied \in BOOLEAN

\* The GTK thread is inside the constructor's start().
Init ==
  /\ gui = "startSocket" /\ running = FALSE /\ worker = "unborn"
  /\ queue = <<>> /\ submitted = 0
  /\ clientSocket = NoFd /\ fdtab = [f \in Fd |-> NoConn]
  /\ job = 0 /\ jobFd = NoFd /\ rconn = NoConn
  /\ shown = <<>>
  /\ net = [c \in Conn |-> Unused]
  /\ serverUp \in BOOLEAN /\ repeats = 0 /\ crashes = 0
  /\ asked = <<>> /\ replied = FALSE
  /\ calm = TRUE

-----------------------------------------------------------------------------
(* Descriptors *)

\* The connection a system call on descriptor number f reaches, if any.
Behind(f) == IF f \in Fd THEN fdtab[f] ELSE NoConn

\* The kernel gives out the lowest free number.
LowestFree(f) == fdtab[f] = NoConn /\ \A g \in Fd : g < f => fdtab[g] # NoConn

\* close() ends a connection unless the worker's recv() still refers to it.
NetAfterClose(f) ==
  LET c == Behind(f) IN
  IF c = NoConn \/ (worker = "receiving" /\ rconn = c) THEN net
  ELSE [net EXCEPT ![c] = ClientClosed(@)]

\* Slips: the socket is not closed, or the table holds the wrong sentinel.
FdtabAfterClose_Forgotten(f) == fdtab
FdtabAfterClose_Sentinel(f) ==
  IF f \in Fd THEN [fdtab EXCEPT ![f] = NoFd] ELSE fdtab

FdtabAfterClose(f) == IF f \in Fd THEN [fdtab EXCEPT ![f] = NoConn] ELSE fdtab

\* socket(): a new descriptor, stored in clientSocket while not yet connected.
NewSocket ==
  \E f \in Fd, c \in Conn :
    /\ LowestFree(f)
    /\ net[c] = Unused /\ \A d \in Conn : d < c => net[d] # Unused
    /\ fdtab' = [fdtab EXCEPT ![f] = c]
    /\ clientSocket' = f
    /\ net' = [net EXCEPT ![c].client = "new"]

\* setsockopt() and connect() succeed, or either fails and the descriptor is
\* closed while clientSocket keeps its number.
ConnectSocket ==
  \/ /\ serverUp
     /\ net' = [net EXCEPT ![Behind(clientSocket)] = Connected(@)]
     /\ UNCHANGED fdtab
  \/ /\ net' = NetAfterClose(clientSocket)
     /\ fdtab' = FdtabAfterClose(clientSocket)

-----------------------------------------------------------------------------
(* The GTK thread *)

GuiSame == UNCHANGED <<submitted, job, jobFd, rconn, shown, peerVars>>

\* start(): init_socket().
StartSocket ==
  /\ gui = "startSocket"
  /\ NewSocket /\ gui' = "startConnect"
  /\ UNCHANGED <<running, worker, queue, calm>> /\ GuiSame

\* start(): socket() fails; the worker is spawned all the same.
StartSocketFails ==
  /\ gui = "startSocket"
  /\ gui' = "idle" /\ running' = TRUE /\ worker' = "loop"
  /\ UNCHANGED <<queue, fdVars, net, calm>> /\ GuiSame

\* start(): the result of init_socket() is ignored, the worker is spawned.
StartConnect ==
  /\ gui = "startConnect"
  /\ ConnectSocket
  /\ gui' = "idle" /\ running' = TRUE /\ worker' = "loop"
  /\ UNCHANGED <<queue, clientSocket, calm>> /\ GuiSame

\* A slip: the job is pushed without the lock.
MutexFree_Ignored == TRUE

\* A worker that evaluated the wait's predicate holds the mutex until it sleeps.
MutexFree == worker # "blocking"

\* socket_send(): push a job under the lock, unlock ...
SocketSend ==
  /\ gui = "idle" /\ submitted < MaxJobs
  /\ MutexFree
  /\ submitted' = submitted + 1
  /\ queue' = Append(queue, submitted')
  /\ gui' = "pushed"
  /\ UNCHANGED <<running, worker, job, jobFd, rconn, fdVars, shown, net,
                 peerVars, calm>>

\* notify_one() reaches a worker that sleeps, and nobody else.
Woken == IF worker = "waiting" THEN "lock" ELSE worker

\* ... and notify_one().
SocketSendNotify ==
  /\ gui = "pushed" /\ gui' = "idle"
  /\ worker' = Woken
  /\ UNCHANGED <<running, queue, fdVars, net, calm>> /\ GuiSame

\* test_socket(): close whatever clientSocket names ...
TestSocketClose ==
  /\ gui = "idle"
  /\ \E c \in Conn : net[c] = Unused
  /\ net' = NetAfterClose(clientSocket)
  /\ fdtab' = FdtabAfterClose(clientSocket)
  /\ gui' = "testSocket" /\ calm' = FALSE
  /\ UNCHANGED <<running, worker, queue, clientSocket>> /\ GuiSame

\* ... socket() ...
TestSocketNew ==
  /\ gui = "testSocket"
  /\ NewSocket /\ gui' = "testConnect"
  /\ UNCHANGED <<running, worker, queue, calm>> /\ GuiSame

\* ... or socket() fails, which leaves -1 in clientSocket ...
TestSocketFails ==
  /\ gui = "testSocket" /\ gui' = "idle"
  /\ clientSocket' = NoFd
  /\ UNCHANGED <<running, worker, queue, fdtab, net, calm>> /\ GuiSame

\* ... connect().
TestSocketConnect ==
  /\ gui = "testConnect" /\ gui' = "idle"
  /\ ConnectSocket
  /\ UNCHANGED <<running, worker, queue, clientSocket, calm>> /\ GuiSame

\* stop(): clear the flag without the mutex ...
StopClearFlag ==
  /\ gui = "idle" /\ gui' = "stopNotify"
  /\ running' = FALSE
  /\ UNCHANGED <<worker, queue, fdVars, net, calm>> /\ GuiSame

\* ... notify ...
StopNotify ==
  /\ gui = "stopNotify" /\ gui' = "join"
  /\ worker' = Woken
  /\ UNCHANGED <<running, queue, fdVars, net, calm>> /\ GuiSame

\* ... join the worker ...
StopJoin ==
  /\ gui = "join" /\ worker = "done" /\ gui' = "close"
  /\ UNCHANGED <<running, worker, queue, fdVars, net, calm>> /\ GuiSame

\* ... close the socket.
StopClose ==
  /\ gui = "close" /\ gui' = "stopped"
  /\ net' = NetAfterClose(clientSocket)
  /\ fdtab' = FdtabAfterClose(clientSocket)
  /\ UNCHANGED <<running, worker, queue, clientSocket, calm>> /\ GuiSame

-----------------------------------------------------------------------------
(* The worker thread *)

WorkerSame == UNCHANGED <<gui, running, submitted, fdVars, peerVars>>

\* while (network_thread_running)
WorkerLoop ==
  /\ worker = "loop"
  /\ worker' = IF running THEN "lock" ELSE "done"
  /\ UNCHANGED <<queue, job, jobFd, rconn, shown, net, calm>> /\ WorkerSame

\* The wait's predicate, under the mutex: nothing to do yet.
WorkerEmpty ==
  /\ worker = "lock"
  /\ running /\ queue = <<>>
  /\ worker' = "blocking"
  /\ UNCHANGED <<queue, job, jobFd, rconn, shown, net, calm>> /\ WorkerSame

\* wait() releases the mutex and sleeps in one step.
WorkerSleep ==
  /\ worker = "blocking" /\ worker' = "waiting"
  /\ UNCHANGED <<queue, job, jobFd, rconn, shown, net, calm>> /\ WorkerSame

\* A condition variable may wake spuriously.
WorkerSpurious ==
  /\ worker = "waiting" /\ worker' = "lock"
  /\ UNCHANGED <<queue, job, jobFd, rconn, shown, net, calm>> /\ WorkerSame

\* The predicate holds because the client is stopping.
WorkerBreak ==
  /\ worker = "lock" /\ ~running /\ worker' = "done"
  /\ UNCHANGED <<queue, job, jobFd, rconn, shown, net, calm>> /\ WorkerSame

\* A slip: the newest job is taken.
WorkerTake_Newest ==
  /\ worker = "lock" /\ running /\ queue # <<>>
  /\ job' = queue[Len(queue)] /\ queue' = First(queue, Len(queue) - 1)
  /\ worker' = "took"
  /\ UNCHANGED <<jobFd, rconn, shown, net, calm>> /\ WorkerSame

\* The predicate holds because there is a job: take it, release the mutex.
WorkerTake ==
  /\ worker = "lock" /\ running /\ queue # <<>>
  /\ job' = Head(queue) /\ queue' = Tail(queue)
  /\ worker' = "took"
  /\ UNCHANGED <<jobFd, rconn, shown, net, calm>> /\ WorkerSame

\* job(clientSocket): the argument is evaluated after the mutex is released.
WorkerCall ==
  /\ worker = "took" /\ worker' = "send"
  /\ jobFd' = clientSocket
  /\ UNCHANGED <<queue, job, rconn, shown, net, calm>> /\ WorkerSame

\* send() on the descriptor number the job was given.
WorkerSend ==
  LET c == Behind(jobFd) IN
  /\ worker = "send"
  /\ c # NoConn /\ net[c].client = "open" /\ ~net[c].clientRst
  /\ net' = [net EXCEPT ![c] = ClientSent(@, job)]
  /\ worker' = "sent"
  /\ UNCHANGED <<queue, job, jobFd, rconn, shown, calm>> /\ WorkerSame

\* send() returns -1: nothing is behind the number, or a reset is reported.
WorkerSendError ==
  LET c == Behind(jobFd) IN
  /\ worker = "send"
  /\ c # NoConn => net[c].clientRst
  /\ worker' = "loop"
  /\ UNCHANGED <<queue, job, jobFd, rconn, shown, net, calm>> /\ WorkerSame

\* send() on a socket that is not connected (test_socket() is between socket()
\* and connect()) or that was reset raises SIGPIPE, which nobody ignores.
WorkerSigpipe ==
  LET c == Behind(jobFd) IN
  /\ worker = "send"
  /\ c # NoConn /\ (net[c].client = "new" \/ net[c].clientRst)
  /\ worker' = "killed" /\ gui' = "killed"
  /\ net' = [d \in Conn |-> IF net[d].client \in {"new", "open"}
                            THEN ClientClosed(net[d]) ELSE net[d]]
  /\ fdtab' = [f \in Fd |-> NoConn]
  /\ UNCHANGED <<running, queue, submitted, job, jobFd, rconn, clientSocket,
                 shown, peerVars, calm>>

\* A slip: the worker does not wait for an answer.
WorkerRecv_Skipped ==
  /\ worker = "sent" /\ worker' = "loop"
  /\ UNCHANGED <<queue, job, jobFd, rconn, shown, net, calm>> /\ WorkerSame

\* recv_bg_listener() reads the member clientSocket, not the job's descriptor.
WorkerRecv ==
  LET c == Behind(clientSocket) IN
  /\ worker = "sent"
  /\ IF c # NoConn /\ net[c].client = "open"
     THEN worker' = "receiving" /\ rconn' = c
     ELSE worker' = "loop" /\ UNCHANGED rconn
  /\ UNCHANGED <<queue, job, jobFd, shown, net, calm>> /\ WorkerSame

\* recv() returns: a connection closed meanwhile is closed for good only now.
Returned(k) == IF \E f \in Fd : fdtab[f] = rconn THEN k ELSE ClientClosed(k)

\* A slip: recv() is called with MSG_PEEK.
Rest_Peeked(k, n) == k

\* What recv() of the first n messages leaves on the connection.
Rest(k, n) == [k EXCEPT !.down = SubSeq(@, n + 1, Len(@))]

\* recv() returns one buffer: the first n messages, none but the last of them
\* filling the buffer.
WorkerReceive ==
  /\ worker = "receiving"
  /\ \E n \in 1 .. Len(net[rconn].down) :
       LET got == First(net[rconn].down, n) IN
       /\ \A i \in 1 .. n - 1 : ~got[i].more
       /\ net' = [net EXCEPT ![rconn] = Returned(Rest(@, n))]
       /\ shown' = Append(shown, [job |-> job, got |-> got])
       /\ calm' = (calm /\ ~got[n].more)
  /\ worker' = "loop" /\ rconn' = NoConn
  /\ UNCHANGED <<queue, job, jobFd>> /\ WorkerSame

\* recv() returns 0: an empty string is emitted.
WorkerEof ==
  /\ worker = "receiving" /\ ClientAtEof(net[rconn])
  /\ net' = [net EXCEPT ![rconn] = Returned(@)]
  /\ shown' = Append(shown, [job |-> job, got |-> <<>>])
  /\ worker' = "loop" /\ rconn' = NoConn
  /\ UNCHANGED <<queue, job, jobFd, calm>> /\ WorkerSame

\* A slip: the socket has no SO_RCVTIMEO.
WorkerRecvError_NoTimeout ==
  /\ worker = "receiving" /\ net[rconn].down = <<>> /\ net[rconn].clientRst
  /\ net' = [net EXCEPT ![rconn] = Returned(@)]
  /\ worker' = "loop" /\ rconn' = NoConn /\ calm' = FALSE
  /\ UNCHANGED <<queue, job, jobFd, shown>> /\ WorkerSame

\* A slip: a request that timed out is sent again.
WorkerRecvError_Resend ==
  /\ worker = "receiving" /\ net[rconn].down = <<>>
  /\ net' = [net EXCEPT ![rconn] = Returned(@)]
  /\ worker' = "send" /\ rconn' = NoConn /\ calm' = FALSE
  /\ UNCHANGED <<queue, job, jobFd, shown>> /\ WorkerSame

\* recv() returns -1 after a reset, or after SO_RCVTIMEO: ten seconds without
\* an answer.
WorkerRecvError ==
  /\ worker = "receiving" /\ net[rconn].down = <<>>
  /\ net' = [net EXCEPT ![rconn] = Returned(@)]
  /\ worker' = "loop" /\ rconn' = NoConn /\ calm' = FALSE
  /\ UNCHANGED <<queue, job, jobFd, shown>> /\ WorkerSame

-----------------------------------------------------------------------------
(* The peer: NetworkServer::keep_listening as the client sees it *)

PeerSame == UNCHANGED <<threadVars, fdVars, shown>>

\* accept(): one connection at a time, the oldest first.
PeerAccept(c) ==
  /\ serverUp /\ net[c].server = "backlog"
  /\ \A d \in Conn : net[d].server # "open" /\ (d < c => net[d].server # "backlog")
  /\ net' = [net EXCEPT ![c].server = "open"]
  /\ UNCHANGED <<peerVars, calm>> /\ PeerSame

\* The buffers the answer to the requests of one recv() fills; several requests
\* in one buffer are taken for one, unknown request.
Reply(reqs) ==
  IF Len(reqs) = 1 /\ Head(reqs) \in LongJobs
  THEN << [for |-> reqs, more |-> TRUE], [for |-> reqs, more |-> FALSE] >>
  ELSE << [for |-> reqs, more |-> FALSE] >>

\* recv(): any part of what was sent, once the last request is done with.
PeerRecv(c) ==
  /\ serverUp /\ net[c].server = "open" /\ asked = <<>>
  /\ \E n \in 1 .. Len(net[c].up) :
       /\ asked' = First(net[c].up, n)
       /\ net' = [net EXCEPT ![c] = ServerTook(@, n)]
  /\ UNCHANGED <<serverUp, repeats, crashes, replied, calm>> /\ PeerSame

\* send() of the answer; the request may go on, on another card.
PeerSends(c) ==
  /\ serverUp /\ net[c].server = "open" /\ asked # <<>>
  /\ net' = [net EXCEPT ![c] = ServerSent(@, Reply(asked))]
  /\ asked' \in {asked, <<>>} /\ replied' = (asked' # <<>>)
  /\ UNCHANGED <<serverUp, crashes>> /\ PeerSame

PeerAnswer(c) == ~replied /\ PeerSends(c) /\ UNCHANGED <<repeats, calm>>

\* The command ran on a second card as well: another answer is sent.
PeerRepeat(c) ==
  /\ replied /\ repeats < MaxRepeats
  /\ PeerSends(c) /\ repeats' = repeats + 1 /\ calm' = FALSE

\* The request is done with, answered or not (see CardReader: empty answers).
PeerDone ==
  /\ asked # <<>> /\ asked' = <<>> /\ replied' = FALSE
  /\ UNCHANGED <<serverUp, repeats, crashes, net, calm>> /\ PeerSame

\* The client hung up and everything it sent was read.
PeerClose(c) ==
  /\ serverUp /\ net[c].server = "open"
  /\ ServerAtEof(net[c]) \/ ServerAtReset(net[c])
  /\ net' = [net EXCEPT ![c] = ServerClosed(@)]
  /\ asked' = <<>> /\ replied' = FALSE
  /\ UNCHANGED <<serverUp, repeats, crashes, calm>> /\ PeerSame

PeerCrash ==
  /\ serverUp /\ crashes < MaxCrashes
  /\ serverUp' = FALSE /\ crashes' = crashes + 1 /\ calm' = FALSE
  /\ net' = [c \in Conn |-> IF net[c].server \in {"backlog", "open"}
                            THEN ServerClosed(net[c]) ELSE net[c]]
  /\ asked' = <<>> /\ replied' = FALSE
  /\ UNCHANGED repeats /\ PeerSame

PeerRestart ==
  /\ ~serverUp /\ serverUp' = TRUE
  /\ UNCHANGED <<repeats, crashes, askVars, net, calm>> /\ PeerSame

-----------------------------------------------------------------------------
\* The steps the GTK thread takes once a handler has begun.
GuiStep ==
  \/ StartSocket \/ StartSocketFails \/ StartConnect \/ SocketSendNotify
  \/ TestSocketNew \/ TestSocketFails \/ TestSocketConnect
  \/ StopNotify \/ StopJoin \/ StopClose

\* What the user makes the GTK thread begin.
UserStep == SocketSend \/ TestSocketClose \/ StopClearFlag

\* The steps of the worker; a spurious wake-up is not one it can count on.
WorkerStep ==
  \/ WorkerLoop \/ WorkerEmpty \/ WorkerSleep \/ WorkerBreak \/ WorkerTake
  \/ WorkerCall \/ WorkerSend \/ WorkerSendError \/ WorkerSigpipe
  \/ WorkerRecv \/ WorkerReceive \/ WorkerEof \/ WorkerRecvError

ClientStep == GuiStep \/ UserStep \/ WorkerStep \/ WorkerSpurious

PeerStep ==
  \/ \E c \in Conn : \/ PeerAccept(c) \/ PeerRecv(c) \/ PeerAnswer(c)
                     \/ PeerRepeat(c) \/ PeerClose(c)
  \/ PeerDone \/ PeerCrash \/ PeerRestart

Next == ClientStep \/ PeerStep

Spec == Init /\ [][Next]_vars

\* The operating system schedules both threads and SO_RCVTIMEO expires; the
\* user and the peer owe nothing.
FairSpec ==
  /\ Spec
  /\ WF_vars(GuiStep)
  /\ WF_vars(WorkerStep)

-----------------------------------------------------------------------------
(* Properties *)

\* There is never a socket that clientSocket does not name: the connection
\* check and a failed connect() close what they replace, and no number leaks.
OneSocket == \A f \in Fd : fdtab[f] # NoConn => f = clientSocket

\* As long as no recv() timed out or left a rest behind, no check of the
\* connection ran and the peer answered once and did not die, what is shown
\* for a job is exactly the answer to that job.
PairedWhileCalm ==
  calm => \A i \in DOMAIN shown :
            shown[i].got = << [for |-> << shown[i].job >>, more |-> FALSE] >>

\* Whatever was lost, delayed or repeated: answers are shown in the order in
\* which the jobs were submitted, and never before the job they answer.
Newest(answer) == answer.for[Len(answer.for)]

ShownInOrder ==
  \A i \in DOMAIN shown : \A a \in DOMAIN shown[i].got :
    /\ Newest(shown[i].got[a]) <= shown[i].job
    /\ \A j \in i + 1 .. Len(shown) : \A b \in DOMAIN shown[j].got :
         Newest(shown[i].got[a]) <= Newest(shown[j].got[b])

\* The client implements the abstract job queue: whatever the connection does,
\* jobs are executed one at a time, in the order of their submission, and none
\* twice.  A job is being executed from its removal until its function returns.
Executing == worker \in {"took", "send", "sent", "receiving"}

Pump == INSTANCE JobPump WITH
          taken   <- submitted - Len(queue),
          current <- IF Executing THEN job ELSE 0

ImplementsPump == Pump!Spec

Killed == gui = "killed"

\* A worker that is executing a job when stop() is called ends, whatever the
\* peer does, and stop() returns.
Busy == worker \in {"loop", "took", "send", "sent", "receiving"}
StopWhileBusyReturns == (gui = "join" /\ Busy) ~> gui \in {"stopped", "killed"}

\* Every job that socket_send() pushes is taken by the worker, unless the client is
\* stopped or killed: the push under the lock and the one notification never miss a
\* worker on its way to sleep, and no wait for an answer lasts for ever.
PushedIsTaken ==
  \A j \in 1 .. MaxJobs :
    (submitted >= j) ~> (submitted - Len(queue) >= j \/ ~running \/ gui = "killed")

\* NetworkClient.cc:190, "Unblock the thread to allow it to exit": once stop()
\* joins the worker, the join returns.
StopReturns == (gui = "join") ~> gui \in {"stopped", "killed"}
=============================================================================
