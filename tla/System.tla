------------------------------- MODULE System -------------------------------
(***************************************************************************)
(* The GUI's client and the reader service together: the actions of modules *)
(* NetworkClient and NetworkServer over the connections they share.  Each   *)
(* of the two modules has the other side as an environment that may do      *)
(* anything a peer does; here neither is one, and both environments are     *)
(* shown to allow what the other program does.                              *)
(***************************************************************************)
EXTENDS Naturals, Sequences, FiniteSets, Tcp

CONSTANTS
  MaxJobs, MaxConns, MaxFd, LongJobs, NoFd,     \* see NetworkClient
  Kind, Backlog, MaxCards, Blank, MaxRestarts,  \* see NetworkServer
  NoConn

VARIABLES
  gui, clientRunning, worker, queue, submitted, socketFd, fdtab, job, jobFd,
  rconn, shown,                                 \* see NetworkClient
  main, thread, serverRunning, jobs, slot, listening, serving, chunk, cards,
  handlers, exit, restarts,                     \* see NetworkServer
  net,
  asker, done, dropped, answered,               \* history, NetworkServer
  repeats, crashes, calm                        \* history, NetworkClient

clientVars == <<gui, clientRunning, worker, queue, submitted, socketFd, fdtab,
                job, jobFd, rconn, shown>>
serverVars == <<main, thread, serverRunning, jobs, slot, listening, serving,
                chunk, cards, handlers, exit, restarts, done, dropped, answered>>
vars == <<clientVars, serverVars, net, asker, repeats, crashes, calm>>

Job  == 1 .. MaxJobs
Conn == 1 .. MaxConns

ASSUME SystemBounds ==
  /\ MaxJobs \in Nat /\ MaxConns \in Nat /\ MaxFd \in Nat
  /\ Backlog \in Nat \ {0} /\ MaxCards \in Nat \ {0} /\ MaxRestarts \in Nat
  /\ LongJobs \subseteq Job
  /\ Kind \in [Job -> {"PING", "CARD", "WRITE", "OTHER"}]
  /\ Blank \subseteq {r \in Job : Kind[r] = "CARD"}
  /\ NoConn \notin Conn /\ NoFd \notin 1 .. MaxFd

Server == INSTANCE NetworkServer WITH
            Req <- Job, Long <- LongJobs,
            running <- serverRunning, clientSocket <- serving

\* The requests that the service is working on, as the client's peer.
Asked == IF thread \in {"dispatch", "reader", "again"} THEN chunk ELSE <<>>

\* The service has sent an answer to them.
Replied == Asked # <<>> /\ Server!Requests(chunk) \subseteq answered

Client == INSTANCE NetworkClient WITH
            MaxRepeats <- MaxJobs * MaxCards, MaxCrashes <- MaxRestarts + 1,
            running <- clientRunning, clientSocket <- socketFd,
            serverUp <- listening, asked <- Asked, replied <- Replied

\* Both processes are started; the service may be much slower.
Init ==
  /\ gui = "startSocket" /\ clientRunning = FALSE /\ worker = "unborn"
  /\ queue = <<>> /\ submitted = 0
  /\ socketFd = NoFd /\ fdtab = [f \in 1 .. MaxFd |-> NoConn]
  /\ job = 0 /\ jobFd = NoFd /\ rconn = NoConn /\ shown = <<>>
  /\ repeats = 0 /\ crashes = 0 /\ calm = TRUE
  /\ Server!Init

-----------------------------------------------------------------------------
\* connect() succeeds only while the service's backlog has room; with none left it
\* waits, and may time out.
HasRoom == Cardinality({c \in Conn : net[c].server = "backlog"}) <= Backlog
Admitted == \A c \in Conn : net[c].server = "none" => net'[c].server = "none" \/ HasRoom

\* A step of the client; a request is asked on the connection it is sent on.
ClientMoves(step) ==
  /\ UNCHANGED serverVars
  /\ step /\ Admitted
  /\ asker' = IF worker = "send" /\ worker' = "sent"
              THEN [asker EXCEPT ![job] = Client!Behind(jobFd)] ELSE asker

\* A step of the service.
Crashed == listening /\ ~listening'

ServerMoves(step) ==
  /\ step
  /\ UNCHANGED clientVars
  /\ repeats' = repeats
  /\ crashes' = IF Crashed THEN crashes + 1 ELSE crashes
  /\ calm' = (calm /\ ~Crashed)

\* One more answer to a request that has had one.
ServerRepeats ==
  /\ Replied /\ Server!CardAnswers /\ exit' = "no"
  /\ UNCHANGED clientVars
  /\ repeats' = repeats + 1 /\ calm' = FALSE /\ UNCHANGED crashes

CardStep ==
  \/ ServerMoves(Server!CardAnswers /\ (Replied => exit' # "no"))
  \/ ServerMoves(Server!CardBlank)
  \/ ServerMoves(Server!CardUncounted)
  \/ ServerMoves(Server!HandlerCrashes)
  \/ ServerRepeats

GuiStep    == ClientMoves(Client!GuiStep)
UserStep   == ClientMoves(Client!UserStep)
WorkerStep == ClientMoves(Client!WorkerStep)
MainStep   == ServerMoves(Server!MainStep)
ThreadStep == \/ ServerMoves(Server!TakeStep) \/ ServerMoves(Server!ListenStep)
              \/ CardStep

Next ==
  \/ GuiStep \/ UserStep \/ WorkerStep \/ ClientMoves(Client!WorkerSpurious)
  \/ MainStep \/ ThreadStep
  \/ ServerMoves(Server!ThreadSpurious)
  \/ ServerMoves(Server!AcceptFails)
  \/ ServerMoves(Server!SystemdRestart)

Spec == Init /\ [][Next]_vars

\* The kernel schedules the server thread, and somebody presents a card whenever
\* the reader waits for one, and takes cards away, see NetworkServer.  The client
\* and the service's main thread owe nothing: they may stop anywhere.
FairSpec ==
  /\ Spec
  /\ WF_vars(ThreadStep) /\ SF_vars(ServerMoves(Server!ReaderReturns))

-----------------------------------------------------------------------------
(* Properties *)

\* Every variable holds a value of its type in both modules.
TypeOK == Client!TypeOK /\ Server!TypeOK

\* Whatever the service does, its peer's model in NetworkClient allows: what
\* is shown of the client against that peer holds against this service.
ServerIsPeer == Client!Spec

\* The connections the service knows of: a socket that was never connected does
\* not exist for it.
Visible == [c \in Conn |-> IF net[c].server = "none" THEN Unused ELSE net[c]]

AsServed == INSTANCE NetworkServer WITH
              Req <- Job, Long <- LongJobs, net <- Visible,
              running <- serverRunning, clientSocket <- serving

\* Whatever the client does, the clients' model in NetworkServer allows.
ClientIsClient == AsServed!Spec

\* The client waits for an answer before it sends again: as long as it has not
\* stopped waiting for one, the service never reads two requests in one buffer,
\* which it would take for one that it does not know.
NeverMergedWhileCalm == calm => Len(chunk) <= 1

\* Commands are carried out in the order in which the user gave them, over
\* reconnections too: a request of the connection that was replaced is carried
\* out before, or never.
CarriedOutInOrder ==
  [][\A r \in done' \ done : \A q \in done : q < r]_vars

\* A request that was sent, once the slot for requests is connected, is carried out
\* even if the client stops waiting for it, reconnects or ends: nothing takes a
\* command back.  Unless the service dies, or the client, which has given up a
\* wait, sends the next one so early that both are read as one.
Outstanding(r) == asker[r] # NoConn /\ r \notin done
SentIsCarriedOut ==
  \A r \in Job : (Outstanding(r) /\ r \notin dropped /\ slot) ~>
                  (r \in done \/ exit # "no" \/ (r \in dropped /\ ~calm))
=============================================================================
