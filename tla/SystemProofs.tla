---------------------------- MODULE SystemProofs ----------------------------
(***************************************************************************)
(* Proofs about System, for any number of jobs, connections, descriptors,   *)
(* cards and restarts.  Each program is shown to be what the model of the   *)
(* other one takes it for, so that what is proved of either against its     *)
(* environment holds of the two together.                                   *)
(***************************************************************************)
EXTENDS System, SequenceTheorems, FiniteSetTheorems, TLAPS

\* What is proved of the client against any peer, here with the service as it.
CP == INSTANCE NetworkClientProofs WITH
        MaxRepeats <- MaxJobs * MaxCards, MaxCrashes <- MaxRestarts + 1,
        running <- clientRunning, clientSocket <- socketFd,
        serverUp <- listening, asked <- Asked, replied <- Replied

\* What is proved of the service against any clients, here with the one client.
SP == INSTANCE NetworkServerProofs WITH
        Req <- Job, Long <- LongJobs, net <- Visible,
        running <- serverRunning, clientSocket <- serving

Working == thread \in {"dispatch", "reader", "again"}

-----------------------------------------------------------------------------
(* The inductive invariant *)

\* The process: its socket is open from start() to its end, and while the thread
\* serves a connection that connection is open, the service's end of it.
ProcessInv ==
  /\ listening <=> main \notin {"socket", "gone"}
  /\ main = "gone" <=> exit # "no"
  /\ ~listening => \A c \in Conn : net[c].server \notin {"backlog", "open"}
  /\ SP!Serving => net[serving].server = "open"
  /\ thread = "close" => ServerAtEof(net[serving]) \/ ServerAtReset(net[serving])
  /\ Working => chunk # <<>>

\* A connection: only one that the client has closed is reset for the service.
EndsInv ==
  \A c \in Conn :
    /\ net[c].serverRst => net[c].client = "closed"
    /\ net[c].client = "open" => net[c].server # "none"

\* Requests are sent, carried out and answered in the order of their numbers: what
\* was carried out or answered goes before all that is still on its way.
HistoryInv ==
  /\ \A r \in Job : asker[r] # NoConn => r <= CP!Sent
  /\ \A r \in done \cup answered :
       /\ r <= CP!Sent
       /\ \A c \in Conn : \A j \in 1 .. Len(net[c].up) : r < net[c].up[j]
  /\ Working => \A r \in done : \A j \in 1 .. Len(chunk) : r < chunk[j]
  /\ \/ ~Working
     \/ \A r \in answered : \A j \in 1 .. Len(chunk) : r < chunk[j]
     \/ thread # "dispatch" /\ Server!Requests(chunk) \subseteq answered

\* The histories stay below the bounds of the client's model of its peer: a restart
\* for each death, and MaxCards answers to each request at most.
BoundInv ==
  /\ crashes <= IF exit = "no" THEN restarts ELSE restarts + 1
  /\ repeats <= MaxCards * Cardinality(answered)
  /\ Replied /\ thread # "dispatch" =>
       repeats + MaxCards <= MaxCards * Cardinality(answered) + cards

SysInv ==
  /\ CP!HeldInv /\ CP!OrderInv /\ SP!TypeInv
  /\ ProcessInv /\ EndsInv /\ HistoryInv /\ BoundInv

-----------------------------------------------------------------------------
(* The constants, and the names that each instance has for the same things *)

\* The constants of the parts satisfy what the parts assume.
LEMMA Bounds == CP!ClientBounds /\ SP!ServerBounds
<1>1. MaxJobs * MaxCards \in Nat /\ MaxRestarts + 1 \in Nat
  BY SystemBounds
<1>2. CP!ClientBounds
  BY <1>1, SystemBounds DEF CP!ClientBounds, CP!Job, CP!Conn, CP!Fd, Job, Conn
<1>3. SP!ServerBounds
  BY SystemBounds DEF SP!ServerBounds, SP!RequestType, SP!Conn, Job, Conn
<1> QED
  BY <1>2, <1>3

\* Both instances of NetworkClient name the same actions, and so do those of
\* NetworkServer.
LEMMA SameClient ==
  /\ Client!Init => CP!Init
  /\ Client!ClientStep => CP!ClientStep
  /\ [Client!Next]_(Client!vars) => [CP!Next]_(CP!vars)
<1> USE DEF
       Client!Unused, CP!Unused, Client!Connected, CP!Connected, Client!ClientSent,
       CP!ClientSent, Client!ServerSent, CP!ServerSent, Client!ClientClosed, CP!ClientClosed,
       Client!ServerClosed, CP!ServerClosed, Client!ServerTook, CP!ServerTook, Client!First,
       CP!First, Client!ServerAtEof, CP!ServerAtEof, Client!ServerAtReset, CP!ServerAtReset,
       Client!ClientAtEof, CP!ClientAtEof, Client!Job, CP!Job, Client!Conn, CP!Conn, Client!Fd,
       CP!Fd, Client!threadVars, CP!threadVars, Client!fdVars, CP!fdVars, Client!askVars,
       CP!askVars, Client!peerVars, CP!peerVars, Client!vars, CP!vars
<1>1. Client!Init => CP!Init
  BY Zenon DEF Client!Init, CP!Init
<1>2. Client!ClientStep => CP!ClientStep
  BY Zenon DEF
     Client!Behind, CP!Behind, Client!LowestFree, CP!LowestFree, Client!NetAfterClose,
     CP!NetAfterClose, Client!FdtabAfterClose, CP!FdtabAfterClose, Client!NewSocket,
     CP!NewSocket, Client!ConnectSocket, CP!ConnectSocket, Client!GuiSame, CP!GuiSame,
     Client!MutexFree, CP!MutexFree, Client!Woken, CP!Woken, Client!WorkerSame, CP!WorkerSame,
     Client!Returned, CP!Returned, Client!Rest, CP!Rest, Client!StartSocket, CP!StartSocket,
     Client!StartSocketFails, CP!StartSocketFails, Client!StartConnect, CP!StartConnect,
     Client!SocketSend, CP!SocketSend, Client!SocketSendNotify, CP!SocketSendNotify,
     Client!TestSocketClose, CP!TestSocketClose, Client!TestSocketNew, CP!TestSocketNew,
     Client!TestSocketFails, CP!TestSocketFails, Client!TestSocketConnect,
     CP!TestSocketConnect, Client!StopClearFlag, CP!StopClearFlag, Client!StopNotify,
     CP!StopNotify, Client!StopJoin, CP!StopJoin, Client!StopClose, CP!StopClose,
     Client!WorkerLoop, CP!WorkerLoop, Client!WorkerEmpty, CP!WorkerEmpty, Client!WorkerSleep,
     CP!WorkerSleep, Client!WorkerSpurious, CP!WorkerSpurious, Client!WorkerBreak,
     CP!WorkerBreak, Client!WorkerTake, CP!WorkerTake, Client!WorkerCall, CP!WorkerCall,
     Client!WorkerSend, CP!WorkerSend, Client!WorkerSendError, CP!WorkerSendError,
     Client!WorkerSigpipe, CP!WorkerSigpipe, Client!WorkerRecv, CP!WorkerRecv,
     Client!WorkerReceive, CP!WorkerReceive, Client!WorkerEof, CP!WorkerEof,
     Client!WorkerRecvError, CP!WorkerRecvError, Client!GuiStep, CP!GuiStep, Client!UserStep,
     CP!UserStep, Client!WorkerStep, CP!WorkerStep, Client!ClientStep, CP!ClientStep
<1>3. Client!PeerStep => CP!PeerStep
  BY Zenon DEF
     Client!PeerSame, CP!PeerSame, Client!Reply, CP!Reply, Client!PeerSends, CP!PeerSends,
     Client!PeerAccept, CP!PeerAccept, Client!PeerRecv, CP!PeerRecv, Client!PeerAnswer,
     CP!PeerAnswer, Client!PeerRepeat, CP!PeerRepeat, Client!PeerDone, CP!PeerDone,
     Client!PeerClose, CP!PeerClose, Client!PeerCrash, CP!PeerCrash, Client!PeerRestart,
     CP!PeerRestart, Client!PeerStep, CP!PeerStep
<1> QED
  BY <1>1, <1>2, <1>3 DEF Client!Next, CP!Next

\* The same for the service.
LEMMA SameServer ==
  /\ AsServed!Init => SP!Init
  /\ [AsServed!Next]_(AsServed!vars) => [SP!Next]_(SP!vars)
<1> USE DEF
       AsServed!Unused, SP!Unused, AsServed!Connected, SP!Connected, AsServed!ClientSent,
       SP!ClientSent, AsServed!ServerSent, SP!ServerSent, AsServed!ClientClosed,
       SP!ClientClosed, AsServed!ServerClosed, SP!ServerClosed, AsServed!ServerTook,
       SP!ServerTook, AsServed!First, SP!First, AsServed!ServerAtEof, SP!ServerAtEof,
       AsServed!ServerAtReset, SP!ServerAtReset, AsServed!Conn, SP!Conn, AsServed!processVars,
       SP!processVars, AsServed!historyVars, SP!historyVars, AsServed!vars, SP!vars
<1>1. AsServed!Init => SP!Init
  BY Zenon DEF AsServed!Init, SP!Init
<1>2. [AsServed!Next]_(AsServed!vars) => [SP!Next]_(SP!vars)
  BY Zenon DEF
     AsServed!Cardinality, SP!Cardinality, AsServed!ProcessStart, SP!ProcessStart,
     AsServed!EndProcess, SP!EndProcess, AsServed!MainSame, AsServed!MainKeeps, SP!MainSame, SP!MainKeeps, AsServed!Woken,
     SP!Woken, AsServed!QueueSame, SP!QueueSame, AsServed!ListenSame, AsServed!ListenKeeps, SP!ListenSame, SP!ListenKeeps,
     AsServed!TypeOf, SP!TypeOf, AsServed!IsCardRequest, SP!IsCardRequest, AsServed!Requests,
     SP!Requests, AsServed!Reply, SP!Reply, AsServed!Send, SP!Send, AsServed!Sigpipe,
     SP!Sigpipe, AsServed!ClientSame, SP!ClientSame, AsServed!Read, SP!Read,
     AsServed!InitSocketServer, SP!InitSocketServer, AsServed!InitSocketFails,
     SP!InitSocketFails, AsServed!Spawn, SP!Spawn, AsServed!RunBg, SP!RunBg,
     AsServed!RunBgNotify, SP!RunBgNotify, AsServed!PcdInit, SP!PcdInit, AsServed!ConnectSlot,
     SP!ConnectSlot, AsServed!Return, SP!Return, AsServed!StopNotify, SP!StopNotify,
     AsServed!StopJoin, SP!StopJoin, AsServed!ThreadLoop, SP!ThreadLoop, AsServed!ThreadCheck,
     SP!ThreadCheck, AsServed!ThreadSleep, SP!ThreadSleep, AsServed!ThreadSpurious,
     SP!ThreadSpurious, AsServed!Accept, SP!Accept, AsServed!AcceptFails, SP!AcceptFails,
     AsServed!Recv, SP!Recv, AsServed!RecvEnds, SP!RecvEnds, AsServed!CloseClient,
     SP!CloseClient, AsServed!DispatchAnswer, SP!DispatchAnswer, AsServed!DispatchCard,
     SP!DispatchCard, AsServed!DispatchLost, SP!DispatchLost, AsServed!CardAnswers,
     SP!CardAnswers, AsServed!CardBlank, SP!CardBlank, AsServed!CardUncounted,
     SP!CardUncounted, AsServed!HandlerCrashes, SP!HandlerCrashes, AsServed!Handled, SP!Handled,
     AsServed!Over, SP!Over, AsServed!SearchStep, SP!SearchStep, AsServed!NextCard, SP!NextCard,
     AsServed!ReaderReturns, SP!ReaderReturns, AsServed!ClientConnects, SP!ClientConnects,
     AsServed!ClientSends, SP!ClientSends, AsServed!ClientReads, SP!ClientReads,
     AsServed!ClientCloses, SP!ClientCloses, AsServed!SystemdRestart, SP!SystemdRestart,
     AsServed!MainStep, SP!MainStep, AsServed!ListenStep, SP!ListenStep, AsServed!CardStep,
     SP!CardStep, AsServed!TakeStep, SP!TakeStep, AsServed!ClientStep, SP!ClientStep,
     AsServed!Next, SP!Next
<1> QED
  BY <1>1, <1>2

-----------------------------------------------------------------------------
(* What the invariant says, in the terms of this module *)

Buffer == [for : Seq(Job), more : BOOLEAN]
Nets   == [Conn -> Connection(Job, Buffer)]

\* The types, and that the thread lives only in a process that listens.
LEMMA Facts ==
  ASSUME SysInv
  PROVE  /\ net \in Nets /\ chunk \in Seq(Job) /\ done \subseteq Job /\ answered \subseteq Job
         /\ cards \in 0 .. MaxCards /\ repeats \in Nat /\ crashes \in Nat /\ restarts \in 0 .. MaxRestarts
         /\ serving \in Conn \cup {NoConn} /\ (SP!Serving => serving \in Conn)
         /\ listening \in BOOLEAN /\ calm \in BOOLEAN
         /\ thread \in SP!ThreadAt /\ main \in SP!MainAt
         /\ thread \in {"accept", "recv", "close", "dispatch", "reader", "again"} =>
              listening /\ exit = "no" /\ main \notin {"socket", "gone"}
<1>1. CP!TypeOK /\ SP!TypeOK /\ SP!CountInv /\ SP!ServedInv
  BY DEF SysInv, CP!HeldInv, CP!TypeInv, SP!TypeInv
<1>2. net \in Nets
  BY <1>1 DEF CP!TypeOK, Nets, Buffer, CP!Answer, CP!Conn, Conn, CP!Job, Job, CP!Connection,
     Connection, CP!ClientEnd, ClientEnd, CP!ServerEnd, ServerEnd
<1>3. repeats \in Nat /\ crashes \in Nat /\ listening \in BOOLEAN /\ calm \in BOOLEAN
  BY <1>1, SystemBounds DEF CP!TypeOK
<1>4. /\ chunk \in Seq(Job) /\ done \subseteq Job /\ answered \subseteq Job
      /\ cards \in 0 .. MaxCards /\ restarts \in 0 .. MaxRestarts
      /\ serving \in Conn \cup {NoConn} /\ thread \in SP!ThreadAt /\ main \in SP!MainAt
  BY <1>1 DEF SP!TypeOK, SP!Conn, Conn
<1>5. SP!Serving => serving \in Conn
  BY <1>1 DEF SP!ServedInv, SP!Conn, Conn
<1>6. thread \in {"accept", "recv", "close", "dispatch", "reader", "again"} =>
        listening /\ exit = "no" /\ main \notin {"socket", "gone"}
  BY <1>1 DEF SP!CountInv, SysInv, ProcessInv
<1> QED
  BY <1>2, <1>3, <1>4, <1>5, <1>6

-----------------------------------------------------------------------------
(* The service is a peer of the client *)

\* What ServerMoves adds to a step of the service.
Moved ==
  /\ UNCHANGED clientVars /\ repeats' = repeats
  /\ crashes' = (IF Crashed THEN crashes + 1 ELSE crashes)
  /\ calm' = (calm /\ ~Crashed)

PeerMoves == Client!PeerStep \/ UNCHANGED Client!vars

\* A step that the client cannot see.
LEMMA Unseen ==
  ASSUME SysInv, Moved, UNCHANGED <<listening, net, Asked, Replied>>
  PROVE  PeerMoves
<1>1. ~Crashed /\ calm \in BOOLEAN
  BY Facts DEF Crashed
<1>2. calm' = calm /\ crashes' = crashes /\ repeats' = repeats /\ UNCHANGED clientVars
  BY <1>1 DEF Moved
<1> QED
  BY <1>2 DEF PeerMoves, clientVars, Client!vars, Client!threadVars, Client!fdVars,
     Client!peerVars, Client!askVars

\* The end of the process, before or after its socket was opened.
LEMMA EndIsCrash ==
  ASSUME SysInv, NEW how, exit = "no", Moved, Server!EndProcess(how)
  PROVE  PeerMoves
<1>1. /\ listening' = FALSE /\ thread' = "gone" /\ UNCHANGED <<chunk, answered>>
      /\ net' = [c \in Conn |-> IF net[c].server \in {"backlog", "open"}
                                THEN ServerClosed(net[c]) ELSE net[c]]
  BY DEF Server!EndProcess, Server!historyVars, Server!Conn, Conn, Server!ServerClosed, ServerClosed
<1>2. Asked' = <<>> /\ Replied' = FALSE
  BY <1>1 DEF Asked, Replied
<1>3. CASE listening
  <2>1. crashes < MaxRestarts + 1
    BY Facts, SystemBounds DEF SysInv, BoundInv
  <2>2. calm' = FALSE /\ crashes' = crashes + 1 /\ repeats' = repeats /\ UNCHANGED clientVars
    BY <1>1, <1>3 DEF Moved, Crashed
  <2>3. Client!PeerCrash
    BY <1>1, <1>2, <1>3, <2>1, <2>2
    DEF Client!PeerCrash, Client!PeerSame, Client!threadVars, Client!fdVars, clientVars,
        Client!Conn, Conn, Client!ServerClosed, ServerClosed
  <2> QED
    BY <2>3 DEF PeerMoves, Client!PeerStep
<1>4. CASE ~listening
  <2>1. net' = net
    BY <1>1, <1>4, Facts DEF SysInv, ProcessInv, Nets
  <2>2. ~Working
    BY <1>4, Facts DEF Working
  <2>3. Asked = <<>> /\ Replied = FALSE
    BY <2>2 DEF Asked, Replied, Working
  <2> QED
    BY <1>1, <1>2, <1>4, <2>1, <2>3, Unseen, Facts
<1> QED
  BY <1>3, <1>4

\* What the thread works on, as the client's model of its peer sees it.
LEMMA WorkOf ==
  /\ ~Working => Asked = <<>> /\ Replied = FALSE
  /\ Working => Asked = chunk
  /\ Working /\ chunk # <<>> => (Replied <=> Server!Requests(chunk) \subseteq answered)
BY DEF Asked, Replied, Working

\* The same after a step.
LEMMA WorkNext ==
  /\ ~Working' => Asked' = <<>> /\ Replied' = FALSE
  /\ Working' => Asked' = chunk'
  /\ Working' /\ chunk' # <<>> => (Replied' <=> Server!Requests(chunk') \subseteq answered')
BY DEF Asked, Replied, Working

\* The client does not see what the thread does between two system calls.
LEMMA UnseenSame ==
  ASSUME SysInv, Moved, UNCHANGED <<listening, net>>,
         \/ UNCHANGED <<thread, chunk, answered>>
         \/ ~Working /\ ~Working'
         \/ Working /\ Working' /\ UNCHANGED <<chunk, answered>>
  PROVE  PeerMoves
<1>1. CASE UNCHANGED <<thread, chunk, answered>>
  BY <1>1, Unseen DEF Asked, Replied, Server!Requests
<1>2. CASE ~Working /\ ~Working'
  BY <1>2, Unseen, WorkOf, WorkNext
<1>3. CASE Working /\ Working' /\ UNCHANGED <<chunk, answered>>
  BY <1>3, Unseen DEF Asked, Replied, Working, Server!Requests
<1> QED
  BY <1>1, <1>2, <1>3

\* The steps of the main thread, of systemd, and of the server thread outside of
\* keep_listening.
LEMMA PeerOfMain ==
  ASSUME SysInv, Moved,
         Server!MainStep \/ Server!TakeStep \/ Server!ThreadSpurious \/ Server!AcceptFails
           \/ Server!SystemdRestart
  PROVE  PeerMoves
<1>1. CASE Server!InitSocketServer
  <2>1. ~listening /\ listening' = TRUE /\ UNCHANGED <<net, thread, chunk, answered>>
    BY <1>1 DEF Server!InitSocketServer, Server!MainSame, Server!MainKeeps, Server!historyVars, SysInv, ProcessInv
  <2>2. UNCHANGED <<Asked, Replied>> /\ calm' = calm /\ crashes' = crashes /\ repeats' = repeats
        /\ UNCHANGED clientVars
    BY <2>1, Facts DEF Asked, Replied, Server!Requests, Moved, Crashed
  <2>3. Client!PeerRestart
    BY <2>1, <2>2 DEF Client!PeerRestart, Client!askVars, Client!PeerSame, Client!threadVars,
       Client!fdVars, clientVars
  <2> QED
    BY <2>3 DEF PeerMoves, Client!PeerStep
<1>2. CASE Server!InitSocketFails \/ Server!AcceptFails
  <2>1. exit = "no"
    BY <1>2, Facts DEF Server!InitSocketFails, Server!AcceptFails, SysInv, ProcessInv
  <2> QED
    BY <1>2, <2>1, EndIsCrash DEF Server!InitSocketFails, Server!AcceptFails
<1>3. CASE Server!Spawn
  <2>1. thread = "unborn" /\ thread' = "loop"
    BY <1>3 DEF Server!Spawn, SysInv, SP!TypeInv, SP!CountInv
  <2> QED
    BY <1>3, <2>1, UnseenSame DEF Server!Spawn, Server!MainSame, Server!MainKeeps, Working
<1>4. CASE Server!RunBg \/ Server!PcdInit \/ Server!ConnectSlot \/ Server!Return
  BY <1>4, UnseenSame DEF Server!RunBg, Server!PcdInit, Server!ConnectSlot, Server!Return,
     Server!MainSame, Server!MainKeeps, Server!historyVars
<1>5. CASE Server!RunBgNotify \/ Server!StopNotify
  <2>1. thread' = thread \/ (thread = "waiting" /\ thread' = "lock")
    BY <1>5 DEF Server!RunBgNotify, Server!StopNotify, Server!Woken
  <2>2. UNCHANGED <<listening, net, chunk, answered>>
    BY <1>5 DEF Server!RunBgNotify, Server!StopNotify, Server!MainSame, Server!MainKeeps, Server!historyVars
  <2> QED
    BY <2>1, <2>2, UnseenSame DEF Working
<1>6. CASE Server!StopJoin
  <2>1. CASE Server!EndProcess("SIGKILL")
    <3>1. exit = "no"
      BY <1>6 DEF Server!StopJoin, SysInv, ProcessInv
    <3> QED
      BY <2>1, <3>1, EndIsCrash
  <2>2. CASE UNCHANGED Server!vars
    BY <2>2, UnseenSame DEF Server!vars, Server!processVars, Server!historyVars
  <2> QED
    BY <1>6, <2>1, <2>2 DEF Server!StopJoin
<1>7. CASE Server!TakeStep \/ Server!ThreadSpurious
  <2>1. /\ thread \in {"loop", "lock", "blocking", "waiting"}
        /\ thread' \in {"lock", "exited", "blocking", "accept", "waiting"}
        /\ UNCHANGED <<listening, net>>
    BY <1>7 DEF Server!TakeStep, Server!ThreadLoop, Server!ThreadCheck, Server!ThreadSleep,
       Server!ThreadSpurious, Server!QueueSame
  <2> QED
    BY <2>1, UnseenSame DEF Working
<1>8. CASE Server!SystemdRestart
  <2>1. ~listening /\ thread' = "unborn" /\ listening' = FALSE /\ net' = net /\ ~Working
    BY <1>8, Facts DEF Server!SystemdRestart, Server!ProcessStart, SysInv, ProcessInv, Working
  <2> QED
    BY <2>1, UnseenSame, Facts DEF Working
<1> QED
  BY <1>1, <1>2, <1>3, <1>4, <1>5, <1>6, <1>7, <1>8 DEF Server!MainStep

\* A connection's service end is the same in both views of it.
LEMMA VisibleEnds ==
  /\ \A c \in Conn : Visible[c].server = net[c].server
  /\ \A c \in Conn : net[c].server # "none" => Visible[c] = net[c]
  /\ \A c \in Conn : net[c].server = "none" => Visible[c] = Unused
<1>1. Unused.server = "none"
  BY DEF Unused
<1> QED
  BY <1>1 DEF Visible

\* The thread serves the only accepted connection.
LEMMA OnlyServed ==
  ASSUME SysInv
  PROVE  /\ \A c \in Conn : net[c].server = "open" => SP!Serving /\ c = serving
         /\ SP!Serving => /\ serving \in Conn /\ net[serving].server = "open"
                          /\ net[serving] \in Connection(Job, Buffer)
                          /\ net[serving].up \in Seq(Job)
<1>1. \A c \in Conn : net[c].server = "open" => SP!Serving /\ c = serving
  BY VisibleEnds DEF SysInv, SP!TypeInv, SP!ServedInv, SP!Conn, Conn
<1>2. SP!Serving => /\ serving \in Conn /\ net[serving].server = "open"
  BY Facts DEF SysInv, ProcessInv
<1>3. \A c \in Conn : net[c] \in Connection(Job, Buffer) /\ net[c].up \in Seq(Job)
  BY Facts DEF Nets, Connection
<1> QED
  BY <1>1, <1>2, <1>3

\* The peer's acceptance, its silence and its hanging up.
LEMMA PeerOfEnds ==
  ASSUME SysInv, Moved,
         \/ \E c \in Conn : Server!Accept(c)
         \/ Server!RecvEnds \/ Server!CloseClient \/ Server!DispatchCard \/ Server!DispatchLost
         \/ Server!ReaderReturns \/ Server!CardBlank \/ Server!CardUncounted
         \/ Server!NextCard
  PROVE  PeerMoves
<1> USE DEF Client!PeerSame, Client!threadVars, Client!fdVars, clientVars, Client!askVars,
       Client!peerVars, Client!Conn, Conn, Server!Conn
<1>1. ASSUME NEW c \in Conn, Server!Accept(c) PROVE PeerMoves
  <2>1. /\ thread = "accept" /\ thread' = "recv" /\ listening' = listening /\ listening
        /\ net[c].server = "backlog" /\ net' = [net EXCEPT ![c].server = "open"]
        /\ \A d \in Conn : d < c => net[d].server # "backlog"
    BY <1>1, Facts DEF Server!Accept, Server!ListenSame, Server!ListenKeeps
  <2>2. \A d \in Conn : net[d].server # "open"
    BY <2>1, OnlyServed DEF SP!Serving
  <2>3. UNCHANGED <<Asked, Replied>>
    BY <2>1, WorkOf, WorkNext DEF Working
  <2>4. calm' = calm /\ crashes' = crashes /\ repeats' = repeats /\ UNCHANGED clientVars
    BY <2>1, Facts DEF Moved, Crashed
  <2>5. Client!PeerAccept(c)
    BY <2>1, <2>2, <2>3, <2>4 DEF Client!PeerAccept
  <2> QED
    BY <2>5 DEF PeerMoves, Client!PeerStep
<1>2. CASE Server!RecvEnds
  BY <1>2, UnseenSame DEF Server!RecvEnds, Server!ListenSame, Server!ListenKeeps, Working
<1>3. CASE Server!CloseClient
  <2>1. /\ thread = "close" /\ thread' = "accept" /\ listening' = listening /\ listening
        /\ net' = [net EXCEPT ![serving] = Server!ServerClosed(@)]
    BY <1>3, Facts DEF Server!CloseClient, Server!ListenSame, Server!ListenKeeps
  <2>2. /\ serving \in Conn /\ net[serving].server = "open"
        /\ ServerAtEof(net[serving]) \/ ServerAtReset(net[serving])
    BY <2>1, OnlyServed DEF SP!Serving, SysInv, ProcessInv
  <2>3. Asked' = <<>> /\ Replied' = FALSE
    BY <2>1, WorkNext DEF Working
  <2>4. calm' = calm /\ crashes' = crashes /\ repeats' = repeats /\ UNCHANGED clientVars
    BY <2>1, Facts DEF Moved, Crashed
  <2>5. Client!PeerClose(serving)
    BY <2>1, <2>2, <2>3, <2>4 DEF Client!PeerClose, Client!ServerAtEof, ServerAtEof,
       Client!ServerAtReset, ServerAtReset, Client!ServerClosed, Server!ServerClosed
  <2> QED
    BY <2>2, <2>5 DEF PeerMoves, Client!PeerStep
<1>4. CASE Server!DispatchCard \/ Server!CardBlank \/ Server!CardUncounted \/ Server!NextCard
  BY <1>4, UnseenSame DEF Server!DispatchCard, Server!CardBlank, Server!CardUncounted,
     Server!NextCard,
     Server!ListenSame, Server!ListenKeeps, Server!historyVars, Working
<1>5. CASE Server!DispatchLost \/ Server!ReaderReturns
  <2>1. /\ Working /\ thread' = "recv" /\ UNCHANGED <<listening, net>>
    BY <1>5 DEF Server!DispatchLost, Server!ReaderReturns, Server!ListenSame, Server!ListenKeeps, Working
  <2>2. Asked # <<>>
    BY <2>1, WorkOf DEF SysInv, ProcessInv
  <2>3. Asked' = <<>> /\ Replied' = FALSE
    BY <2>1, WorkNext DEF Working
  <2>4. calm' = calm /\ crashes' = crashes /\ repeats' = repeats /\ UNCHANGED clientVars
    BY <2>1, Facts DEF Moved, Crashed
  <2>5. Client!PeerDone
    BY <2>1, <2>2, <2>3, <2>4 DEF Client!PeerDone
  <2> QED
    BY <2>5 DEF PeerMoves, Client!PeerStep
<1> QED
  BY <1>1, <1>2, <1>3, <1>4, <1>5

\* What is read was never answered before.
LEMMA PeerOfRecv ==
  ASSUME SysInv, Moved, Server!Recv
  PROVE  PeerMoves
<1>1. /\ thread = "recv" /\ thread' = "dispatch" /\ listening' = listening /\ listening
      /\ UNCHANGED answered
  BY Facts DEF Server!Recv, Server!ListenSame, Server!ListenKeeps, Server!historyVars
<1>2. PICK n \in 1 .. Len(net[serving].up) :
        /\ chunk' = Server!First(net[serving].up, n)
        /\ net' = [net EXCEPT ![serving] = Server!ServerTook(@, n)]
  BY DEF Server!Recv
<1>3. /\ serving \in Conn /\ net[serving].server = "open" /\ net[serving].up \in Seq(Job)
      /\ Len(net[serving].up) \in Nat
  BY <1>1, OnlyServed, LenProperties DEF SP!Serving
<1>4. /\ chunk' = First(net[serving].up, n) /\ n \in 0 .. Len(net[serving].up)
      /\ n >= 1 /\ Len(net[serving].up) >= 1
  BY <1>2, <1>3 DEF Server!First, First
<1>5. /\ chunk' \in Seq(Job) /\ Len(chunk') = n /\ \A i \in 1 .. n : chunk'[i] = net[serving].up[i]
  BY <1>3, <1>4, CP!SplitTypes DEF CP!First, First
<1>6. chunk' # <<>> /\ chunk'[1] = net[serving].up[1] /\ 1 \in DOMAIN chunk'
  BY <1>2, <1>3, <1>4, <1>5, EmptySeq, LenProperties
<1>7. net[serving].up[1] \notin answered
  <2>1. net[serving].up[1] \in Job /\ 1 \in 1 .. Len(net[serving].up)
    BY <1>3, <1>4, ElementOfSeq
  <2>2. \A r \in answered : r < net[serving].up[1]
    BY <1>3, <2>1 DEF SysInv, HistoryInv
  <2> QED
    BY <2>1, <2>2 DEF Job
<1>8. Asked = <<>> /\ Replied = FALSE /\ Asked' = chunk' /\ Replied' = FALSE
  <2>1. Replied' <=> Server!Requests(chunk') \subseteq answered'
    BY <1>1, <1>6, WorkNext DEF Working
  <2>2. ~Replied'
    BY <1>1, <1>6, <1>7, <2>1 DEF Server!Requests
  <2>3. Replied' \in BOOLEAN
    BY DEF Replied
  <2> QED
    BY <1>1, <2>2, <2>3, WorkOf, WorkNext DEF Working
<1>9. calm' = calm /\ crashes' = crashes /\ repeats' = repeats /\ UNCHANGED clientVars
  BY <1>1, Facts DEF Moved, Crashed
<1>10. Client!PeerRecv(serving)
  BY <1>1, <1>2, <1>3, <1>8, <1>9 DEF Client!PeerRecv, Client!First, Server!First,
     Client!ServerTook, Server!ServerTook, Client!PeerSame, Client!threadVars, Client!fdVars, clientVars
<1> QED
  BY <1>3, <1>10 DEF PeerMoves, Client!PeerStep, Client!Conn, Conn

\* The requests that the thread works on are all answered, or none of them is.
LEMMA AllOrNone ==
  ASSUME SysInv, Working
  PROVE  /\ Asked = chunk /\ chunk # <<>> /\ Len(chunk) \in Nat /\ Len(chunk) >= 1
         /\ thread = "dispatch" => ~Replied
         /\ ~Replied => \A r \in answered : \A j \in 1 .. Len(chunk) : r < chunk[j]
         /\ Replied <=> Server!Requests(chunk) \subseteq answered
<1>1. /\ Asked = chunk /\ chunk # <<>> /\ chunk \in Seq(Job)
      /\ Replied <=> Server!Requests(chunk) \subseteq answered
  BY Facts, WorkOf DEF SysInv, ProcessInv
<1>2. Len(chunk) \in Nat /\ Len(chunk) >= 1 /\ DOMAIN chunk = 1 .. Len(chunk)
  BY <1>1, LenProperties, EmptySeq
<1>3. ASSUME \A r \in answered : \A j \in 1 .. Len(chunk) : r < chunk[j] PROVE ~Replied
  <2>1. chunk[1] \in Job /\ 1 \in 1 .. Len(chunk) /\ chunk[1] \in Server!Requests(chunk)
    BY <1>1, <1>2, ElementOfSeq DEF Server!Requests
  <2>2. ~(chunk[1] < chunk[1])
    BY <2>1 DEF Job
  <2> QED
    BY <1>1, <1>3, <2>1, <2>2
<1>4. /\ thread = "dispatch" => ~Replied
      /\ ~Replied => \A r \in answered : \A j \in 1 .. Len(chunk) : r < chunk[j]
  BY <1>1, <1>3 DEF SysInv, HistoryInv
<1> QED
  BY <1>1, <1>2, <1>4

\* send() of the answer.
LEMMA SendIs ==
  ASSUME SysInv, NEW next, Server!Send(next), Working
  PROVE  /\ serving \in Conn /\ net[serving].server = "open"
         /\ net' = [net EXCEPT ![serving] = Client!ServerSent(@, Client!Reply(Asked))]
         /\ listening' = listening /\ listening /\ exit' = "no" /\ thread' = next
         /\ answered' = answered \cup Server!Requests(chunk)
<1>1. Server!Reply(chunk) = Client!Reply(Asked)
  BY AllOrNone, Zenon DEF Server!Reply, Client!Reply
<1>2. \A k, s : Server!ServerSent(k, s) = Client!ServerSent(k, s)
  BY Zenon DEF Server!ServerSent, Client!ServerSent
<1>3. serving \in Conn /\ net[serving].server = "open" /\ listening /\ exit = "no"
  BY OnlyServed, Facts DEF SP!Serving, Working
<1> QED
  BY <1>1, <1>2, <1>3 DEF Server!Send, Server!ListenSame, Server!ListenKeeps

\* No request is answered more often than it may find cards.
LEMMA RepeatsBelow ==
  ASSUME SysInv, thread = "reader", cards < MaxCards, Replied
  PROVE  repeats < MaxJobs * MaxCards
<1>1. /\ repeats \in Nat /\ cards \in Nat /\ MaxCards \in Nat /\ MaxJobs \in Nat
      /\ answered \subseteq 1 .. MaxJobs
  BY Facts, SystemBounds DEF Job
<1>3. Cardinality(answered) \in Nat /\ Cardinality(answered) <= MaxJobs
  <2>1. IsFiniteSet(1 .. MaxJobs) /\ Cardinality(1 .. MaxJobs) = MaxJobs
    BY <1>1, FS_Interval
  <2> QED
    BY <1>1, <2>1, FS_Subset, FS_CardinalityType
<1>4. repeats + MaxCards <= MaxCards * Cardinality(answered) + cards
  BY DEF SysInv, BoundInv
<1>5. MaxCards * Cardinality(answered) <= MaxJobs * MaxCards
  BY <1>1, <1>3
<1>6. MaxCards * Cardinality(answered) \in Nat /\ MaxJobs * MaxCards \in Nat
  BY <1>1, <1>3
<1> QED
  BY <1>1, <1>4, <1>5, <1>6

\* A first answer.
LEMMA PeerOfAnswer ==
  ASSUME SysInv, Moved, Server!DispatchAnswer \/ (Server!CardAnswers /\ (Replied => exit' # "no"))
  PROVE  PeerMoves
<1> USE DEF Client!PeerSame, Client!threadVars, Client!fdVars, clientVars
<1>1. Working /\ exit = "no" /\ thread \in {"dispatch", "reader"}
  BY Facts DEF Server!DispatchAnswer, Server!CardAnswers, Working
<1>2. CASE Server!Sigpipe
  BY <1>1, <1>2, EndIsCrash DEF Server!Sigpipe
<1>3. ASSUME NEW next \in {"recv", "again"}, Server!Send(next), ~Replied,
             next = "again" => chunk' = chunk
      PROVE  PeerMoves
  <2>1. /\ serving \in Conn /\ net[serving].server = "open"
        /\ net' = [net EXCEPT ![serving] = Client!ServerSent(@, Client!Reply(Asked))]
        /\ listening' = listening /\ listening /\ thread' = next
        /\ answered' = answered \cup Server!Requests(chunk)
    BY <1>1, <1>3, SendIs
  <2>2. calm' = calm /\ crashes' = crashes /\ repeats' = repeats /\ UNCHANGED clientVars
    BY <2>1, Facts DEF Moved, Crashed
  <2>3. Asked # <<>> /\ Asked' \in {Asked, <<>>} /\ Replied' = (Asked' # <<>>)
    <3>1. Asked = chunk /\ chunk # <<>>
      BY <1>1, AllOrNone
    <3>2. CASE next = "recv"
      BY <2>1, <3>1, <3>2, WorkNext DEF Working
    <3>3. CASE next = "again"
      <4>1. Working' /\ chunk' = chunk /\ Asked' = chunk /\ Asked' # <<>>
        BY <1>3, <2>1, <3>1, <3>3, WorkNext DEF Working
      <4>2. Server!Requests(chunk') \subseteq answered'
        BY <2>1, <4>1 DEF Server!Requests
      <4>3. Replied' /\ Replied' \in BOOLEAN
        BY <3>1, <4>1, <4>2, WorkNext DEF Replied
      <4> QED
        BY <3>1, <4>1, <4>3
    <3> QED
      BY <1>3, <3>2, <3>3
  <2>4. Client!PeerAnswer(serving)
    BY <1>3, <2>1, <2>2, <2>3 DEF Client!PeerAnswer, Client!PeerSends
  <2> QED
    BY <2>1, <2>4 DEF PeerMoves, Client!PeerStep, Client!Conn, Conn
<1>4. CASE Server!DispatchAnswer
  BY <1>1, <1>2, <1>3, <1>4, AllOrNone DEF Server!DispatchAnswer
<1>5. CASE Server!CardAnswers /\ (Replied => exit' # "no")
  <2>1. CASE Server!Send("again") /\ UNCHANGED chunk
    <3>1. ~Replied
      BY <1>1, <1>5, <2>1, SendIs
    <3> QED
      BY <1>3, <2>1, <3>1
  <2> QED
    BY <1>2, <1>5, <2>1 DEF Server!CardAnswers
<1> QED
  BY <1>4, <1>5

\* A further one.
LEMMA PeerOfRepeat ==
  ASSUME SysInv, ServerRepeats
  PROVE  Client!PeerStep
<1>1. /\ Replied /\ thread = "reader" /\ Working /\ UNCHANGED clientVars
      /\ repeats' = repeats + 1 /\ calm' = FALSE /\ crashes' = crashes
  BY DEF ServerRepeats, Server!CardAnswers, Working
<1>2. Server!Send("again") /\ chunk' = chunk /\ cards < MaxCards
  BY DEF ServerRepeats, Server!CardAnswers, Server!Sigpipe, Server!EndProcess
<1>3. /\ serving \in Conn /\ net[serving].server = "open"
      /\ net' = [net EXCEPT ![serving] = Client!ServerSent(@, Client!Reply(Asked))]
      /\ listening' = listening /\ listening /\ thread' = "again"
      /\ answered' = answered \cup Server!Requests(chunk)
  BY <1>1, <1>2, SendIs
<1>4. Asked = chunk /\ chunk # <<>> /\ Asked' = Asked
  BY <1>1, <1>2, <1>3, AllOrNone, WorkNext DEF Working
<1>5. Replied' /\ Replied' \in BOOLEAN
  <2>1. Working' /\ chunk' # <<>> /\ Server!Requests(chunk') \subseteq answered'
    BY <1>2, <1>3, <1>4 DEF Working, Server!Requests
  <2> QED
    BY <2>1, WorkNext DEF Replied
<1>6. Client!PeerRepeat(serving)
  BY <1>1, <1>2, <1>3, <1>4, <1>5, RepeatsBelow DEF Client!PeerRepeat, Client!PeerSends,
     Client!PeerSame, Client!threadVars, Client!fdVars, clientVars
<1> QED
  BY <1>3, <1>6 DEF Client!PeerStep, Client!Conn, Conn

ServiceStep ==
  \/ MainStep \/ ThreadStep \/ ServerMoves(Server!ThreadSpurious)
  \/ ServerMoves(Server!AcceptFails) \/ ServerMoves(Server!SystemdRestart)

GuiSideStep == GuiStep \/ UserStep \/ WorkerStep \/ ClientMoves(Client!WorkerSpurious)

\* Whatever the service does is what its peer's model allows.
LEMMA ServiceIsPeer == SysInv /\ ServiceStep => PeerMoves
<1> SUFFICES ASSUME SysInv, ServiceStep PROVE PeerMoves
  OBVIOUS
<1>1. CASE MainStep \/ ServerMoves(Server!TakeStep) \/ ServerMoves(Server!ThreadSpurious)
           \/ ServerMoves(Server!AcceptFails) \/ ServerMoves(Server!SystemdRestart)
  BY <1>1, PeerOfMain DEF MainStep, ServerMoves, Moved
<1>2. CASE ServerMoves(Server!ListenStep)
  <2>1. Moved /\ Server!ListenStep
    BY <1>2 DEF ServerMoves, Moved
  <2>2. CASE Server!Recv
    BY <2>1, <2>2, PeerOfRecv
  <2>3. CASE Server!DispatchAnswer
    BY <2>1, <2>3, PeerOfAnswer
  <2>4. CASE (\E c \in Conn : Server!Accept(c)) \/ Server!RecvEnds \/ Server!CloseClient
             \/ Server!DispatchCard \/ Server!DispatchLost \/ Server!SearchStep
    BY <2>1, <2>4, PeerOfEnds DEF Server!SearchStep
  <2> QED
    BY <2>1, <2>2, <2>3, <2>4 DEF Server!ListenStep, Server!Conn, Conn
<1>3. CASE CardStep
  <2>1. CASE ServerMoves(Server!CardAnswers /\ (Replied => exit' # "no"))
    BY <2>1, PeerOfAnswer DEF ServerMoves, Moved
  <2>2. CASE ServerMoves(Server!CardBlank) \/ ServerMoves(Server!CardUncounted)
    BY <2>2, PeerOfEnds DEF ServerMoves, Moved
  <2>4. CASE ServerMoves(Server!HandlerCrashes)
    <3>1. Moved /\ Server!EndProcess("SIGSEGV") /\ thread = "reader"
      BY <2>4 DEF ServerMoves, Moved, Server!HandlerCrashes
    <3> QED
      BY <3>1, Facts, EndIsCrash
  <2>3. CASE ServerRepeats
    BY <2>3, PeerOfRepeat DEF PeerMoves
  <2> QED
    BY <1>3, <2>1, <2>2, <2>3, <2>4 DEF CardStep
<1> QED
  BY <1>1, <1>2, <1>3 DEF ServiceStep, ThreadStep

\* The client's own steps are its steps.
LEMMA ClientIsItself == GuiSideStep => Client!ClientStep
BY DEF GuiSideStep, GuiStep, UserStep, WorkerStep, ClientMoves, Client!ClientStep

\* So every step of the two is one of the client's module,
LEMMA StepOfClient == SysInv /\ [Next]_vars => [Client!Next]_(Client!vars)
<1> SUFFICES ASSUME SysInv, [Next]_vars PROVE [Client!Next]_(Client!vars)
  OBVIOUS
<1>1. CASE GuiSideStep
  BY <1>1, ClientIsItself DEF Client!Next
<1>2. CASE ServiceStep
  BY <1>2, ServiceIsPeer DEF Client!Next, PeerMoves
<1>3. CASE UNCHANGED vars
  <2>1. UNCHANGED <<clientVars, net, thread, chunk, answered, listening, repeats, crashes, calm>>
    BY <1>3 DEF vars, serverVars
  <2>2. UNCHANGED <<Asked, Replied>>
    BY <2>1 DEF Asked, Replied, Server!Requests
  <2> QED
    BY <2>1, <2>2 DEF Client!vars, Client!threadVars, Client!fdVars, Client!peerVars,
       Client!askVars, clientVars
<1> QED
  BY <1>1, <1>2, <1>3 DEF Next, GuiSideStep, ServiceStep

-----------------------------------------------------------------------------
(* The client is one of the clients that the service knows *)

ClientsMove == AsServed!Next \/ UNCHANGED AsServed!vars

\* What the service sees of the connections depends on them alone.
LEMMA VisibleSame == net' = net => Visible' = Visible
BY DEF Visible

\* One connection that the service knows of changes.
LEMMA VisibleOne ==
  ASSUME SysInv, NEW c \in Conn, NEW k, k.server # "none", net' = [net EXCEPT ![c] = k]
  PROVE  Visible' = [Visible EXCEPT ![c] = k]
<1>1. net \in Nets
  BY Facts
<1>2. \A d \in Conn : net'[d] = IF d = c THEN k ELSE net[d]
  BY <1>1 DEF Nets
<1>3. Visible' = [d \in Conn |-> IF net'[d].server = "none" THEN Unused ELSE net'[d]]
  BY DEF Visible
<1>4. \A d \in Conn : Visible'[d] = IF d = c THEN k ELSE Visible[d]
  BY <1>2, <1>3 DEF Visible
<1> QED
  BY <1>3, <1>4 DEF Visible

\* The steps that leave the connections alone.
LEMMA ServiceAside ==
  ASSUME SysInv,
         \/ Server!InitSocketServer \/ Server!Spawn \/ Server!RunBg \/ Server!RunBgNotify
         \/ Server!PcdInit \/ Server!ConnectSlot \/ Server!Return \/ Server!StopNotify
         \/ Server!TakeStep \/ Server!ThreadSpurious \/ Server!SystemdRestart
         \/ Server!RecvEnds \/ Server!DispatchCard \/ Server!DispatchLost
         \/ Server!ReaderReturns \/ Server!CardBlank \/ Server!CardUncounted
         \/ Server!NextCard
  PROVE  AsServed!Next
<1>1. net' = net
  BY DEF Server!InitSocketServer, Server!Spawn, Server!RunBg, Server!RunBgNotify, Server!PcdInit,
     Server!ConnectSlot, Server!Return, Server!StopNotify, Server!TakeStep, Server!ThreadLoop,
     Server!ThreadCheck, Server!ThreadSleep, Server!ThreadSpurious, Server!SystemdRestart,
     Server!RecvEnds, Server!DispatchCard, Server!DispatchLost, Server!ReaderReturns,
     Server!CardBlank, Server!CardUncounted, Server!NextCard, Server!MainSame, Server!MainKeeps, Server!QueueSame
<1>2. Visible' = Visible
  BY <1>1, VisibleSame
<1>3. Server!RecvEnds => Visible[serving] = net[serving]
  BY OnlyServed, VisibleEnds DEF Server!RecvEnds, SP!Serving
<1> USE DEF Server!historyVars, AsServed!historyVars
<1>4. CASE \/ Server!InitSocketServer \/ Server!Spawn \/ Server!RunBg \/ Server!RunBgNotify
           \/ Server!PcdInit \/ Server!ConnectSlot \/ Server!Return \/ Server!StopNotify
  <2> USE DEF Server!MainSame, Server!MainKeeps, AsServed!MainSame, AsServed!MainKeeps
  <2>1. Server!InitSocketServer => AsServed!InitSocketServer
    BY <1>2, Zenon DEF Server!InitSocketServer, AsServed!InitSocketServer
  <2>2. Server!Spawn => AsServed!Spawn
    BY <1>2, Zenon DEF Server!Spawn, AsServed!Spawn
  <2>3. Server!RunBg => AsServed!RunBg
    BY <1>2, Zenon DEF Server!RunBg, AsServed!RunBg
  <2>4. Server!RunBgNotify => AsServed!RunBgNotify
    BY <1>2, Zenon DEF Server!RunBgNotify, AsServed!RunBgNotify, Server!Woken, AsServed!Woken
  <2>5. Server!PcdInit => AsServed!PcdInit
    BY <1>2, Zenon DEF Server!PcdInit, AsServed!PcdInit
  <2>6. Server!ConnectSlot => AsServed!ConnectSlot
    BY <1>2, Zenon DEF Server!ConnectSlot, AsServed!ConnectSlot
  <2>7. Server!Return => AsServed!Return
    BY <1>2, Zenon DEF Server!Return, AsServed!Return
  <2>8. Server!StopNotify => AsServed!StopNotify
    BY <1>2, Zenon DEF Server!StopNotify, AsServed!StopNotify, Server!Woken, AsServed!Woken
  <2> QED
    BY <1>4, <2>1, <2>2, <2>3, <2>4, <2>5, <2>6, <2>7, <2>8, Zenon DEF AsServed!MainStep, AsServed!Next
<1>5. CASE Server!TakeStep \/ Server!ThreadSpurious
  BY <1>2, <1>5, Zenon DEF Server!TakeStep, AsServed!TakeStep, Server!ThreadLoop,
     AsServed!ThreadLoop, Server!ThreadCheck, AsServed!ThreadCheck, Server!ThreadSleep,
     AsServed!ThreadSleep, Server!ThreadSpurious, AsServed!ThreadSpurious, Server!QueueSame,
     AsServed!QueueSame, AsServed!Next
<1>6. CASE Server!SystemdRestart
  BY <1>2, <1>6, Zenon DEF Server!SystemdRestart, AsServed!SystemdRestart, Server!ProcessStart,
     AsServed!ProcessStart, AsServed!Next
<1>7. CASE Server!RecvEnds \/ Server!DispatchCard \/ Server!DispatchLost \/ Server!ReaderReturns
  BY <1>2, <1>3, <1>7, Zenon DEF Server!RecvEnds, AsServed!RecvEnds, Server!DispatchCard,
     AsServed!DispatchCard, Server!DispatchLost, AsServed!DispatchLost, Server!ReaderReturns,
     AsServed!ReaderReturns, Server!Over, AsServed!Over, AsServed!SearchStep, Server!ListenSame, Server!ListenKeeps, AsServed!ListenSame, AsServed!ListenKeeps, Server!IsCardRequest,
     AsServed!IsCardRequest, Server!TypeOf, AsServed!TypeOf, Server!Requests, AsServed!Requests,
     Server!ServerAtEof, AsServed!ServerAtEof, Server!ServerAtReset, AsServed!ServerAtReset,
     AsServed!ListenStep, AsServed!Next
<1>8. CASE Server!CardBlank \/ Server!CardUncounted \/ Server!NextCard
  BY <1>2, <1>8, Zenon DEF Server!CardBlank, AsServed!CardBlank, Server!CardUncounted,
     AsServed!CardUncounted, Server!Handled, AsServed!Handled, Server!NextCard,
     AsServed!NextCard, AsServed!ListenStep, AsServed!SearchStep, Server!ListenSame, Server!ListenKeeps, AsServed!ListenSame, AsServed!ListenKeeps, AsServed!CardStep, AsServed!Next
<1> QED
  BY <1>4, <1>5, <1>6, <1>7, <1>8

\* The end of the process closes the same connections in both views.
LEMMA EndsAlike ==
  ASSUME SysInv, NEW how, Server!EndProcess(how)
  PROVE  AsServed!EndProcess(how)
<1>1. /\ net' = [c \in Conn |-> IF net[c].server \in {"backlog", "open"}
                                THEN ServerClosed(net[c]) ELSE net[c]]
  BY DEF Server!EndProcess, Server!Conn, Conn, Server!ServerClosed, ServerClosed
<1>2. \A k : AsServed!ServerClosed(k) = ServerClosed(k)
  BY Zenon DEF AsServed!ServerClosed, ServerClosed
<1>3. ASSUME NEW c \in Conn
      PROVE  Visible'[c] = IF Visible[c].server \in {"backlog", "open"}
                           THEN ServerClosed(Visible[c]) ELSE Visible[c]
  <2>1. Visible'[c] = IF net'[c].server = "none" THEN Unused ELSE net'[c]
    BY DEF Visible
  <2>2. CASE net[c].server \in {"backlog", "open"}
    <3>1. net'[c] = ServerClosed(net[c]) /\ Visible[c] = net[c]
      BY <1>1, <2>2, VisibleEnds
    <3>2. net'[c].server = "closed"
      BY <3>1, Facts DEF ServerClosed, Nets, Connection
    <3> QED
      BY <2>1, <2>2, <3>1, <3>2
  <2>3. CASE net[c].server \notin {"backlog", "open"}
    <3>1. net'[c] = net[c] /\ Visible[c].server = net[c].server
      BY <1>1, <2>3, VisibleEnds
    <3>2. Visible'[c] = Visible[c]
      BY <2>1, <3>1 DEF Visible
    <3> QED
      BY <2>3, <3>1, <3>2
  <2> QED
    BY <2>2, <2>3
<1>4. Visible' = [c \in AsServed!Conn |-> IF Visible[c].server \in {"backlog", "open"}
                                          THEN AsServed!ServerClosed(Visible[c]) ELSE Visible[c]]
  <2>1. Visible' = [c \in Conn |-> Visible'[c]] /\ AsServed!Conn = Conn
    BY DEF Visible, AsServed!Conn, Conn
  <2> QED
    BY <1>2, <1>3, <2>1, Zenon
<1> QED
  BY <1>4, Zenon DEF Server!EndProcess, AsServed!EndProcess, Server!historyVars,
     AsServed!historyVars

\* The steps of the thread on the connection that it serves.
LEMMA ServiceServes ==
  ASSUME SysInv,
         \/ \E c \in Conn : Server!Accept(c)
         \/ Server!Recv \/ Server!CloseClient \/ Server!DispatchAnswer \/ Server!CardAnswers
  PROVE  AsServed!Next
<1> USE DEF Server!historyVars, AsServed!historyVars, Server!Conn, AsServed!Conn, Conn
<1>1. \A c \in Conn : net[c] \in Connection(Job, Buffer)
  BY Facts DEF Nets
<1>2. ASSUME NEW c \in Conn, Server!Accept(c) PROVE AsServed!Next
  <2>1. net[c].server = "backlog" /\ net' = [net EXCEPT ![c] = [net[c] EXCEPT !.server = "open"]]
    BY <1>2 DEF Server!Accept
  <2>2. Visible' = [Visible EXCEPT ![c] = [net[c] EXCEPT !.server = "open"]]
    <3>1. [net[c] EXCEPT !.server = "open"].server # "none"
      BY <1>1 DEF Connection
    <3> HIDE DEF Conn
    <3> QED
      BY <2>1, <3>1, VisibleOne
  <2>3. Visible[c] = net[c] /\ \A d \in Conn : Visible[d].server = net[d].server
    BY <2>1, VisibleEnds
  <2>4. Visible' = [Visible EXCEPT ![c].server = "open"]
    BY <2>2, <2>3
  <2>5. AsServed!Accept(c)
    BY <1>2, <2>3, <2>4, Zenon DEF Server!Accept, AsServed!Accept, Server!ListenSame, Server!ListenKeeps, AsServed!ListenSame, AsServed!ListenKeeps
  <2> QED
    BY <2>5 DEF AsServed!ListenStep, AsServed!Next
<1>3. CASE SP!Serving
  <2>1. /\ serving \in Conn /\ net[serving].server = "open" /\ net[serving] \in Connection(Job, Buffer)
        /\ Visible[serving] = net[serving]
    <3> HIDE DEF Conn
    <3> QED
      BY <1>3, OnlyServed, VisibleEnds
  <2>2. ASSUME NEW k, k.server # "none", net' = [net EXCEPT ![serving] = k]
        PROVE  Visible' = [Visible EXCEPT ![serving] = k]
    <3> HIDE DEF Conn
    <3> QED
      BY <2>1, <2>2, VisibleOne
  <2>3. CASE Server!Recv
    <3>1. PICK n \in 1 .. Len(net[serving].up) :
            /\ chunk' = Server!First(net[serving].up, n)
            /\ net' = [net EXCEPT ![serving] = Server!ServerTook(net[serving], n)]
      BY <2>3 DEF Server!Recv
    <3>2. Server!ServerTook(net[serving], n).server # "none"
      BY <2>1 DEF Server!ServerTook, Connection
    <3>3. Visible' = [Visible EXCEPT ![serving] = Server!ServerTook(net[serving], n)]
      BY <2>2, <3>1, <3>2
    <3>4. AsServed!Recv
      BY <2>1, <2>3, <3>1, <3>3, Zenon DEF Server!Recv, AsServed!Recv, Server!ListenSame, Server!ListenKeeps,
         AsServed!ListenSame, AsServed!ListenKeeps, Server!ServerTook, AsServed!ServerTook, Server!First, AsServed!First
    <3> QED
      BY <3>4 DEF AsServed!ListenStep, AsServed!Next
  <2>4. CASE Server!CloseClient
    <3>1. net' = [net EXCEPT ![serving] = Server!ServerClosed(net[serving])]
      BY <2>4 DEF Server!CloseClient
    <3>2. Server!ServerClosed(net[serving]).server # "none"
      BY <2>1 DEF Server!ServerClosed, Connection
    <3>3. Visible' = [Visible EXCEPT ![serving] = Server!ServerClosed(net[serving])]
      BY <2>2, <3>1, <3>2
    <3>4. AsServed!CloseClient
      BY <2>1, <2>4, <3>3, Zenon DEF Server!CloseClient, AsServed!CloseClient, Server!ListenSame, Server!ListenKeeps,
         AsServed!ListenSame, AsServed!ListenKeeps, Server!ServerClosed, AsServed!ServerClosed
    <3> QED
      BY <3>4 DEF AsServed!ListenStep, AsServed!Next
  <2>5. ASSUME NEW next, Server!Send(next) PROVE AsServed!Send(next)
    <3>1. net' = [net EXCEPT ![serving] = Server!ServerSent(net[serving], Server!Reply(chunk))]
      BY <2>5 DEF Server!Send
    <3>2. Server!ServerSent(net[serving], Server!Reply(chunk)).server # "none"
      BY <2>1 DEF Server!ServerSent, Connection
    <3>3. Visible' = [Visible EXCEPT ![serving] = Server!ServerSent(net[serving], Server!Reply(chunk))]
      BY <2>2, <3>1, <3>2
    <3> QED
      BY <2>1, <2>5, <3>3, Zenon DEF Server!Send, AsServed!Send, Server!ListenSame, Server!ListenKeeps,
         AsServed!ListenSame, AsServed!ListenKeeps, Server!ServerSent, AsServed!ServerSent, Server!Reply, AsServed!Reply,
         Server!Requests, AsServed!Requests
  <2>6. Server!Sigpipe => AsServed!Sigpipe
    BY <2>1, EndsAlike DEF Server!Sigpipe, AsServed!Sigpipe
  <2>7. CASE Server!DispatchAnswer
    <3>1. AsServed!DispatchAnswer
      BY <2>5, <2>6, <2>7, Zenon DEF Server!DispatchAnswer, AsServed!DispatchAnswer,
         Server!Over, AsServed!Over, Server!IsCardRequest, AsServed!IsCardRequest, Server!TypeOf, AsServed!TypeOf,
         Server!Requests, AsServed!Requests
    <3> QED
      BY <3>1 DEF AsServed!ListenStep, AsServed!Next
  <2>8. CASE Server!CardAnswers
    <3>1. AsServed!CardAnswers
      BY <2>5, <2>6, <2>8, Zenon DEF Server!CardAnswers, AsServed!CardAnswers,
         Server!Handled, AsServed!Handled
    <3> QED
      BY <3>1 DEF AsServed!CardStep, AsServed!Next
  <2> QED
    BY <1>2, <2>3, <2>4, <2>7, <2>8
<1>4. Server!Recv \/ Server!CloseClient \/ Server!DispatchAnswer \/ Server!CardAnswers => SP!Serving
  BY DEF Server!Recv, Server!CloseClient, Server!DispatchAnswer, Server!CardAnswers, SP!Serving
<1> QED
  BY <1>2, <1>3, <1>4

\* The service's own steps are its steps.
LEMMA ServiceIsItself == SysInv /\ ServiceStep => ClientsMove
<1> SUFFICES ASSUME SysInv, ServiceStep PROVE ClientsMove
  OBVIOUS
<1>1. CASE Server!InitSocketFails
  BY <1>1, EndsAlike DEF Server!InitSocketFails, AsServed!InitSocketFails, AsServed!MainStep,
     AsServed!Next, ClientsMove
<1>2. CASE Server!AcceptFails
  BY <1>2, EndsAlike DEF Server!AcceptFails, AsServed!AcceptFails, AsServed!Next, ClientsMove
<1>3. CASE Server!StopJoin
  <2>1. CASE UNCHANGED Server!vars
    <3>1. net' = net /\ Visible' = Visible
      BY <2>1, VisibleSame DEF Server!vars
    <3> QED
      BY <2>1, <3>1 DEF Server!vars, AsServed!vars, Server!processVars, AsServed!processVars,
         Server!historyVars, AsServed!historyVars, ClientsMove
  <2>2. CASE thread = "exited" /\ Server!EndProcess("SIGKILL")
    <3>1. AsServed!StopJoin
      BY <1>3, <2>2, EndsAlike DEF Server!StopJoin, AsServed!StopJoin
    <3> QED
      BY <3>1 DEF AsServed!MainStep, AsServed!Next, ClientsMove
  <2> QED
    BY <1>3, <2>1, <2>2 DEF Server!StopJoin
<1>4. CASE MainStep
  <2>1. Server!MainStep
    BY <1>4 DEF MainStep, ServerMoves
  <2> QED
    BY <1>1, <1>3, <2>1, ServiceAside DEF Server!MainStep, ClientsMove
<1>5. CASE ThreadStep
  <2>1. \/ Server!TakeStep \/ Server!ListenStep \/ Server!CardAnswers \/ Server!CardBlank
        \/ Server!CardUncounted \/ Server!HandlerCrashes
    BY <1>5 DEF ThreadStep, CardStep, ServerMoves, ServerRepeats
  <2>2. CASE Server!ListenStep
    <3>1. \/ (\E c \in Conn : Server!Accept(c)) \/ Server!Recv \/ Server!CloseClient
          \/ Server!DispatchAnswer
          \/ Server!RecvEnds \/ Server!DispatchCard \/ Server!DispatchLost
          \/ Server!ReaderReturns \/ Server!NextCard
      BY <2>2 DEF Server!ListenStep, Server!SearchStep, Server!Conn, Conn
    <3> QED
      BY <3>1, ServiceAside, ServiceServes DEF ClientsMove
  <2>3. CASE Server!HandlerCrashes
    BY <2>3, EndsAlike DEF Server!HandlerCrashes, AsServed!HandlerCrashes, AsServed!CardStep,
       AsServed!Next, ClientsMove
  <2> QED
    BY <2>1, <2>2, <2>3, ServiceAside, ServiceServes DEF ClientsMove
<1>6. CASE ServerMoves(Server!ThreadSpurious) \/ ServerMoves(Server!AcceptFails)
           \/ ServerMoves(Server!SystemdRestart)
  BY <1>2, <1>6, ServiceAside DEF ServerMoves, ClientsMove
<1> QED
  BY <1>4, <1>5, <1>6 DEF ServiceStep

\* A connection that the service cannot see.
LEMMA VisibleNone ==
  ASSUME SysInv, NEW c \in Conn, NEW k, net[c].server = "none", k.server = "none",
         net' = [net EXCEPT ![c] = k]
  PROVE  Visible' = Visible
<1>1. net \in Nets
  BY Facts
<1>2. \A d \in Conn : net'[d] = IF d = c THEN k ELSE net[d]
  BY <1>1 DEF Nets
<1> QED
  BY <1>2 DEF Visible

\* What the client does with the connections, and what is known of those it uses.
LEMMA ClientActs ==
  ASSUME SysInv, GuiSideStep
  PROVE  /\ CP!ClientStep /\ CP!OneOperation /\ UNCHANGED serverVars /\ UNCHANGED CP!peerVars
         /\ Admitted
         /\ ~CP!Sends => asker' = asker
         /\ CP!Sends => asker' = [asker EXCEPT ![job] = CP!Behind(jobFd)]
<1>1. Client!ClientStep /\ UNCHANGED serverVars /\ Admitted
      /\ asker' = IF worker = "send" /\ worker' = "sent"
                  THEN [asker EXCEPT ![job] = Client!Behind(jobFd)] ELSE asker
  BY ClientIsItself DEF GuiSideStep, GuiStep, UserStep, WorkerStep, ClientMoves
<1>2. CP!ClientStep
  BY <1>1, SameClient
<1>3. CP!OneOperation /\ UNCHANGED CP!peerVars
  BY <1>2, Bounds, CP!ClientOnNet DEF SysInv
<1>4. Client!Behind(jobFd) = CP!Behind(jobFd)
  BY Zenon DEF Client!Behind, CP!Behind, Client!Fd, CP!Fd
<1> QED
  BY <1>1, <1>2, <1>3, <1>4 DEF CP!Sends

\* The two names of each operation on a connection.
LEMMA SameOperations ==
  /\ \A k : /\ CP!Connected(k) = Connected(k) /\ AsServed!Connected(k) = Connected(k)
            /\ CP!ClientClosed(k) = ClientClosed(k) /\ AsServed!ClientClosed(k) = ClientClosed(k)
            /\ \A m : CP!ClientSent(k, m) = ClientSent(k, m) /\ AsServed!ClientSent(k, m) = ClientSent(k, m)
            /\ \A n : AsServed!Read(k, n) = CP!Rest(k, n)
  /\ CP!Unused = Unused /\ AsServed!Unused = Unused
  /\ CP!Conn = Conn /\ AsServed!Conn = Conn /\ CP!Job = Job
<1>1. \A k : CP!Connected(k) = Connected(k) /\ AsServed!Connected(k) = Connected(k)
  BY Zenon DEF CP!Connected, Connected, AsServed!Connected
<1>2. \A k : CP!ClientClosed(k) = ClientClosed(k) /\ AsServed!ClientClosed(k) = ClientClosed(k)
  BY Zenon DEF CP!ClientClosed, ClientClosed, AsServed!ClientClosed
<1>3. \A k, m : CP!ClientSent(k, m) = ClientSent(k, m) /\ AsServed!ClientSent(k, m) = ClientSent(k, m)
  BY Zenon DEF CP!ClientSent, ClientSent, AsServed!ClientSent
<1>4. \A k, n : AsServed!Read(k, n) = CP!Rest(k, n)
  BY Zenon DEF AsServed!Read, CP!Rest
<1>5. /\ CP!Unused = Unused /\ AsServed!Unused = Unused
      /\ CP!Conn = Conn /\ AsServed!Conn = Conn /\ CP!Job = Job
  BY DEF CP!Unused, Unused, AsServed!Unused, CP!Conn, Conn, AsServed!Conn, CP!Job, Job
<1> QED
  BY <1>1, <1>2, <1>3, <1>4, <1>5

\* A socket that is not connected is nothing but one; one that is, the service knows.
LEMMA NewOrOpen ==
  ASSUME SysInv, NEW c \in Conn
  PROVE  /\ net[c] \in Connection(Job, Buffer)
         /\ net[c].client = "new" => net[c] = [Unused EXCEPT !.client = "new"] /\ net[c].server = "none"
         /\ net[c].client = "open" => net[c].server # "none" /\ Visible[c] = net[c]
         /\ net[c].client = "new" => Visible[c] = Unused
<1>1. net[c] \in Connection(Job, Buffer)
  BY Facts DEF Nets
<1>2. net[c].client = "new" => net[c] = [Unused EXCEPT !.client = "new"]
  BY SameOperations DEF SysInv, CP!HeldInv, CP!LifeInv, CP!Life
<1>3. net[c].client = "new" => net[c].server = "none"
  BY <1>2 DEF Unused
<1>4. net[c].client = "open" => net[c].server # "none" /\ Visible[c] = net[c]
  BY VisibleEnds DEF SysInv, EndsInv
<1> QED
  BY <1>1, <1>2, <1>3, <1>4, VisibleEnds

\* connect().
LEMMA ConnectsAsServed ==
  ASSUME SysInv, NEW c \in Conn, CP!Connects(c), Admitted, UNCHANGED serverVars, asker' = asker
  PROVE  AsServed!ClientConnects(c)
<1>1. /\ listening /\ net[c].client = "new" /\ \A d \in Conn : c < d => net[d] = Unused
      /\ net' = [net EXCEPT ![c] = Connected(net[c])]
  BY SameOperations DEF CP!Connects
<1>2. net[c].server = "none" /\ net[c] = [Unused EXCEPT !.client = "new"] /\ Visible[c] = Unused
  BY <1>1, NewOrOpen
<1>3. Connected(net[c]) = Connected(Unused) /\ Connected(Unused).server = "backlog"
  BY <1>2 DEF Connected, Unused
<1>4. Visible' = [Visible EXCEPT ![c] = Connected(Unused)]
  BY <1>1, <1>3, VisibleOne
<1>5. HasRoom
  <2>1. net'[c] = Connected(Unused)
    BY <1>1, <1>3, Facts DEF Nets
  <2> QED
    BY <1>2, <1>3, <2>1 DEF Admitted
<1>6. \A d \in Conn : d >= c => Visible[d] = Unused
  <2>1. \A d \in Conn : c < d => Visible[d] = Unused
    BY <1>1, VisibleEnds DEF Unused
  <2>2. \A d \in Conn : d >= c => d = c \/ c < d
    BY DEF Conn
  <2> QED
    BY <1>2, <2>1, <2>2
<1>7. AsServed!Cardinality({d \in Conn : Visible[d].server = "backlog"}) <= Backlog
  <2>1. {d \in Conn : Visible[d].server = "backlog"} = {d \in Conn : net[d].server = "backlog"}
    BY VisibleEnds
  <2>2. \A S : AsServed!Cardinality(S) = Cardinality(S)
    BY Zenon DEF AsServed!Cardinality, Cardinality
  <2> QED
    BY <1>5, <2>1, <2>2 DEF HasRoom
<1>8. UNCHANGED <<asker, AsServed!processVars, exit, restarts, done, dropped, answered>>
  BY DEF serverVars, AsServed!processVars
<1>9. Visible' = [Visible EXCEPT ![c] = AsServed!Connected(Visible[c])]
  BY <1>2, <1>4, SameOperations
<1> QED
  BY <1>1, <1>6, <1>7, <1>8, <1>9, SameOperations DEF AsServed!ClientConnects, AsServed!ClientSame

\* send(): no job is sent twice.
LEMMA SendsAsServed ==
  ASSUME SysInv, NEW c \in Conn, CP!Sends, CP!SendsOn(c), UNCHANGED serverVars,
         asker' = [asker EXCEPT ![job] = CP!Behind(jobFd)]
  PROVE  AsServed!ClientSends(c, job) /\ job \in Job
<1>1. /\ net[c].client = "open" /\ c = CP!Behind(jobFd) /\ job \in Job /\ job = CP!Taken
      /\ net' = [net EXCEPT ![c] = ClientSent(net[c], job)]
  BY SameOperations DEF CP!SendsOn
<1>2. net[c].server # "none" /\ Visible[c] = net[c] /\ net[c] \in Connection(Job, Buffer)
  BY <1>1, NewOrOpen
<1>3. asker[job] = NoConn
  <2>1. CP!Sent = job - 1
    BY <1>1 DEF CP!Sends, CP!Sent
  <2>2. asker[job] # NoConn => job <= CP!Sent
    BY <1>1 DEF SysInv, HistoryInv
  <2> QED
    BY <1>1, <2>1, <2>2 DEF Job
<1>4. ClientSent(net[c], job).server # "none"
  BY <1>2 DEF ClientSent, Connection
<1>5. Visible' = [Visible EXCEPT ![c] = ClientSent(net[c], job)]
  BY <1>1, <1>4, VisibleOne
<1>6. UNCHANGED <<AsServed!processVars, exit, restarts, done, dropped, answered>>
  BY DEF serverVars, AsServed!processVars
<1> QED
  BY <1>1, <1>2, <1>3, <1>5, <1>6, SameOperations DEF AsServed!ClientSends, AsServed!ClientSame

\* recv(), with or without a close() that waited for it.
LEMMA ReadsAsServed ==
  ASSUME SysInv, NEW c \in Conn, CP!Reads(c), UNCHANGED serverVars, asker' = asker
  PROVE  AsServed!ClientReads(c) \/ AsServed!ClientCloses(c)
<1>1. PICK n \in 1 .. Len(net[c].down) :
        \/ net' = [net EXCEPT ![c] = CP!Rest(net[c], n)]
        \/ net' = [net EXCEPT ![c] = ClientClosed(CP!Rest(net[c], n))]
  BY SameOperations DEF CP!Reads
<1>2. /\ net[c].client = "open" /\ net[c].server # "none" /\ Visible[c] = net[c]
      /\ net[c] \in Connection(Job, Buffer)
  BY NewOrOpen DEF CP!Reads
<1>3. /\ CP!Rest(net[c], n).server = net[c].server
      /\ ClientClosed(CP!Rest(net[c], n)).server = net[c].server
  BY <1>2 DEF CP!Rest, ClientClosed, Connection
<1>4. UNCHANGED <<asker, AsServed!processVars, exit, restarts, done, dropped, answered>>
  BY DEF serverVars, AsServed!processVars
<1>5. n \in 0 .. Len(Visible[c].down)
  BY <1>1, <1>2 DEF Connection
<1>6. CASE net' = [net EXCEPT ![c] = CP!Rest(net[c], n)]
  <2>1. Visible' = [Visible EXCEPT ![c] = AsServed!Read(Visible[c], n)]
    BY <1>2, <1>3, <1>6, VisibleOne, SameOperations
  <2> QED
    BY <1>1, <1>2, <1>4, <2>1 DEF AsServed!ClientReads, AsServed!ClientSame
<1>7. CASE net' = [net EXCEPT ![c] = ClientClosed(CP!Rest(net[c], n))]
  <2>1. Visible' = [Visible EXCEPT ![c] = AsServed!ClientClosed(AsServed!Read(Visible[c], n))]
    BY <1>2, <1>3, <1>7, VisibleOne, SameOperations
  <2> QED
    BY <1>2, <1>4, <1>5, <2>1 DEF AsServed!ClientCloses, AsServed!ClientSame
<1> QED
  BY <1>1, <1>6, <1>7

\* close(), which the service sees if it was connected.
LEMMA DropsAsServed ==
  ASSUME SysInv, NEW c \in Conn, CP!Drops(c), UNCHANGED serverVars, asker' = asker
  PROVE  AsServed!ClientCloses(c) \/ Visible' = Visible
<1>1. /\ net[c].client \in {"new", "open"} /\ net[c] \in Connection(Job, Buffer)
      /\ net' = [net EXCEPT ![c] = ClientClosed(net[c])]
  BY NewOrOpen, SameOperations DEF CP!Drops
<1>2. ClientClosed(net[c]).server = net[c].server
  BY <1>1 DEF ClientClosed, Connection
<1>3. CASE net[c].client = "new"
  BY <1>1, <1>2, <1>3, NewOrOpen, VisibleNone
<1>4. CASE net[c].client = "open"
  <2>1. net[c].server # "none" /\ Visible[c] = net[c]
    BY <1>4, NewOrOpen
  <2>2. Visible' = [Visible EXCEPT ![c] = ClientClosed(Visible[c])]
    BY <1>1, <1>2, <2>1, VisibleOne
  <2>3. AsServed!Read(Visible[c], 0) = Visible[c]
    <3>1. Visible[c].down \in Seq(Buffer)
      BY <1>1, <2>1 DEF Connection
    <3>2. SubSeq(Visible[c].down, 1, Len(Visible[c].down)) = Visible[c].down
      BY <3>1, SubSeqFull
    <3>3. AsServed!Read(Visible[c], 0) = [Visible[c] EXCEPT !.down = Visible[c].down]
      <4>1. 0 + 1 = 1
        OBVIOUS
      <4> QED
        BY <3>2, <4>1, Zenon DEF AsServed!Read
    <3> QED
      BY <1>1, <2>1, <3>3 DEF Connection
  <2>4. 0 \in 0 .. Len(Visible[c].down)
    BY <1>1, <2>1 DEF Connection
  <2>5. UNCHANGED <<asker, AsServed!processVars, exit, restarts, done, dropped, answered>>
    BY DEF serverVars, AsServed!processVars
  <2> QED
    BY <1>4, <2>1, <2>2, <2>3, <2>4, <2>5, SameOperations DEF AsServed!ClientCloses,
       AsServed!ClientSame
<1> QED
  BY <1>1, <1>3, <1>4

\* Whatever the client does is what the service's model of its clients allows.
LEMMA ClientIsClients == SysInv /\ GuiSideStep => ClientsMove
<1> SUFFICES ASSUME SysInv, GuiSideStep PROVE ClientsMove
  OBVIOUS
<1>1. /\ CP!OneOperation /\ UNCHANGED serverVars /\ Admitted
      /\ ~CP!Sends => asker' = asker
      /\ CP!Sends => asker' = [asker EXCEPT ![job] = CP!Behind(jobFd)]
  BY ClientActs
<1>2. ASSUME Visible' = Visible, asker' = asker PROVE ClientsMove
  BY <1>1, <1>2 DEF ClientsMove, AsServed!vars, AsServed!processVars, AsServed!historyVars, serverVars
<1>3. ASSUME NEW c \in Conn, CP!Makes(c), asker' = asker PROVE ClientsMove
  <2>1. net[c] = Unused /\ net' = [net EXCEPT ![c] = [Unused EXCEPT !.client = "new"]]
    BY <1>3, SameOperations DEF CP!Makes
  <2>2. net[c].server = "none" /\ [Unused EXCEPT !.client = "new"].server = "none"
    BY <2>1 DEF Unused
  <2> QED
    BY <1>2, <1>3, <2>1, <2>2, VisibleNone
<1>4. ASSUME NEW c \in Conn, AsServed!ClientConnects(c) \/ AsServed!ClientReads(c)
               \/ AsServed!ClientCloses(c) \/ (job \in Job /\ AsServed!ClientSends(c, job))
      PROVE  ClientsMove
  BY <1>4, SameOperations DEF ClientsMove, AsServed!Next, AsServed!ClientStep
<1>5. CASE ~CP!Sends /\ net' = net
  BY <1>1, <1>2, <1>5, VisibleSame
<1>6. ASSUME NEW c \in Conn, ~CP!Sends, CP!Makes(c) \/ CP!Connects(c) \/ CP!Drops(c) \/ CP!Reads(c)
      PROVE  ClientsMove
  BY <1>1, <1>2, <1>3, <1>4, <1>6, ConnectsAsServed, ReadsAsServed, DropsAsServed
<1>7. ASSUME NEW c \in Conn, CP!Sends, CP!SendsOn(c) PROVE ClientsMove
  BY <1>1, <1>4, <1>7, SendsAsServed
<1> QED
  BY <1>1, <1>5, <1>6, <1>7, SameOperations DEF CP!OneOperation

\* and one of the service's.
LEMMA StepOfServer == SysInv /\ [Next]_vars => [AsServed!Next]_(AsServed!vars)
<1> SUFFICES ASSUME SysInv, [Next]_vars PROVE [AsServed!Next]_(AsServed!vars)
  OBVIOUS
<1>1. CASE GuiSideStep
  BY <1>1, ClientIsClients DEF ClientsMove
<1>2. CASE ServiceStep
  BY <1>2, ServiceIsItself DEF ClientsMove
<1>3. CASE UNCHANGED vars
  <2>1. net' = net /\ UNCHANGED <<serverVars, asker>> /\ Visible' = Visible
    BY <1>3, VisibleSame DEF vars
  <2> QED
    BY <2>1 DEF AsServed!vars, AsServed!processVars, AsServed!historyVars, serverVars
<1> QED
  BY <1>1, <1>2, <1>3 DEF Next, GuiSideStep, ServiceStep

-----------------------------------------------------------------------------
(* Every step keeps the invariant *)

\* What was proved of either program against its environment.
LEMMA KeepsBoth == SysInv /\ [Next]_vars => CP!HeldInv' /\ CP!OrderInv' /\ SP!TypeInv'
<1> SUFFICES ASSUME SysInv, [Next]_vars PROVE CP!HeldInv' /\ CP!OrderInv' /\ SP!TypeInv'
  OBVIOUS
<1>1. [CP!Next]_(CP!vars) /\ [SP!Next]_(SP!vars)
  BY StepOfClient, StepOfServer, SameClient, SameServer
<1>2. CP!HeldInv'
  BY <1>1, Bounds, CP!HeldStep DEF SysInv
<1>3. CP!OrderInv'
  BY <1>1, <1>2, Bounds, CP!OrderStep DEF SysInv
<1>4. SP!TypeInv'
  BY <1>1, Bounds, SP!TypeStep DEF SysInv
<1> QED
  BY <1>2, <1>3, <1>4

\* A step of the client changes what the service sees of a connection only by opening
\* it, closing it or sending on it.
LEMMA ClientOnEnds ==
  ASSUME SysInv, GuiSideStep
  PROVE  \A c \in Conn :
           /\ net[c].client = "closed" => net'[c] = net[c]
           /\ \/ net'[c].server = net[c].server
              \/ listening /\ net[c].server = "none" /\ net'[c].server = "backlog"
           /\ net'[c].serverRst => net[c].serverRst \/ net'[c].client = "closed"
           /\ net'[c].client = "open" => net'[c].server # "none"
           /\ \/ net'[c].up = net[c].up
              \/ CP!Sends /\ net'[c].up = Append(net[c].up, job)
<1> DEFINE Good(c) ==
           /\ net[c].client = "closed" => net'[c] = net[c]
           /\ \/ net'[c].server = net[c].server
              \/ listening /\ net[c].server = "none" /\ net'[c].server = "backlog"
           /\ net'[c].serverRst => net[c].serverRst \/ net'[c].client = "closed"
           /\ net'[c].client = "open" => net'[c].server # "none"
           /\ \/ net'[c].up = net[c].up
              \/ CP!Sends /\ net'[c].up = Append(net[c].up, job)
<1> SUFFICES \A c \in Conn : Good(c)
  OBVIOUS
<1>1. net \in Nets /\ \A c \in Conn : net[c].client = "open" => net[c].server # "none"
  BY Facts, NewOrOpen
<1>2. ASSUME NEW c \in Conn, net'[c] = net[c] PROVE Good(c)
  BY <1>1, <1>2
<1>3. ASSUME NEW c \in Conn, CP!Makes(c) PROVE \A d \in Conn : Good(d)
  <2>1. net[c] = Unused /\ net' = [net EXCEPT ![c] = [Unused EXCEPT !.client = "new"]]
    BY <1>3, SameOperations DEF CP!Makes
  <2>2. net'[c] = [Unused EXCEPT !.client = "new"] /\ \A d \in Conn : d # c => net'[d] = net[d]
    BY <1>1, <2>1 DEF Nets
  <2>3. Good(c)
    BY <2>1, <2>2 DEF Unused
  <2> QED
    BY <1>2, <2>2, <2>3
<1>4. ASSUME NEW c \in Conn, CP!Connects(c) PROVE \A d \in Conn : Good(d)
  <2>1. /\ net[c] = [Unused EXCEPT !.client = "new"] /\ listening
        /\ net' = [net EXCEPT ![c] = Connected(net[c])]
    BY <1>4, NewOrOpen, SameOperations DEF CP!Connects
  <2>2. net'[c] = Connected(net[c]) /\ \A d \in Conn : d # c => net'[d] = net[d]
    BY <1>1, <2>1 DEF Nets
  <2>3. Good(c)
    BY <2>1, <2>2 DEF Unused, Connected
  <2> QED
    BY <1>2, <2>2, <2>3
<1>5. ASSUME NEW c \in Conn, CP!Drops(c) PROVE \A d \in Conn : Good(d)
  <2>1. /\ net[c].client \in {"new", "open"} /\ net[c] \in Connection(Job, Buffer)
        /\ net' = [net EXCEPT ![c] = ClientClosed(net[c])]
    BY <1>5, NewOrOpen, SameOperations DEF CP!Drops
  <2>2. net'[c] = ClientClosed(net[c]) /\ \A d \in Conn : d # c => net'[d] = net[d]
    BY <1>1, <2>1 DEF Nets
  <2>3. ClientClosed(net[c]).client = "closed" /\ ClientClosed(net[c]).server = net[c].server
        /\ ClientClosed(net[c]).up = net[c].up
    BY <2>1 DEF ClientClosed, Connection
  <2>4. Good(c)
    BY <2>1, <2>2, <2>3
  <2> QED
    BY <1>2, <2>2, <2>4
<1>6. ASSUME NEW c \in Conn, CP!Reads(c) PROVE \A d \in Conn : Good(d)
  <2>1. /\ net[c].client = "open" /\ net[c] \in Connection(Job, Buffer) /\ net[c].server # "none"
    BY <1>6, NewOrOpen DEF CP!Reads
  <2>2. PICK n \in 1 .. Len(net[c].down) :
          \/ net' = [net EXCEPT ![c] = CP!Rest(net[c], n)]
          \/ net' = [net EXCEPT ![c] = ClientClosed(CP!Rest(net[c], n))]
    BY <1>6, SameOperations DEF CP!Reads
  <2>3. /\ net'[c] = CP!Rest(net[c], n) \/ net'[c] = ClientClosed(CP!Rest(net[c], n))
        /\ \A d \in Conn : d # c => net'[d] = net[d]
    BY <1>1, <2>2 DEF Nets
  <2>4. Good(c)
    BY <2>1, <2>3 DEF ClientClosed, CP!Rest, Connection
  <2> QED
    BY <1>2, <2>3, <2>4
<1>7. ASSUME NEW c \in Conn, CP!Sends, CP!SendsOn(c) PROVE \A d \in Conn : Good(d)
  <2>1. /\ net[c].client = "open" /\ net[c] \in Connection(Job, Buffer) /\ net[c].server # "none"
        /\ net' = [net EXCEPT ![c] = ClientSent(net[c], job)]
    BY <1>7, NewOrOpen, SameOperations DEF CP!SendsOn
  <2>2. net'[c] = ClientSent(net[c], job) /\ \A d \in Conn : d # c => net'[d] = net[d]
    BY <1>1, <2>1 DEF Nets
  <2>3. Good(c)
    BY <1>7, <2>1, <2>2 DEF ClientSent, Connection
  <2> QED
    BY <1>2, <2>2, <2>3
<1> HIDE DEF Good
<1>8. net' = net => \A c \in Conn : Good(c)
  BY <1>2
<1>9. CP!OneOperation
  BY ClientActs
<1> QED
  BY <1>3, <1>4, <1>5, <1>6, <1>7, <1>8, <1>9, SameOperations DEF CP!OneOperation

\* The steps of the client.
LEMMA ClientKeeps ==
  ASSUME SysInv, GuiSideStep
  PROVE  SysInv'
<1>1. /\ UNCHANGED <<main, thread, listening, serving, chunk, cards, exit, restarts, done, answered>>
      /\ UNCHANGED <<repeats, crashes>>
  BY ClientActs DEF serverVars, CP!peerVars
<1>2. /\ CP!HeldInv' /\ CP!OrderInv' /\ SP!TypeInv'
  BY KeepsBoth DEF Next, GuiSideStep
<1>3. \A c \in Conn :
        /\ net[c].client = "closed" => net'[c] = net[c]
        /\ \/ net'[c].server = net[c].server
           \/ listening /\ net[c].server = "none" /\ net'[c].server = "backlog"
        /\ net'[c].serverRst => net[c].serverRst \/ net'[c].client = "closed"
        /\ net'[c].client = "open" => net'[c].server # "none"
        /\ \/ net'[c].up = net[c].up
           \/ CP!Sends /\ net'[c].up = Append(net[c].up, job)
  BY ClientOnEnds
<1>4. ProcessInv'
  <2>1. Working' <=> Working
    BY <1>1 DEF Working
  <2>2. SP!Serving' <=> SP!Serving
    BY <1>1 DEF SP!Serving
  <2>3. SP!Serving => serving \in Conn /\ net[serving].server = "open"
    BY OnlyServed
  <2>4. thread = "close" => SP!Serving /\ net'[serving] = net[serving]
    <3>1. thread = "close" => SP!Serving
      BY DEF SP!Serving
    <3>2. thread = "close" => net[serving].client = "closed"
      BY <2>3, <3>1 DEF SysInv, ProcessInv, EndsInv, ServerAtEof, ServerAtReset
    <3> QED
      BY <1>3, <2>3, <3>1, <3>2
  <2>5. thread' = "close" => ServerAtEof(net[serving])' \/ ServerAtReset(net[serving])'
    BY <1>1, <2>4 DEF SysInv, ProcessInv, ServerAtEof, ServerAtReset
  <2>6. SP!Serving' => net'[serving'].server = "open"
    BY <1>1, <1>3, <2>2, <2>3
  <2>7. ~listening' => \A c \in Conn : net'[c].server \notin {"backlog", "open"}
    BY <1>1, <1>3 DEF SysInv, ProcessInv
  <2> QED
    BY <1>1, <2>1, <2>5, <2>6, <2>7 DEF SysInv, ProcessInv
<1>5. EndsInv'
  BY <1>3 DEF SysInv, EndsInv
<1>6. HistoryInv'
  <2>1. /\ CP!Sent <= CP!Sent' /\ CP!Sent \in Int /\ CP!Sent' \in Int
        /\ CP!Sends => CP!Sent < job /\ CP!Sent' = job
    <3>1. CP!ClientStep
      BY ClientActs
    <3>2. CP!Typed /\ CP!Typed'
      BY <1>2, Bounds, CP!HeldTypes, CP!HeldTypesNext DEF SysInv
    <3> QED
      BY <1>2, <3>1, <3>2, Bounds, CP!SentRises DEF SysInv, CP!Typed
  <2>2. asker \in [Job -> Conn \cup {NoConn}]
    BY DEF SysInv, SP!TypeInv, SP!TypeOK, SP!Conn, Conn
  <2>3. ASSUME NEW r \in Job, asker'[r] # NoConn PROVE r <= CP!Sent'
    <3>1. CASE asker'[r] = asker[r]
      BY <2>1, <2>3, <3>1 DEF SysInv, HistoryInv, Job
    <3>2. CASE asker'[r] # asker[r]
      <4>1. CP!Sends /\ r = job
        BY <2>2, <3>2, ClientActs
      <4> QED
        BY <2>1, <4>1
    <3> QED
      BY <3>1, <3>2
  <2>4. ASSUME NEW r \in done \cup answered
        PROVE  /\ r <= CP!Sent'
               /\ \A c \in Conn : \A j \in 1 .. Len(net'[c].up) : r < net'[c].up[j]
    <3>1. r \in Int /\ r <= CP!Sent
      BY Facts DEF SysInv, HistoryInv, Job
    <3>2. ASSUME NEW c \in Conn, NEW j \in 1 .. Len(net'[c].up) PROVE r < net'[c].up[j]
      <4>1. CASE net'[c].up = net[c].up
        BY <4>1 DEF SysInv, HistoryInv
      <4>2. CASE CP!Sends /\ net'[c].up = Append(net[c].up, job)
        <5>1. net[c].up \in Seq(Job) /\ Len(net[c].up) \in Nat
          BY Facts DEF Nets, Connection
        <5>2. Len(net'[c].up) = Len(net[c].up) + 1
          BY <4>2, <5>1, AppendProperties
        <5>3. CASE j = Len(net[c].up) + 1
          <6>1. net'[c].up[j] = job
            BY <4>2, <5>1, <5>3, AppendProperties
          <6> QED
            BY <2>1, <3>1, <4>2, <6>1
        <5>4. CASE j \in 1 .. Len(net[c].up)
          <6>1. net'[c].up[j] = net[c].up[j]
            BY <4>2, <5>1, <5>4, AppendProperties
          <6> QED
            BY <5>4, <6>1 DEF SysInv, HistoryInv
        <5> QED
          BY <5>1, <5>2, <5>3, <5>4
      <4> QED
        BY <1>3, <4>1, <4>2
    <3> QED
      BY <2>1, <3>1, <3>2
  <2>5. /\ Working' => \A r \in done' : \A j \in 1 .. Len(chunk') : r < chunk'[j]
        /\ \/ ~Working'
           \/ \A r \in answered' : \A j \in 1 .. Len(chunk') : r < chunk'[j]
           \/ thread' # "dispatch" /\ Server!Requests(chunk') \subseteq answered'
    BY <1>1 DEF SysInv, HistoryInv, Working, Server!Requests
  <2>6. \A r \in done' \cup answered' :
          /\ r <= CP!Sent'
          /\ \A c \in Conn : \A j \in 1 .. Len(net'[c].up) : r < net'[c].up[j]
    BY <1>1, <2>4
  <2> QED
    BY <2>3, <2>5, <2>6 DEF HistoryInv, Server!Requests
<1>7. BoundInv'
  <2>1. Replied' = Replied
    BY <1>1 DEF Replied, Asked, Server!Requests
  <2> QED
    BY <1>1, <2>1 DEF SysInv, BoundInv
<1> QED
  BY <1>2, <1>4, <1>5, <1>6, <1>7 DEF SysInv

\* What has been sent does not depend on the service.
LEMMA SentSame == UNCHANGED clientVars => CP!Sent' = CP!Sent
BY DEF clientVars, CP!Sent, CP!Taken

\* The steps of the service outside of keep_listening, from the opening of its socket
\* to the end of the process.
LEMMA QuietKeeps ==
  ASSUME SysInv, [Next]_vars, UNCHANGED clientVars,
         UNCHANGED <<net, chunk, cards, exit, restarts, listening, serving, done, answered>>,
         UNCHANGED <<asker, repeats, crashes>>,
         \/ thread' = thread
         \/ /\ thread \notin {"recv", "dispatch", "reader", "again", "close"}
            /\ thread' \notin {"recv", "dispatch", "reader", "again", "close"},
         main' = main \/ (main \notin {"socket", "gone"} /\ main' \notin {"socket", "gone"})
  PROVE  SysInv'
<1>1. /\ Working' <=> Working
      /\ SP!Serving' <=> SP!Serving
      /\ thread' = "close" <=> thread = "close"
      /\ Working => (thread' = "dispatch" <=> thread = "dispatch")
  BY DEF Working, SP!Serving
<1>2. UNCHANGED <<Asked, Replied>>
  BY <1>1 DEF Asked, Replied, Working, Server!Requests
<1>3. ProcessInv'
  BY <1>1 DEF SysInv, ProcessInv, ServerAtEof, ServerAtReset
<1>4. EndsInv'
  BY DEF SysInv, EndsInv
<1>5. HistoryInv'
  <2>1. \A r \in Job : asker'[r] # NoConn => r <= CP!Sent'
    BY SentSame DEF SysInv, HistoryInv
  <2>2. \A r \in done' \cup answered' :
          /\ r <= CP!Sent'
          /\ \A c \in Conn : \A j \in 1 .. Len(net'[c].up) : r < net'[c].up[j]
    BY SentSame DEF SysInv, HistoryInv
  <2>3. /\ Working' => \A r \in done' : \A j \in 1 .. Len(chunk') : r < chunk'[j]
        /\ \/ ~Working'
           \/ \A r \in answered' : \A j \in 1 .. Len(chunk') : r < chunk'[j]
           \/ thread' # "dispatch" /\ Server!Requests(chunk') \subseteq answered'
    BY <1>1 DEF SysInv, HistoryInv, Server!Requests
  <2> QED
    BY <2>1, <2>2, <2>3 DEF HistoryInv, Server!Requests
<1>6. BoundInv'
  <2>1. Replied' => Working
    BY <1>2 DEF Replied, Asked, Working
  <2> QED
    BY <1>1, <1>2, <2>1 DEF SysInv, BoundInv
<1> QED
  BY <1>3, <1>4, <1>5, <1>6, KeepsBoth DEF SysInv

\* A step of keep_listening, by what it makes of the connection that is served and of
\* the requests that the thread works on.
LEMMA ServedKeeps ==
  ASSUME SysInv, [Next]_vars, UNCHANGED clientVars, asker' = asker,
         listening, UNCHANGED <<listening, main, exit>>,
         \A c \in Conn :
           /\ net'[c].client = net[c].client
           /\ net'[c].serverRst => net[c].serverRst \/ net[c].client = "closed"
           /\ net[c].server # "none" => net'[c].server # "none"
           /\ \A j \in 1 .. Len(net'[c].up) : \E i \in 1 .. Len(net[c].up) : net'[c].up[j] = net[c].up[i],
         SP!Serving' => net'[serving'].server = "open",
         thread' = "close" => ServerAtEof(net[serving])' \/ ServerAtReset(net[serving])',
         Working' => /\ chunk' # <<>>
                     /\ \A r \in done' : \A j \in 1 .. Len(chunk') : r < chunk'[j]
                     /\ \/ \A r \in answered' : \A j \in 1 .. Len(chunk') : r < chunk'[j]
                        \/ thread' # "dispatch" /\ Server!Requests(chunk') \subseteq answered',
         \A r \in done' \cup answered' :
           r \in done \cup answered \/ (Working /\ r \in Server!Requests(chunk)),
         BoundInv'
  PROVE  SysInv'
<1>1. ProcessInv'
  BY DEF SysInv, ProcessInv
<1>2. EndsInv'
  BY DEF SysInv, EndsInv
<1>3. ASSUME NEW r \in done \cup answered \cup (IF Working THEN Server!Requests(chunk) ELSE {})
      PROVE  r <= CP!Sent /\ \A c \in Conn : \A j \in 1 .. Len(net[c].up) : r < net[c].up[j]
  <2>1. CASE r \in done \cup answered
    BY <2>1 DEF SysInv, HistoryInv
  <2>2. CASE Working /\ r \in Server!Requests(chunk)
    <3>1. PICK i \in DOMAIN chunk : r = chunk[i]
      BY <2>2 DEF Server!Requests
    <3>2. Asked = chunk /\ DOMAIN chunk = 1 .. Len(chunk)
      BY <2>2, WorkOf, Facts, LenProperties
    <3>3. CP!RequestOrder
      BY DEF SysInv, CP!OrderInv
    <3> QED
      BY <3>1, <3>2, <3>3, SameOperations DEF CP!RequestOrder
  <2> QED
    BY <1>3, <2>1, <2>2
<1>4. ASSUME NEW r \in done' \cup answered'
      PROVE  /\ r <= CP!Sent'
             /\ \A c \in Conn : \A j \in 1 .. Len(net'[c].up) : r < net'[c].up[j]
  <2>1. r <= CP!Sent /\ \A c \in Conn : \A j \in 1 .. Len(net[c].up) : r < net[c].up[j]
    BY <1>3
  <2>2. ASSUME NEW c \in Conn, NEW j \in 1 .. Len(net'[c].up) PROVE r < net'[c].up[j]
    <3>1. PICK i \in 1 .. Len(net[c].up) : net'[c].up[j] = net[c].up[i]
      OBVIOUS
    <3> QED
      BY <2>1, <3>1
  <2> QED
    BY <2>1, <2>2, SentSame
<1>5. \A r \in Job : asker'[r] # NoConn => r <= CP!Sent'
  BY SentSame DEF SysInv, HistoryInv
<1>6. HistoryInv'
  BY <1>4, <1>5 DEF HistoryInv
<1> QED
  BY <1>1, <1>2, <1>6, KeepsBoth DEF SysInv

\* The end of the process.
LEMMA EndKeeps ==
  ASSUME SysInv, [Next]_vars, Moved, NEW how \in {"exit1", "SIGPIPE", "SIGKILL", "SIGSEGV"}, exit = "no",
         Server!EndProcess(how)
  PROVE  SysInv'
<1>1. /\ listening' = FALSE /\ main' = "gone" /\ thread' = "gone" /\ exit' = how
      /\ UNCHANGED <<clientVars, chunk, cards, restarts, asker, done, answered>>
      /\ \A c \in Conn : net'[c] = IF net[c].server \in {"backlog", "open"}
                                   THEN ServerClosed(net[c]) ELSE net[c]
  BY DEF Server!EndProcess, Server!historyVars, Server!Conn, Conn, Server!ServerClosed, ServerClosed,
     Moved
<1>2. ~Working' /\ ~SP!Serving' /\ Replied' = FALSE
  BY <1>1, WorkNext DEF Working, SP!Serving
<1>3. \A c \in Conn :
        /\ net'[c].server \notin {"backlog", "open"}
        /\ net'[c].client = net[c].client /\ net'[c].serverRst = net[c].serverRst
        /\ net[c].server # "none" => net'[c].server # "none"
        /\ net'[c].up \in {net[c].up, <<>>}
  <2>1. \A c \in Conn : net[c] \in Connection(Job, Buffer)
    BY NewOrOpen
  <2> QED
    BY <1>1, <2>1 DEF ServerClosed, Connection
<1>4. ProcessInv'
  BY <1>1, <1>2, <1>3 DEF ProcessInv
<1>5. EndsInv'
  BY <1>3 DEF SysInv, EndsInv
<1>6. HistoryInv'
  <2>1. Len(<<>>) = 0
    OBVIOUS
  <2>2. \A r \in done' \cup answered' :
          /\ r <= CP!Sent'
          /\ \A c \in Conn : \A j \in 1 .. Len(net'[c].up) : r < net'[c].up[j]
    BY <1>1, <1>3, <2>1, SentSame DEF SysInv, HistoryInv
  <2>3. \A r \in Job : asker'[r] # NoConn => r <= CP!Sent'
    BY <1>1, SentSame DEF SysInv, HistoryInv
  <2> QED
    BY <1>2, <2>2, <2>3 DEF HistoryInv
<1>7. BoundInv'
  <2>1. crashes' \in {crashes, crashes + 1} /\ repeats' = repeats
    BY DEF Moved
  <2>2. crashes \in Nat /\ restarts \in Nat
    BY Facts, SystemBounds
  <2>3. crashes' <= restarts' + 1
    BY <1>1, <2>1, <2>2 DEF SysInv, BoundInv
  <2> QED
    BY <1>1, <1>2, <2>1, <2>3 DEF SysInv, BoundInv
<1> QED
  BY <1>4, <1>5, <1>6, <1>7, KeepsBoth DEF SysInv

\* start() of the process, and its restart by systemd.
LEMMA StartKeeps ==
  ASSUME SysInv, [Next]_vars, Moved, Server!InitSocketServer \/ Server!SystemdRestart
  PROVE  SysInv'
<1>1. /\ UNCHANGED <<clientVars, net, asker, done, answered>> /\ ~listening
      /\ \/ /\ main' = "spawn" /\ listening' = TRUE /\ exit = "no"
            /\ UNCHANGED <<thread, serving, chunk, cards, exit, restarts>>
         \/ /\ main' = "socket" /\ listening' = FALSE /\ thread' = "unborn" /\ exit' = "no"
            /\ restarts' = restarts + 1 /\ exit # "no"
  BY Facts DEF Server!InitSocketServer, Server!MainSame, Server!MainKeeps, Server!historyVars, Server!SystemdRestart,
     Server!ProcessStart, Moved, SysInv, ProcessInv
<1>2. /\ thread \notin {"recv", "dispatch", "reader", "again", "close"}
      /\ thread' \notin {"recv", "dispatch", "reader", "again", "close"}
  BY <1>1, Facts
<1>3. ~Working' /\ ~SP!Serving' /\ Replied' = FALSE
  BY <1>2, WorkNext DEF Working, SP!Serving
<1>4. repeats' = repeats /\ crashes' = crashes
  BY <1>1, Facts DEF Moved, Crashed
<1>5. ProcessInv'
  BY <1>1, <1>2, <1>3 DEF SysInv, ProcessInv
<1>6. EndsInv'
  BY <1>1 DEF SysInv, EndsInv
<1>7. HistoryInv'
  BY <1>1, <1>3, SentSame DEF SysInv, HistoryInv
<1>8. BoundInv'
  BY <1>1, <1>3, <1>4, Facts DEF SysInv, BoundInv
<1> QED
  BY <1>5, <1>6, <1>7, <1>8, KeepsBoth DEF SysInv

\* The bounds, when the process does not end.
LEMMA BoundKeeps ==
  ASSUME SysInv, UNCHANGED <<exit, restarts, crashes, repeats>>,
         answered' \subseteq Job, answered \subseteq answered',
         Replied' /\ thread' # "dispatch" =>
           repeats + MaxCards <= MaxCards * Cardinality(answered') + cards'
  PROVE  BoundInv'
<1>1. /\ IsFiniteSet(answered') /\ Cardinality(answered) <= Cardinality(answered')
      /\ Cardinality(answered) \in Nat /\ Cardinality(answered') \in Nat
  <2>1. IsFiniteSet(Job)
    BY FS_Interval, SystemBounds DEF Job
  <2>2. IsFiniteSet(answered')
    BY <2>1, FS_Subset
  <2> QED
    BY <2>2, FS_Subset, FS_CardinalityType
<1>2. MaxCards * Cardinality(answered) <= MaxCards * Cardinality(answered')
  BY <1>1, SystemBounds
<1>3. /\ MaxCards * Cardinality(answered) \in Nat /\ MaxCards * Cardinality(answered') \in Nat
      /\ repeats \in Nat
  BY <1>1, SystemBounds, Facts
<1>4. repeats' <= MaxCards * Cardinality(answered')
  BY <1>2, <1>3 DEF SysInv, BoundInv
<1> QED
  BY <1>4 DEF SysInv, BoundInv

\* accept().
LEMMA AcceptKeeps ==
  ASSUME SysInv, [Next]_vars, Moved, NEW c \in Conn, Server!Accept(c)
  PROVE  SysInv'
<1>1. /\ thread = "accept" /\ thread' = "recv" /\ net[c].server = "backlog" /\ serving' = c
      /\ \A d \in Conn : net'[d] = IF d = c THEN [net[c] EXCEPT !.server = "open"] ELSE net[d]
      /\ UNCHANGED <<clientVars, asker, listening, main, exit, restarts, chunk, cards, done, answered>>
  BY Facts DEF Server!Accept, Server!ListenSame, Server!ListenKeeps, Server!historyVars, Moved, Nets
<1>2. net[c] \in Connection(Job, Buffer)
  BY NewOrOpen
<1>3. \A d \in Conn :
        /\ net'[d].client = net[d].client /\ net'[d].serverRst = net[d].serverRst
        /\ net'[d].up = net[d].up /\ (net[d].server # "none" => net'[d].server # "none")
  BY <1>1, <1>2 DEF Connection
<1>4. net'[c].server = "open"
  BY <1>1, <1>2 DEF Connection
<1>5. listening /\ ~Working /\ ~Working' /\ Replied' = FALSE /\ crashes' = crashes /\ repeats' = repeats
  BY <1>1, Facts, WorkNext DEF Working, Moved, Crashed
<1>6. BoundInv'
  BY <1>1, <1>5, BoundKeeps, Facts
<1> QED
  BY <1>1, <1>3, <1>4, <1>5, <1>6, ServedKeeps

\* recv(): what is read is later than all that was carried out or answered.
LEMMA RecvKeeps ==
  ASSUME SysInv, [Next]_vars, Moved, Server!Recv
  PROVE  SysInv'
<1>1. /\ thread = "recv" /\ thread' = "dispatch"
      /\ UNCHANGED <<clientVars, serving, asker, listening, main, exit, restarts, cards, done, answered>>
  BY DEF Server!Recv, Server!ListenSame, Server!ListenKeeps, Server!historyVars, Moved
<1>2. /\ serving \in Conn /\ net[serving].server = "open" /\ net[serving] \in Connection(Job, Buffer)
      /\ net[serving].up \in Seq(Job) /\ Len(net[serving].up) \in Nat
  BY <1>1, OnlyServed, LenProperties DEF SP!Serving
<1>3. PICK n \in 1 .. Len(net[serving].up) :
        /\ chunk' = First(net[serving].up, n)
        /\ net' = [net EXCEPT ![serving] = ServerTook(net[serving], n)]
  BY DEF Server!Recv, Server!First, First, Server!ServerTook, ServerTook
<1>4. n \in 0 .. Len(net[serving].up) /\ n >= 1
  BY <1>2, <1>3
<1>5. /\ chunk' \in Seq(Job) /\ Len(chunk') = n /\ \A i \in 1 .. n : chunk'[i] = net[serving].up[i]
      /\ Len(SubSeq(net[serving].up, n + 1, Len(net[serving].up))) = Len(net[serving].up) - n
      /\ \A i \in 1 .. Len(net[serving].up) - n :
           SubSeq(net[serving].up, n + 1, Len(net[serving].up))[i] = net[serving].up[n + i]
  BY <1>2, <1>3, <1>4, CP!SplitTypes DEF CP!First, First
<1>6. \A d \in Conn : net'[d] = IF d = serving THEN ServerTook(net[serving], n) ELSE net[d]
  BY <1>2, <1>3, Facts DEF Nets
<1>7. /\ ServerTook(net[serving], n).client = net[serving].client
      /\ ServerTook(net[serving], n).server = "open"
      /\ ServerTook(net[serving], n).serverRst = net[serving].serverRst
      /\ ServerTook(net[serving], n).up = SubSeq(net[serving].up, n + 1, Len(net[serving].up))
  BY <1>2 DEF ServerTook, Connection
<1>8. ASSUME NEW j \in 1 .. Len(net'[serving].up)
      PROVE  \E i \in 1 .. Len(net[serving].up) : net'[serving].up[j] = net[serving].up[i]
  <2>1. net'[serving].up = SubSeq(net[serving].up, n + 1, Len(net[serving].up))
    BY <1>2, <1>6, <1>7
  <2>2. j \in 1 .. Len(net[serving].up) - n
    BY <1>5, <2>1
  <2>3. n + j \in 1 .. Len(net[serving].up) /\ net'[serving].up[j] = net[serving].up[n + j]
    BY <1>2, <1>4, <1>5, <2>1, <2>2
  <2> QED
    BY <2>3
<1>9. \A c \in Conn :
        /\ net'[c].client = net[c].client
        /\ net'[c].serverRst => net[c].serverRst \/ net[c].client = "closed"
        /\ net[c].server # "none" => net'[c].server # "none"
        /\ \A j \in 1 .. Len(net'[c].up) : \E i \in 1 .. Len(net[c].up) : net'[c].up[j] = net[c].up[i]
  <2>1. \A c \in Conn : c # serving => net'[c] = net[c]
    BY <1>6
  <2>2. /\ net'[serving].client = net[serving].client /\ net'[serving].server = "open"
        /\ net'[serving].serverRst = net[serving].serverRst
    BY <1>2, <1>6, <1>7
  <2>3. ASSUME NEW c \in Conn, c # serving
        PROVE  /\ net'[c].client = net[c].client
               /\ net'[c].serverRst => net[c].serverRst \/ net[c].client = "closed"
               /\ net[c].server # "none" => net'[c].server # "none"
               /\ \A j \in 1 .. Len(net'[c].up) : \E i \in 1 .. Len(net[c].up) : net'[c].up[j] = net[c].up[i]
    <3>1. net'[c] = net[c]
      BY <2>1, <2>3
    <3> QED
      BY <3>1
  <2>4. net'[serving].serverRst => net[serving].serverRst \/ net[serving].client = "closed"
    BY <2>2
  <2>5. net[serving].server # "none" => net'[serving].server # "none"
    BY <2>2
  <2>6. ASSUME NEW c \in Conn, c = serving
        PROVE  /\ net'[c].client = net[c].client
               /\ net'[c].serverRst => net[c].serverRst \/ net[c].client = "closed"
               /\ net[c].server # "none" => net'[c].server # "none"
               /\ \A j \in 1 .. Len(net'[c].up) : \E i \in 1 .. Len(net[c].up) : net'[c].up[j] = net[c].up[i]
    BY <1>8, <2>2, <2>4, <2>5, <2>6, Zenon
  <2> QED
    BY <2>3, <2>6
<1>10. \A r \in done \cup answered : \A j \in 1 .. Len(chunk') : r < chunk'[j]
  <2>1. ASSUME NEW r \in done \cup answered, NEW j \in 1 .. Len(chunk') PROVE r < chunk'[j]
    <3>1. j \in 1 .. Len(net[serving].up) /\ chunk'[j] = net[serving].up[j]
      BY <1>2, <1>4, <1>5
    <3> QED
      BY <1>2, <3>1 DEF SysInv, HistoryInv
  <2> QED
    BY <2>1
<1>11. chunk' # <<>>
  BY <1>4, <1>5
<1>12. listening /\ crashes' = crashes /\ repeats' = repeats
  BY <1>1, Facts DEF Moved, Crashed
<1>13. BoundInv'
  BY <1>1, <1>12, BoundKeeps, Facts
<1>14. SP!Serving' => net'[serving'].server = "open"
  BY <1>1, <1>2, <1>6, <1>7
<1> QED
  BY <1>1, <1>9, <1>10, <1>11, <1>12, <1>13, <1>14, ServedKeeps

\* recv() returns 0 or -1, and the connection is closed.
LEMMA CloseKeeps ==
  ASSUME SysInv, [Next]_vars, Moved, Server!RecvEnds \/ Server!CloseClient
  PROVE  SysInv'
<1>1. /\ UNCHANGED <<clientVars, serving, asker, listening, main, exit, restarts, chunk, cards>>
      /\ UNCHANGED <<done, answered>>
      /\ ~Working /\ ~Working' /\ SP!Serving
  BY DEF Server!RecvEnds, Server!CloseClient, Server!ListenSame, Server!ListenKeeps, Server!historyVars, Moved, Working,
     SP!Serving
<1>2. Replied' = FALSE /\ listening /\ crashes' = crashes /\ repeats' = repeats
  BY <1>1, Facts, WorkNext DEF Moved, Crashed, SP!Serving
<1>3. BoundInv'
  BY <1>1, <1>2, BoundKeeps, Facts
<1>4. /\ serving \in Conn /\ net[serving].server = "open" /\ net[serving] \in Connection(Job, Buffer)
  BY <1>1, OnlyServed
<1>5. CASE Server!RecvEnds
  <2>1. net' = net /\ (ServerAtEof(net[serving]) \/ ServerAtReset(net[serving]))
    BY <1>5 DEF Server!RecvEnds, Server!ServerAtEof, ServerAtEof, Server!ServerAtReset, ServerAtReset
  <2>2. ServerAtEof(net[serving])' \/ ServerAtReset(net[serving])'
    BY <1>1, <2>1 DEF ServerAtEof, ServerAtReset
  <2> QED
    BY <1>1, <1>2, <1>3, <1>4, <2>1, <2>2, ServedKeeps
<1>6. CASE Server!CloseClient
  <2>1. /\ thread' = "accept"
        /\ \A d \in Conn : net'[d] = IF d = serving THEN ServerClosed(net[serving]) ELSE net[d]
    BY <1>4, <1>6, Facts DEF Server!CloseClient, Server!ServerClosed, ServerClosed, Nets
  <2>2. /\ ServerClosed(net[serving]).client = net[serving].client
        /\ ServerClosed(net[serving]).server = "closed"
        /\ ServerClosed(net[serving]).serverRst = net[serving].serverRst
        /\ ServerClosed(net[serving]).up = <<>> /\ Len(<<>>) = 0
    BY <1>4 DEF ServerClosed, Connection
  <2>3. \A c \in Conn :
          /\ net'[c].client = net[c].client
          /\ net'[c].serverRst => net[c].serverRst \/ net[c].client = "closed"
          /\ net[c].server # "none" => net'[c].server # "none"
          /\ \A j \in 1 .. Len(net'[c].up) : \E i \in 1 .. Len(net[c].up) : net'[c].up[j] = net[c].up[i]
    BY <2>1, <2>2
  <2>4. ~SP!Serving'
    BY <2>1 DEF SP!Serving
  <2> QED
    BY <1>1, <1>2, <1>3, <2>1, <2>3, <2>4, ServedKeeps
<1> QED
  BY <1>5, <1>6

\* An answer, whether it reaches the client or not.
LEMMA SendLeaves ==
  ASSUME SysInv, NEW next, Server!Send(next), Working
  PROVE  /\ serving \in Conn /\ net'[serving].server = "open" /\ serving' = serving
         /\ \A c \in Conn :
              /\ net'[c].client = net[c].client
              /\ net'[c].serverRst => net[c].serverRst \/ net[c].client = "closed"
              /\ net[c].server # "none" => net'[c].server # "none"
              /\ net'[c].up = net[c].up
         /\ UNCHANGED <<asker, listening, main, restarts, exit>> /\ listening
         /\ thread' = next /\ answered' = answered \cup Server!Requests(chunk)
<1>1. /\ serving \in Conn /\ net[serving].server = "open"
      /\ net' = [net EXCEPT ![serving] = Server!ServerSent(@, Server!Reply(chunk))]
      /\ serving' = serving /\ UNCHANGED <<asker, listening, main, restarts, exit>> /\ listening
      /\ thread' = next /\ answered' = answered \cup Server!Requests(chunk)
  BY SendIs DEF Server!Send, Server!ListenSame, Server!ListenKeeps
<1>2. net[serving] \in Connection(Job, Buffer) /\ net[serving].client \in {"open", "closed"}
  <2>1. net[serving] \in Connection(Job, Buffer) /\ net[serving].client # "new"
    BY <1>1, NewOrOpen
  <2>2. net[serving].client # "none"
    BY <1>1, SameOperations DEF SysInv, CP!HeldInv, CP!LifeInv, CP!Life, Unused
  <2> QED
    BY <2>1, <2>2 DEF Connection, ClientEnd
<1>3. \A d \in Conn : net'[d] = IF d = serving THEN Server!ServerSent(net[d], Server!Reply(chunk)) ELSE net[d]
  BY <1>1, Facts DEF Nets
<1>4. /\ net'[serving].client = net[serving].client /\ net'[serving].server = net[serving].server
      /\ net'[serving].up = net[serving].up
      /\ net'[serving].serverRst => net[serving].serverRst \/ net[serving].client = "closed"
  BY <1>1, <1>2, <1>3 DEF Server!ServerSent, Connection
<1> QED
  BY <1>1, <1>3, <1>4

\* The requests that the thread works on.
LEMMA RequestsAre ==
  ASSUME SysInv, Working
  PROVE  /\ Server!Requests(chunk) \subseteq Job /\ Server!Requests(chunk) # {}
         /\ \A r \in Server!Requests(chunk) : \E j \in 1 .. Len(chunk) : r = chunk[j]
         /\ chunk \in Seq(Job) /\ chunk # <<>>
<1>1. chunk \in Seq(Job) /\ chunk # <<>> /\ DOMAIN chunk = 1 .. Len(chunk) /\ Len(chunk) >= 1
  BY AllOrNone, Facts, LenProperties
<1>2. \A j \in 1 .. Len(chunk) : chunk[j] \in Job
  BY <1>1, ElementOfSeq
<1>3. chunk[1] \in Server!Requests(chunk)
  BY <1>1 DEF Server!Requests
<1> QED
  BY <1>1, <1>2, <1>3 DEF Server!Requests

\* The end of the work on a request.
LEMMA DoneKeeps ==
  ASSUME SysInv, [Next]_vars, Moved,
         Server!DispatchLost \/ Server!ReaderReturns \/ (Server!DispatchAnswer /\ Server!Send("recv"))
  PROVE  SysInv'
<1>1. /\ Working /\ thread' = "recv" /\ UNCHANGED <<clientVars, serving, asker, listening, main, exit, restarts>>
      /\ answered \subseteq answered' /\ answered' \subseteq answered \cup Server!Requests(chunk)
      /\ done' \in {done, done \cup Server!Requests(chunk)}
  <2>1. Working
    BY DEF Server!DispatchLost, Server!ReaderReturns, Server!DispatchAnswer, Working
  <2>2. CASE Server!DispatchLost \/ Server!ReaderReturns
    BY <2>1, <2>2 DEF Server!DispatchLost, Server!ReaderReturns, Server!Over, Server!ListenSame, Server!ListenKeeps, Moved
  <2>3. CASE Server!DispatchAnswer /\ Server!Send("recv")
    <3>1. done' \in {done, done \cup Server!Requests(chunk)}
      BY <2>1, <2>3, SendLeaves, Facts DEF Server!DispatchAnswer, Server!Over, Server!Sigpipe,
         Server!EndProcess
    <3> QED
      BY <2>1, <2>3, <3>1, SendLeaves DEF Moved
  <2> QED
    BY <2>1, <2>2, <2>3
<1>2. /\ serving \in Conn /\ net'[serving].server = "open"
      /\ \A c \in Conn :
           /\ net'[c].client = net[c].client
           /\ net'[c].serverRst => net[c].serverRst \/ net[c].client = "closed"
           /\ net[c].server # "none" => net'[c].server # "none"
           /\ net'[c].up = net[c].up
  <2>1. CASE Server!DispatchLost \/ Server!ReaderReturns
    <3>1. net' = net /\ serving \in Conn /\ net[serving].server = "open"
      BY <1>1, <2>1, OnlyServed DEF Server!DispatchLost, Server!ReaderReturns, Working, SP!Serving
    <3> QED
      BY <3>1
  <2>2. CASE Server!DispatchAnswer /\ Server!Send("recv")
    BY <1>1, <2>2, SendLeaves
  <2> QED
    BY <2>1, <2>2
<1>3. ~Working' /\ Replied' = FALSE /\ listening /\ crashes' = crashes /\ repeats' = repeats
  BY <1>1, WorkNext, Facts DEF Working, Moved, Crashed
<1>4. BoundInv'
  BY <1>1, <1>3, RequestsAre, Facts, BoundKeeps
<1> QED
  BY <1>1, <1>2, <1>3, <1>4, ServedKeeps

\* The steps of the work on a card request that send nothing.
LEMMA CardKeeps ==
  ASSUME SysInv, [Next]_vars, Moved,
         Server!DispatchCard \/ Server!CardBlank \/ Server!CardUncounted \/ Server!NextCard
  PROVE  SysInv'
<1>1. /\ Working /\ Working' /\ thread' \in {"reader", "again"}
      /\ UNCHANGED <<clientVars, net, chunk, serving, asker, listening, main, exit, restarts, done, answered>>
      /\ \/ thread = "dispatch"
         \/ thread # "dispatch" /\ cards' \in {cards, cards + 1}
  BY DEF Server!DispatchCard, Server!CardBlank, Server!CardUncounted, Server!NextCard,
     Server!ListenSame, Server!ListenKeeps, Server!historyVars, Working, Moved
<1>2. Replied' = Replied
  BY <1>1 DEF Replied, Asked, Working, Server!Requests
<1>3. listening /\ crashes' = crashes /\ repeats' = repeats /\ serving \in Conn /\ net[serving].server = "open"
  BY <1>1, Facts, OnlyServed DEF Moved, Crashed, Working, SP!Serving
<1>4. BoundInv'
  <2>1. Replied' /\ thread' # "dispatch" =>
          repeats + MaxCards <= MaxCards * Cardinality(answered') + cards'
    <3>1. CASE thread = "dispatch"
      BY <1>1, <1>2, <3>1, AllOrNone
    <3>2. CASE thread # "dispatch" /\ cards' \in {cards, cards + 1}
      <4>1. cards \in Nat /\ repeats \in Nat /\ MaxCards \in Nat
        BY Facts, SystemBounds
      <4>2. Replied => repeats + MaxCards <= MaxCards * Cardinality(answered) + cards
        BY <3>2 DEF SysInv, BoundInv
      <4>3. MaxCards * Cardinality(answered) \in Nat
        <5>1. IsFiniteSet(Job) /\ answered \subseteq Job
          BY Facts, FS_Interval, SystemBounds DEF Job
        <5>2. Cardinality(answered) \in Nat
          BY <5>1, FS_Subset, FS_CardinalityType
        <5> QED
          BY <4>1, <5>2
      <4> QED
        BY <1>1, <1>2, <3>2, <4>1, <4>2, <4>3
    <3> QED
      BY <1>1, <3>1, <3>2
  <2> QED
    BY <1>1, <1>3, <2>1, BoundKeeps, Facts
<1>5. /\ chunk' # <<>>
      /\ \A r \in done' : \A j \in 1 .. Len(chunk') : r < chunk'[j]
      /\ \/ \A r \in answered' : \A j \in 1 .. Len(chunk') : r < chunk'[j]
         \/ thread' # "dispatch" /\ Server!Requests(chunk') \subseteq answered'
  BY <1>1 DEF SysInv, ProcessInv, HistoryInv, Server!Requests
<1> QED
  BY <1>1, <1>3, <1>4, <1>5, ServedKeeps

\* A card's answer: the first to the request, or one more.
LEMMA AnswerKeeps ==
  ASSUME SysInv, [Next]_vars, UNCHANGED clientVars, Server!CardAnswers, Server!Send("again"),
         UNCHANGED crashes,
         IF Replied THEN repeats' = repeats + 1 ELSE repeats' = repeats
  PROVE  SysInv'
<1>1. thread = "reader" /\ Working /\ Asked = chunk
  BY WorkOf DEF Server!CardAnswers, Working
<1>2. /\ serving \in Conn /\ net'[serving].server = "open" /\ serving' = serving
      /\ \A c \in Conn :
           /\ net'[c].client = net[c].client
           /\ net'[c].serverRst => net[c].serverRst \/ net[c].client = "closed"
           /\ net[c].server # "none" => net'[c].server # "none"
           /\ net'[c].up = net[c].up
      /\ UNCHANGED <<asker, listening, main, restarts, exit>> /\ listening
      /\ thread' = "again" /\ answered' = answered \cup Server!Requests(chunk)
  BY <1>1, SendLeaves
<1>3. cards < MaxCards /\ cards' = cards + 1 /\ UNCHANGED <<chunk, done>>
  BY <1>2, Facts DEF Server!CardAnswers, Server!Sigpipe, Server!EndProcess
<1>4. Working' /\ chunk' # <<>> /\ Server!Requests(chunk') = Server!Requests(chunk)
  BY <1>1, <1>2, <1>3, AllOrNone DEF Working, Server!Requests
<1>5. /\ answered' \subseteq Job /\ answered \subseteq answered'
      /\ Server!Requests(chunk') \subseteq answered'
  BY <1>1, <1>2, <1>4, RequestsAre, Facts
<1>6. /\ IsFiniteSet(answered) /\ IsFiniteSet(answered')
      /\ Cardinality(answered) \in Nat /\ Cardinality(answered') \in Nat
      /\ Cardinality(answered) <= Cardinality(answered')
  <2>1. IsFiniteSet(Job) /\ answered \subseteq Job
    BY Facts, FS_Interval, SystemBounds DEF Job
  <2>2. IsFiniteSet(answered) /\ IsFiniteSet(answered')
    BY <1>5, <2>1, FS_Subset
  <2> QED
    BY <1>5, <2>2, FS_Subset, FS_CardinalityType
<1>7. /\ repeats \in Nat /\ cards \in Nat /\ MaxCards \in Nat /\ cards < MaxCards
      /\ MaxCards * Cardinality(answered) \in Nat /\ MaxCards * Cardinality(answered') \in Nat
  BY <1>3, <1>6, Facts, SystemBounds
<1>8. repeats <= MaxCards * Cardinality(answered) /\ crashes' <= (IF exit' = "no" THEN restarts' ELSE restarts' + 1)
  BY <1>2 DEF SysInv, BoundInv
<1>9. BoundInv'
  <2>1. CASE Replied
    <3>1. repeats' = repeats + 1
      BY <2>1
    <3>2. answered' = answered
      BY <1>1, <1>2, <2>1, AllOrNone
    <3>3. repeats + MaxCards <= MaxCards * Cardinality(answered) + cards
      BY <1>1, <2>1 DEF SysInv, BoundInv
    <3>4. repeats + 1 <= MaxCards * Cardinality(answered)
          /\ repeats + 1 + MaxCards <= MaxCards * Cardinality(answered) + (cards + 1)
      BY <1>7, <3>3
    <3> QED
      BY <1>3, <1>8, <3>1, <3>2, <3>4 DEF BoundInv
  <2>2. CASE ~Replied
    <3>1. Cardinality(answered) + 1 <= Cardinality(answered')
      <4>1. PICK r \in Server!Requests(chunk) : r \notin answered
        BY <1>1, <2>2, AllOrNone
      <4>2. /\ IsFiniteSet(answered \cup {r})
            /\ Cardinality(answered \cup {r}) = Cardinality(answered) + 1
        BY <1>6, <4>1, FS_AddElement
      <4>3. answered \cup {r} \subseteq answered'
        BY <1>2, <4>1
      <4> QED
        BY <1>6, <4>2, <4>3, FS_Subset
    <3>2. MaxCards * Cardinality(answered) + MaxCards <= MaxCards * Cardinality(answered')
      <4>1. MaxCards * (Cardinality(answered) + 1) <= MaxCards * Cardinality(answered')
        BY <1>6, <1>7, <3>1
      <4>2. MaxCards * (Cardinality(answered) + 1) = MaxCards * Cardinality(answered) + MaxCards
        BY <1>6, <1>7
      <4> QED
        BY <4>1, <4>2
    <3>3. repeats' = repeats
      BY <2>2
    <3>4. /\ repeats <= MaxCards * Cardinality(answered')
          /\ repeats + MaxCards <= MaxCards * Cardinality(answered') + (cards + 1)
      BY <1>7, <1>8, <3>2
    <3> QED
      BY <1>3, <1>8, <3>3, <3>4 DEF BoundInv
  <2> QED
    BY <2>1, <2>2
<1>10. \A r \in done' : \A j \in 1 .. Len(chunk') : r < chunk'[j]
  BY <1>1, <1>3 DEF SysInv, HistoryInv
<1> QED
  BY <1>1, <1>2, <1>3, <1>4, <1>5, <1>9, <1>10, ServedKeeps

\* The steps of the service.
LEMMA ServiceKeeps ==
  ASSUME SysInv, ServiceStep
  PROVE  SysInv'
<1>1. [Next]_vars
  BY DEF Next, ServiceStep
<1>2. UNCHANGED clientVars /\ (Moved \/ ServerRepeats)
  BY DEF ServiceStep, MainStep, ThreadStep, CardStep, ServerMoves, ServerRepeats, Moved
<1>3. ASSUME Moved,
             \/ Server!Spawn \/ Server!RunBg \/ Server!RunBgNotify \/ Server!PcdInit
             \/ Server!ConnectSlot \/ Server!Return \/ Server!StopNotify
             \/ Server!TakeStep \/ Server!ThreadSpurious \/ UNCHANGED Server!vars
      PROVE  SysInv'
  <2>1. /\ UNCHANGED <<net, chunk, cards, exit, restarts, listening, serving, done, answered, asker>>
        /\ main' = main \/ (main \notin {"socket", "gone"} /\ main' \notin {"socket", "gone"})
    BY <1>3 DEF Server!Spawn, Server!RunBg, Server!RunBgNotify, Server!PcdInit, Server!ConnectSlot,
       Server!Return, Server!StopNotify, Server!MainSame, Server!MainKeeps, Server!TakeStep, Server!ThreadLoop,
       Server!ThreadCheck, Server!ThreadSleep, Server!ThreadSpurious, Server!QueueSame,
       Server!historyVars, Server!vars, Server!processVars
  <2>2. main = "spawn" => thread = "unborn"
    BY DEF SysInv, SP!TypeInv, SP!CountInv
  <2>3. \/ thread' = thread
        \/ /\ thread \notin {"recv", "dispatch", "reader", "again", "close"}
           /\ thread' \notin {"recv", "dispatch", "reader", "again", "close"}
    BY <1>3, <2>2 DEF Server!Spawn, Server!RunBg, Server!RunBgNotify, Server!PcdInit,
       Server!ConnectSlot, Server!Return, Server!StopNotify, Server!Woken, Server!TakeStep,
       Server!ThreadLoop, Server!ThreadCheck, Server!ThreadSleep, Server!ThreadSpurious,
       Server!vars, Server!processVars
  <2>4. repeats' = repeats /\ crashes' = crashes
    BY <1>3, <2>1, Facts DEF Moved, Crashed
  <2> QED
    BY <1>1, <1>2, <2>1, <2>3, <2>4, QuietKeeps
<1>4. ASSUME Moved, NEW how \in {"exit1", "SIGPIPE", "SIGKILL", "SIGSEGV"}, Server!EndProcess(how),
             main # "gone"
      PROVE  SysInv'
  <2>1. exit = "no"
    BY <1>4 DEF SysInv, ProcessInv
  <2> QED
    BY <1>1, <1>4, <2>1, EndKeeps
<1>5. CASE Moved /\ Server!MainStep
  <2>1. CASE Server!InitSocketFails
    BY <1>4, <1>5, <2>1 DEF Server!InitSocketFails
  <2>2. CASE Server!StopJoin
    BY <1>3, <1>4, <1>5, <2>2 DEF Server!StopJoin
  <2> QED
    BY <1>1, <1>3, <1>5, <2>1, <2>2, StartKeeps DEF Server!MainStep
<1>6. CASE Moved /\ (Server!DispatchAnswer \/ (Server!CardAnswers /\ (Replied => exit' # "no")))
  <2>1. main # "gone" /\ exit = "no" /\ listening /\ Working
    BY <1>6, Facts DEF Server!DispatchAnswer, Server!CardAnswers, Working
  <2>2. CASE Server!Sigpipe
    BY <1>4, <1>6, <2>1, <2>2 DEF Server!Sigpipe
  <2>3. CASE Server!DispatchAnswer /\ Server!Send("recv")
    BY <1>1, <1>6, <2>3, DoneKeeps
  <2>4. CASE Server!CardAnswers /\ Server!Send("again") /\ (Replied => exit' # "no")
    <3>1. exit' = "no" /\ listening' = listening
      BY <2>1, <2>4, SendLeaves
    <3>2. ~Replied /\ repeats' = repeats /\ crashes' = crashes
      BY <1>6, <2>1, <2>4, <3>1 DEF Moved, Crashed
    <3> QED
      BY <1>1, <1>2, <2>4, <3>2, AnswerKeeps
  <2> QED
    BY <1>6, <2>2, <2>3, <2>4 DEF Server!DispatchAnswer, Server!CardAnswers
<1>7. CASE ServerRepeats
  <2>1. Server!CardAnswers /\ exit' = "no" /\ repeats' = repeats + 1 /\ crashes' = crashes /\ Replied
    BY <1>7 DEF ServerRepeats
  <2>2. Server!Send("again")
    BY <2>1 DEF Server!CardAnswers, Server!Sigpipe, Server!EndProcess
  <2> QED
    BY <1>1, <1>2, <2>1, <2>2, AnswerKeeps
<1>8. CASE Moved /\ Server!ListenStep
  <2>1. \/ (\E c \in Conn : Server!Accept(c)) \/ Server!Recv
        \/ Server!RecvEnds \/ Server!CloseClient \/ Server!DispatchAnswer
        \/ Server!DispatchCard \/ Server!DispatchLost \/ Server!ReaderReturns \/ Server!NextCard
    BY <1>8 DEF Server!ListenStep, Server!SearchStep, Server!Conn, Conn
  <2>2. CASE \E c \in Conn : Server!Accept(c)
    BY <1>1, <1>8, <2>2, AcceptKeeps
  <2>3. CASE Server!Recv
    BY <1>1, <1>8, <2>3, RecvKeeps
  <2>4. CASE Server!RecvEnds \/ Server!CloseClient
    BY <1>1, <1>8, <2>4, CloseKeeps
  <2>5. CASE Server!DispatchLost \/ Server!ReaderReturns
    BY <1>1, <1>8, <2>5, DoneKeeps
  <2>6. CASE Server!DispatchCard \/ Server!NextCard
    BY <1>1, <1>8, <2>6, CardKeeps
  <2> QED
    BY <1>6, <1>8, <2>1, <2>2, <2>3, <2>4, <2>5, <2>6
<1>9. CASE Moved /\ Server!AcceptFails
  <2>1. main # "gone"
    BY <1>9, Facts DEF Server!AcceptFails
  <2> QED
    BY <1>4, <1>9, <2>1 DEF Server!AcceptFails
<1>10. CASE CardStep
  <2>1. CASE ServerMoves(Server!HandlerCrashes)
    <3>1. Moved /\ thread = "reader" /\ Server!EndProcess("SIGSEGV")
      BY <2>1 DEF ServerMoves, Moved, Server!HandlerCrashes
    <3>2. main # "gone"
      BY <3>1, Facts
    <3> QED
      BY <1>4, <3>1, <3>2
  <2> QED
    BY <1>1, <1>6, <1>7, <1>10, <2>1, CardKeeps DEF CardStep, ServerMoves, Moved
<1>11. CASE MainStep \/ ServerMoves(Server!TakeStep) \/ ServerMoves(Server!ListenStep)
            \/ ServerMoves(Server!ThreadSpurious) \/ ServerMoves(Server!AcceptFails)
            \/ ServerMoves(Server!SystemdRestart)
  <2>1. CASE MainStep
    BY <1>5, <2>1 DEF MainStep, ServerMoves, Moved
  <2>2. CASE ServerMoves(Server!TakeStep) \/ ServerMoves(Server!ThreadSpurious)
    BY <1>3, <2>2 DEF ServerMoves, Moved
  <2>3. CASE ServerMoves(Server!ListenStep)
    BY <1>8, <2>3 DEF ServerMoves, Moved
  <2>4. CASE ServerMoves(Server!AcceptFails)
    BY <1>9, <2>4 DEF ServerMoves, Moved
  <2>5. CASE ServerMoves(Server!SystemdRestart)
    BY <1>1, <2>5, StartKeeps DEF ServerMoves, Moved
  <2> QED
    BY <1>11, <2>1, <2>2, <2>3, <2>4, <2>5
<1> QED
  BY <1>10, <1>11 DEF ServiceStep, ThreadStep

-----------------------------------------------------------------------------
(* The invariant holds *)

\* Both programs start as both modules say.
LEMMA BothInit == Init => Client!Init /\ AsServed!Init
<1> SUFFICES ASSUME Init PROVE Client!Init /\ AsServed!Init
  OBVIOUS
<1>1. /\ net = [c \in Conn |-> Unused] /\ thread = "unborn" /\ listening = FALSE
      /\ asker = [r \in Job |-> NoConn]
  BY DEF Init, Server!Init, Server!Conn, Conn, Server!Unused, Unused
<1>2. Asked = <<>> /\ Replied = FALSE
  BY <1>1, WorkOf DEF Working
<1>3. Visible = [c \in Conn |-> Unused]
  BY <1>1 DEF Visible
<1>4. Client!Init
  BY <1>1, <1>2 DEF Init, Client!Init, Client!Fd, Client!Conn, Conn, Client!Unused, Unused
<1>5. AsServed!Init
  BY <1>1, <1>3, Zenon DEF Init, Server!Init, AsServed!Init, AsServed!Conn, Conn, AsServed!Unused,
     Unused
<1> QED
  BY <1>4, <1>5

\* The invariant at the start.
LEMMA SysInit == Init => SysInv
<1> SUFFICES ASSUME Init PROVE SysInv
  OBVIOUS
<1>1. CP!Init /\ SP!Init
  BY BothInit, SameClient, SameServer
<1>2. CP!HeldInv
  BY <1>1, Bounds, CP!HeldInit
<1>3. CP!OrderInv
  BY <1>1, Bounds, CP!OrderInit
<1>4. SP!TypeInv
  BY <1>1, Bounds, SP!TypeInit
<1>5. /\ \A c \in Conn : net[c] = Unused
      /\ thread = "unborn" /\ main = "socket" /\ exit = "no" /\ listening = FALSE
      /\ chunk = <<>> /\ done = {} /\ answered = {} /\ restarts = 0 /\ repeats = 0 /\ crashes = 0
      /\ \A r \in Job : asker[r] = NoConn
  BY DEF Init, Server!Init, Server!Conn, Conn, Server!Unused, Unused
<1>6. ~Working /\ ~SP!Serving /\ Replied = FALSE
  BY <1>5, WorkOf DEF Working, SP!Serving
<1>7. ProcessInv
  BY <1>5, <1>6 DEF ProcessInv, Unused
<1>8. EndsInv
  BY <1>5 DEF EndsInv, Unused
<1>9. HistoryInv
  BY <1>5, <1>6 DEF HistoryInv
<1>10. BoundInv
  <2>1. Cardinality({}) = 0 /\ MaxCards * 0 = 0
    BY FS_EmptySet, SystemBounds
  <2> QED
    BY <1>5, <1>6, <2>1 DEF BoundInv
<1> QED
  BY <1>2, <1>3, <1>4, <1>7, <1>8, <1>9, <1>10 DEF SysInv

\* Every step keeps it.
LEMMA SysStep == SysInv /\ [Next]_vars => SysInv'
<1> SUFFICES ASSUME SysInv, [Next]_vars PROVE SysInv'
  OBVIOUS
<1>1. CASE GuiSideStep
  BY <1>1, ClientKeeps
<1>2. CASE ServiceStep
  BY <1>2, ServiceKeeps
<1>3. CASE UNCHANGED vars
  BY <1>3, QuietKeeps DEF vars, serverVars
<1> QED
  BY <1>1, <1>2, <1>3 DEF Next, GuiSideStep, ServiceStep

\* It holds.
LEMMA Kept == Spec => []SysInv
BY SysInit, SysStep, PTL DEF Spec

-----------------------------------------------------------------------------
(* Each program is what the other one takes it for *)

\* Whatever the service does to the connections, and whenever it dies, is a step that
\* the peer of NetworkClient may take, and the client's own steps are its own: every
\* behaviour of the two is one of NetworkClient.
THEOREM ServerPeer == Spec => ServerIsPeer
<1>1. Init => Client!Init
  BY BothInit
<1>2. SysInv /\ [Next]_vars => [Client!Next]_(Client!vars)
  BY StepOfClient
<1> QED
  BY <1>1, <1>2, Kept, PTL DEF Spec, ServerIsPeer, Client!Spec

\* And every behaviour of the two is one of NetworkServer, with the one client as its
\* clients.
THEOREM ClientClients == Spec => ClientIsClient
<1>1. Init => AsServed!Init
  BY BothInit
<1>2. SysInv /\ [Next]_vars => [AsServed!Next]_(AsServed!vars)
  BY StepOfServer
<1> QED
  BY <1>1, <1>2, Kept, PTL DEF Spec, ClientIsClient, AsServed!Spec

\* What is proved of the client against any peer and of the service against any clients
\* is therefore true of the two together.
LEMMA BothSpecs == Spec => CP!Spec /\ SP!Spec
<1>1. Init => CP!Init /\ SP!Init
  BY BothInit, SameClient, SameServer
<1>2. SysInv /\ [Next]_vars => [CP!Next]_(CP!vars) /\ [SP!Next]_(SP!vars)
  BY StepOfClient, StepOfServer, SameClient, SameServer
<1> QED
  BY <1>1, <1>2, Kept, PTL DEF Spec, CP!Spec, SP!Spec

-----------------------------------------------------------------------------
(* What the two do together *)

\* What a step of the service makes of the requests it works on and of those that it
\* has carried out.
LEMMA ServiceWork ==
  ASSUME ServiceStep
  PROVE  /\ chunk' = chunk \/ chunk' = <<>> \/ (thread' = "dispatch" /\ listening' = listening)
         /\ done' = done \/ (Working /\ done' = done \cup Server!Requests(chunk))
<1> DEFINE Good == /\ chunk' = chunk \/ chunk' = <<>> \/ (thread' = "dispatch" /\ listening' = listening)
                   /\ done' = done \/ (Working /\ done' = done \cup Server!Requests(chunk))
<1> SUFFICES Good
  OBVIOUS
<1> USE DEF Server!ListenSame, Server!ListenKeeps, Server!historyVars, Server!MainSame, Server!MainKeeps, Server!QueueSame
<1>1. ASSUME NEW how, Server!EndProcess(how) PROVE Good
  BY <1>1 DEF Server!EndProcess
<1>2. CASE Server!MainStep
  <2>1. CASE Server!InitSocketFails \/ Server!StopJoin
    BY <1>1, <2>1 DEF Server!InitSocketFails, Server!StopJoin, Server!vars, Server!processVars
  <2> QED
    BY <1>2, <2>1 DEF Server!MainStep, Server!InitSocketServer, Server!Spawn, Server!RunBg,
       Server!RunBgNotify, Server!PcdInit, Server!ConnectSlot, Server!Return, Server!StopNotify
<1>3. CASE Server!TakeStep \/ Server!ThreadSpurious \/ Server!AcceptFails
  BY <1>1, <1>3 DEF Server!TakeStep, Server!ThreadLoop, Server!ThreadCheck, Server!ThreadSleep,
     Server!ThreadSpurious, Server!AcceptFails
<1>4. CASE Server!SystemdRestart
  BY <1>4 DEF Server!SystemdRestart, Server!ProcessStart
<1>5. CASE Server!CardAnswers \/ Server!CardBlank \/ Server!CardUncounted \/ Server!HandlerCrashes
  BY <1>1, <1>5 DEF Server!CardAnswers, Server!CardBlank, Server!CardUncounted,
     Server!HandlerCrashes, Server!Sigpipe
<1>6. CASE Server!ListenStep
  <2>1. CASE \E c \in Conn : Server!Accept(c)
    BY <2>1 DEF Server!Accept
  <2>2. CASE Server!Recv
    BY <2>2 DEF Server!Recv
  <2>3. CASE Server!RecvEnds \/ Server!CloseClient \/ Server!DispatchCard \/ Server!NextCard
    BY <2>3 DEF Server!RecvEnds, Server!CloseClient, Server!DispatchCard, Server!NextCard
  <2>4. CASE Server!DispatchAnswer \/ Server!DispatchLost \/ Server!ReaderReturns
    BY <1>1, <2>4 DEF Server!DispatchAnswer, Server!DispatchLost, Server!ReaderReturns,
       Server!Over, Server!Sigpipe, Working
  <2> QED
    BY <1>6, <2>1, <2>2, <2>3, <2>4 DEF Server!ListenStep, Server!SearchStep, Server!Conn, Conn
<1> HIDE DEF Good
<1> QED
  BY <1>2, <1>3, <1>4, <1>5, <1>6 DEF ServiceStep, MainStep, ThreadStep, CardStep, ServerMoves,
     ServerRepeats

\* As long as the client has not stopped waiting for an answer, nothing shifted
\* answers and the service has not died, keep_listening() reads at most one request at
\* a time; two of them in one buffer it would take for a request it does not know.
THEOREM NeverMerged == Spec => []NeverMergedWhileCalm
<1>1. Init => NeverMergedWhileCalm
  BY DEF Init, Server!Init, NeverMergedWhileCalm
<1>2. SysInv /\ SysInv' /\ CP!CalmInv' /\ NeverMergedWhileCalm /\ [Next]_vars
        => NeverMergedWhileCalm'
  <2> SUFFICES ASSUME SysInv, SysInv', CP!CalmInv', NeverMergedWhileCalm, [Next]_vars, calm'
               PROVE  Len(chunk') <= 1
    BY DEF NeverMergedWhileCalm
  <2>1. calm
    BY StepOfClient, SameClient, CP!CalmFalls, Bounds
  <2>2. Len(chunk) <= 1 /\ Len(<<>>) <= 1
    BY <2>1 DEF NeverMergedWhileCalm
  <2>3. CASE GuiSideStep \/ UNCHANGED vars
    <3>1. chunk' = chunk
      BY <2>3, ClientActs DEF vars, serverVars
    <3> QED
      BY <2>2, <3>1
  <2>4. CASE ServiceStep
    <3>1. thread' = "dispatch" => Asked' = chunk'
      BY DEF Asked
    <3>2. Len(Asked') <= 1
      BY DEF CP!CalmInv, CP!Undisturbed
    <3> QED
      BY <2>2, <2>4, <3>1, <3>2, ServiceWork
  <2> QED
    BY <2>3, <2>4 DEF Next, GuiSideStep, ServiceStep
<1>3. Spec => []CP!CalmInv
  BY BothSpecs, Bounds, CP!Calm, PTL
<1> QED
  BY <1>1, <1>2, <1>3, Kept, PTL DEF Spec

\* Commands are carried out in the order in which they were given, over reconnections
\* and deaths of the service too: a request that is carried out was given after every
\* one that was carried out before.
THEOREM InOrder == Spec => CarriedOutInOrder
<1>1. SysInv /\ [Next]_vars => [\A r \in done' \ done : \A q \in done : q < r]_vars
  <2> SUFFICES ASSUME SysInv, [Next]_vars, NEW r \in done' \ done, NEW q \in done
               PROVE  q < r
    OBVIOUS
  <2>1. ServiceStep
    <3>1. GuiSideStep \/ UNCHANGED vars => done' = done
      BY ClientActs DEF vars, serverVars
    <3> QED
      BY <3>1 DEF Next, GuiSideStep, ServiceStep
  <2>2. Working /\ r \in Server!Requests(chunk)
    BY <2>1, ServiceWork
  <2>3. PICK j \in 1 .. Len(chunk) : r = chunk[j]
    BY <2>2, Facts, LenProperties DEF Server!Requests
  <2> QED
    BY <2>2, <2>3 DEF SysInv, HistoryInv
<1> QED
  BY <1>1, Kept, PTL DEF Spec, CarriedOutInOrder

\* Every variable holds a value of its type, for both modules.
THEOREM Typing == Spec => []TypeOK
<1>1. SysInv => TypeOK
  <2> SUFFICES ASSUME SysInv PROVE TypeOK
    OBVIOUS
  <2>1. CP!TypeOK /\ SP!TypeOK
    BY DEF SysInv, CP!HeldInv, CP!TypeInv, SP!TypeInv
  <2>2. net \in [Conn -> Server!Connection(Job, Server!Answer)]
    BY Facts DEF Nets, Buffer, Server!Answer, Server!Connection, Connection, Server!ClientEnd,
       ClientEnd, Server!ServerEnd, ServerEnd
  <2>3. Server!TypeOK
    BY <2>1, <2>2 DEF Server!TypeOK, SP!TypeOK, Server!MainAt, SP!MainAt, Server!ThreadAt,
       SP!ThreadAt, Server!Conn, SP!Conn, Conn
  <2>4. Client!TypeOK
    BY <2>1 DEF Client!TypeOK, CP!TypeOK, Client!GuiAt, CP!GuiAt, Client!WorkerAt, CP!WorkerAt,
       Client!Conn, CP!Conn, Client!Job, CP!Job, Client!Fd, CP!Fd, Client!Connection,
       CP!Connection, Client!Answer, CP!Answer, Client!ClientEnd, CP!ClientEnd,
       Client!ServerEnd, CP!ServerEnd
  <2> QED
    BY <2>3, <2>4 DEF TypeOK
<1> QED
  BY <1>1, Kept, PTL

\* What the user sees of the two together: answers appear in the order of the commands,
\* each with its own command as long as nothing shifted them, the service answers only
\* on the connection of the request, and the GUI holds one socket at most.
THEOREM Together ==
  Spec => /\ []CP!ShownInOrder /\ []CP!PairedWhileCalm /\ []CP!OneSocket
          /\ []SP!AnswersOnlyToAsker /\ []SP!OneAccepted
<1>1. CP!Spec => []CP!ShownInOrder /\ []CP!PairedWhileCalm /\ []CP!OneSocket
  BY Bounds, CP!AnswersInOrder, CP!AnswersPaired, CP!NoSocketLeaks, PTL
<1>2. SP!Spec => []SP!AnswersOnlyToAsker /\ []SP!OneAccepted
  BY Bounds, SP!AnswersGoBack, SP!OneAtATime, PTL
<1> QED
  BY <1>1, <1>2, BothSpecs, PTL
=============================================================================
