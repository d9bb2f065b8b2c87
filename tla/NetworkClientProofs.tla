------------------------ MODULE NetworkClientProofs ------------------------
(***************************************************************************)
(* Proofs about NetworkClient, for any number of jobs, connections and      *)
(* descriptors, and any behaviour of the peer.                              *)
(***************************************************************************)
EXTENDS NetworkClient, SequenceTheorems, TLAPS

-----------------------------------------------------------------------------
(* Facts about connections, for any sets of requests and answers *)

\* What is left of a sequence without its first n elements, and those.
LEMMA SplitTypes ==
  ASSUME NEW S, NEW s \in Seq(S), NEW n \in 0 .. Len(s)
  PROVE  /\ First(s, n) \in Seq(S) /\ Len(First(s, n)) = n
         /\ \A i \in 1 .. n : First(s, n)[i] = s[i]
         /\ SubSeq(s, n + 1, Len(s)) \in Seq(S)
         /\ Len(SubSeq(s, n + 1, Len(s))) = Len(s) - n
         /\ \A i \in 1 .. Len(s) - n : SubSeq(s, n + 1, Len(s))[i] = s[n + i]
<1>1. Len(s) \in Nat /\ \A i \in 1 .. Len(s) : s[i] \in S
  BY ElementOfSeq, LenProperties
<1>2. \A i \in 1 .. n : s[i] \in S
  BY <1>1
<1>3. \A i \in (n + 1) .. Len(s) : s[i] \in S
  BY <1>1
<1>4. /\ First(s, n) \in Seq(S) /\ Len(First(s, n)) = n
      /\ \A i \in 1 .. n : First(s, n)[i] = s[i]
  BY <1>1, <1>2, SubSeqProperties, SMT DEF First
<1>5. /\ SubSeq(s, n + 1, Len(s)) \in Seq(S)
      /\ Len(SubSeq(s, n + 1, Len(s))) = Len(s) - n
      /\ \A i \in 1 .. Len(s) - n : SubSeq(s, n + 1, Len(s))[i] = s[n + i]
  BY <1>1, <1>3, SubSeqProperties, SMT
<1> QED
  BY <1>4, <1>5

\* A connection stays one, whatever either side does with it.
LEMMA ConnectionTypes ==
  ASSUME NEW R, NEW A, NEW k \in Connection(R, A)
  PROVE  /\ Connected(k) \in Connection(R, A)
         /\ ClientClosed(k) \in Connection(R, A)
         /\ ServerClosed(k) \in Connection(R, A)
         /\ \A m \in R : ClientSent(k, m) \in Connection(R, A)
         /\ \A s \in Seq(A) : ServerSent(k, s) \in Connection(R, A)
<1> USE DEF Connection, ClientEnd, ServerEnd
<1>1. Connected(k) \in Connection(R, A)
  BY DEF Connected
<1>2. ClientClosed(k) \in Connection(R, A)
  <2> DEFINE reset == k.serverRst \/ (k.client = "open" /\ k.down # <<>>)
  <2>1. reset \in BOOLEAN
    OBVIOUS
  <2>2. ClientClosed(k) = [k EXCEPT !.client = "closed", !.down = <<>>, !.serverRst = reset]
    BY DEF ClientClosed
  <2>3. <<>> \in Seq(A)
    OBVIOUS
  <2> HIDE DEF reset
  <2> QED
    BY <2>1, <2>2, <2>3
<1>3. ServerClosed(k) \in Connection(R, A)
  <2> DEFINE reset == k.clientRst \/ (k.server # "closed" /\ k.up # <<>>)
  <2>1. reset \in BOOLEAN
    OBVIOUS
  <2>2. ServerClosed(k) = [k EXCEPT !.server = "closed", !.up = <<>>, !.clientRst = reset]
    BY DEF ServerClosed
  <2>3. <<>> \in Seq(R)
    OBVIOUS
  <2> HIDE DEF reset
  <2> QED
    BY <2>1, <2>2, <2>3
<1>4. ASSUME NEW m \in R PROVE ClientSent(k, m) \in Connection(R, A)
  <2>1. k.up \in Seq(R)
    OBVIOUS
  <2>2. Append(k.up, m) \in Seq(R)
    BY <2>1, AppendProperties
  <2> QED
    BY <2>2 DEF ClientSent
<1>5. ASSUME NEW s \in Seq(A) PROVE ServerSent(k, s) \in Connection(R, A)
  <2>1. k.down \in Seq(A)
    OBVIOUS
  <2>2. k.down \o s \in Seq(A)
    BY <2>1, ConcatProperties
  <2> QED
    BY <2>2 DEF ServerSent
<1> QED
  BY <1>1, <1>2, <1>3, <1>4, <1>5

\* The same for a recv() of either side.
LEMMA TookTypes ==
  ASSUME NEW R, NEW A, NEW k \in Connection(R, A)
  PROVE  /\ \A n \in 0 .. Len(k.up) :
              ServerTook(k, n) \in Connection(R, A) /\ First(k.up, n) \in Seq(R)
         /\ \A n \in 0 .. Len(k.down) :
              /\ [k EXCEPT !.down = SubSeq(@, n + 1, Len(@))] \in Connection(R, A)
              /\ First(k.down, n) \in Seq(A)
<1>1. k.up \in Seq(R) /\ k.down \in Seq(A)
  BY DEF Connection
<1>2. ASSUME NEW n \in 0 .. Len(k.up)
      PROVE  ServerTook(k, n) \in Connection(R, A) /\ First(k.up, n) \in Seq(R)
  BY <1>1, SplitTypes DEF ServerTook, Connection
<1>3. ASSUME NEW n \in 0 .. Len(k.down)
      PROVE  /\ [k EXCEPT !.down = SubSeq(@, n + 1, Len(@))] \in Connection(R, A)
             /\ First(k.down, n) \in Seq(A)
  BY <1>1, SplitTypes DEF Connection
<1> QED
  BY <1>2, <1>3

\* What each operation makes of the fields of a connection.
LEMMA ConnectionFields ==
  ASSUME NEW R, NEW A, NEW k \in Connection(R, A)
  PROVE  /\ LET n == Connected(k) IN
              /\ n.client = "open" /\ n.server = "backlog" /\ n.up = k.up /\ n.down = k.down
              /\ n.clientRst = k.clientRst /\ n.serverRst = k.serverRst
         /\ LET n == ClientClosed(k) IN
              /\ n.client = "closed" /\ n.server = k.server /\ n.up = k.up /\ n.down = <<>>
              /\ n.clientRst = k.clientRst
         /\ LET n == ServerClosed(k) IN
              /\ n.client = k.client /\ n.server = "closed" /\ n.up = <<>> /\ n.down = k.down
              /\ n.serverRst = k.serverRst /\ (k.up = <<>> => n.clientRst = k.clientRst)
         /\ \A m \in R : LET n == ClientSent(k, m) IN
              /\ n.client = k.client /\ n.server = k.server /\ n.down = k.down
              /\ n.serverRst = k.serverRst
              /\ IF k.server \in {"backlog", "open"}
                 THEN n.up = Append(k.up, m) /\ n.clientRst = k.clientRst
                 ELSE n.up = k.up
         /\ \A s \in Seq(A) : LET n == ServerSent(k, s) IN
              /\ n.client = k.client /\ n.server = k.server /\ n.up = k.up
              /\ n.clientRst = k.clientRst
              /\ IF k.client = "open" THEN n.down = k.down \o s /\ n.serverRst = k.serverRst
                 ELSE n.down = k.down
         /\ \A i \in Nat : LET n == ServerTook(k, i) IN
              /\ n.client = k.client /\ n.server = k.server /\ n.down = k.down
              /\ n.up = SubSeq(k.up, i + 1, Len(k.up))
              /\ n.clientRst = k.clientRst /\ n.serverRst = k.serverRst
<1> USE DEF Connection
<1>1. LET n == Connected(k) IN
        /\ n.client = "open" /\ n.server = "backlog" /\ n.up = k.up /\ n.down = k.down
        /\ n.clientRst = k.clientRst /\ n.serverRst = k.serverRst
  BY DEF Connected
<1>2. LET n == ClientClosed(k) IN
        /\ n.client = "closed" /\ n.server = k.server /\ n.up = k.up /\ n.down = <<>>
        /\ n.clientRst = k.clientRst
  BY DEF ClientClosed
<1>3. LET n == ServerClosed(k) IN
        /\ n.client = k.client /\ n.server = "closed" /\ n.up = <<>> /\ n.down = k.down
        /\ n.serverRst = k.serverRst /\ (k.up = <<>> => n.clientRst = k.clientRst)
  BY DEF ServerClosed
<1>4. ASSUME NEW m \in R
      PROVE  LET n == ClientSent(k, m) IN
              /\ n.client = k.client /\ n.server = k.server /\ n.down = k.down
              /\ n.serverRst = k.serverRst
              /\ IF k.server \in {"backlog", "open"}
                 THEN n.up = Append(k.up, m) /\ n.clientRst = k.clientRst
                 ELSE n.up = k.up
  BY DEF ClientSent
<1>5. ASSUME NEW s \in Seq(A)
      PROVE  LET n == ServerSent(k, s) IN
              /\ n.client = k.client /\ n.server = k.server /\ n.up = k.up
              /\ n.clientRst = k.clientRst
              /\ IF k.client = "open" THEN n.down = k.down \o s /\ n.serverRst = k.serverRst
                 ELSE n.down = k.down
  BY DEF ServerSent
<1>6. ASSUME NEW i \in Nat
      PROVE  LET n == ServerTook(k, i) IN
              /\ n.client = k.client /\ n.server = k.server /\ n.down = k.down
              /\ n.up = SubSeq(k.up, i + 1, Len(k.up))
              /\ n.clientRst = k.clientRst /\ n.serverRst = k.serverRst
  BY DEF ServerTook
<1> QED
  BY <1>1, <1>2, <1>3, <1>4, <1>5, <1>6

-----------------------------------------------------------------------------
\* Between the close() and the socket() of a reconnection no descriptor of the
\* process is a socket.
NoneWhileReplacing ==
  gui \in {"startSocket", "testSocket"} => \A f \in Fd : fdtab[f] = NoConn

SocketInv == DOMAIN fdtab = Fd /\ OneSocket /\ NoneWhileReplacing

\* close() of the member clientSocket leaves no socket behind, since there was
\* no other one.
LEMMA CloseLeavesNone ==
  ASSUME SocketInv
  PROVE  /\ DOMAIN FdtabAfterClose(clientSocket) = Fd
         /\ \A f \in Fd : FdtabAfterClose(clientSocket)[f] = NoConn
BY DEF SocketInv, OneSocket, FdtabAfterClose

\* Every step keeps the invariant: what closes, opens or forgets a descriptor.
LEMMA SocketStep == SocketInv /\ [Next]_vars => SocketInv'
<1> SUFFICES ASSUME SocketInv, [Next]_vars PROVE SocketInv'
  OBVIOUS
<1>1. ASSUME fdtab' = fdtab, clientSocket' = clientSocket,
             gui' \in {"startSocket", "testSocket"} => gui' = gui
      PROVE  SocketInv'
  BY <1>1 DEF SocketInv, OneSocket, NoneWhileReplacing
<1>2. ASSUME DOMAIN fdtab' = Fd, \A f \in Fd : fdtab'[f] = NoConn
      PROVE  SocketInv'
  BY <1>2 DEF SocketInv, OneSocket, NoneWhileReplacing
<1>3. ASSUME NewSocket, gui \in {"startSocket", "testSocket"},
             gui' \notin {"startSocket", "testSocket"}
      PROVE  SocketInv'
  BY <1>3 DEF NewSocket, SocketInv, OneSocket, NoneWhileReplacing
<1>4. ASSUME ConnectSocket, clientSocket' = clientSocket,
             gui' \notin {"startSocket", "testSocket"}
      PROVE  SocketInv'
  BY <1>1, <1>2, <1>4, CloseLeavesNone DEF ConnectSocket
<1>5. CASE StartSocket \/ TestSocketNew
  BY <1>3, <1>5 DEF StartSocket, TestSocketNew
<1>6. CASE StartConnect \/ TestSocketConnect
  BY <1>4, <1>6 DEF StartConnect, TestSocketConnect
<1>7. CASE TestSocketClose \/ StopClose
  BY <1>2, <1>7, CloseLeavesNone DEF TestSocketClose, StopClose
<1>8. CASE TestSocketFails
  BY <1>8, <1>2 DEF TestSocketFails, SocketInv, NoneWhileReplacing
<1>9. CASE WorkerSigpipe
  BY <1>9, <1>2 DEF WorkerSigpipe
<1>10. CASE StartSocketFails \/ SocketSend \/ SocketSendNotify
            \/ StopClearFlag \/ StopNotify \/ StopJoin
  BY <1>1, <1>10 DEF StartSocketFails, SocketSend, SocketSendNotify, StopClearFlag, StopNotify,
                     StopJoin, fdVars
<1>11. CASE \/ WorkerLoop \/ WorkerEmpty \/ WorkerSleep \/ WorkerSpurious
            \/ WorkerBreak \/ WorkerTake \/ WorkerCall \/ WorkerSend
            \/ WorkerSendError \/ WorkerRecv \/ WorkerReceive \/ WorkerEof
            \/ WorkerRecvError
  <2>1. WorkerSame
    BY <1>11, Zenon
    DEF WorkerLoop, WorkerEmpty, WorkerSleep, WorkerSpurious, WorkerBreak,
        WorkerTake, WorkerCall, WorkerSend, WorkerSendError, WorkerRecv,
        WorkerReceive, WorkerEof, WorkerRecvError
  <2> QED
    BY <1>1, <2>1 DEF WorkerSame, fdVars
<1>12. CASE PeerStep
  <2>1. PeerSame
    BY <1>12, Zenon
    DEF PeerStep, PeerAccept, PeerRecv, PeerAnswer, PeerRepeat, PeerSends,
        PeerDone, PeerClose, PeerCrash, PeerRestart
  <2> QED
    BY <1>1, <2>1 DEF PeerSame, threadVars, fdVars
<1>13. CASE UNCHANGED vars
  BY <1>1, <1>13 DEF vars, threadVars, fdVars
<1> QED
  BY <1>5, <1>6, <1>7, <1>8, <1>9, <1>10, <1>11, <1>12, <1>13
  DEF Next, ClientStep, GuiStep, UserStep, WorkerStep

\* No descriptor is used at the start.
LEMMA SocketInit == Init => SocketInv
BY DEF Init, SocketInv, OneSocket, NoneWhileReplacing

\* Whatever becomes of the connection, its peer and the two threads, the client
\* owns at most one socket, the one whose number clientSocket holds.
THEOREM NoSocketLeaks == Spec => []OneSocket
<1>1. SocketInv => OneSocket
  BY DEF SocketInv
<1> QED
  BY <1>1, SocketInit, SocketStep, PTL DEF Spec

-----------------------------------------------------------------------------
\* The queue holds the jobs submitted last, in order, and the worker executes the
\* one before them.
Taken == submitted - Len(queue)

QueueInv ==
  /\ submitted \in 0 .. MaxJobs /\ queue \in Seq(Job)
  /\ Len(queue) <= submitted
  /\ \A i \in 1 .. Len(queue) : queue[i] = Taken + i
  /\ Executing => job = Taken /\ job \in Job

\* A step that leaves the queue alone and begins no job.
LEMMA QueueSameKeeps ==
  ASSUME QueueInv, UNCHANGED <<queue, submitted, job>>, Executing' => Executing
  PROVE  QueueInv' /\ (Pump!Finish \/ UNCHANGED Pump!vars)
<1>1. QueueInv'
  BY DEF QueueInv, Taken
<1>2. CASE Executing /\ ~Executing'
  BY <1>2 DEF QueueInv, Taken, Pump!Finish, Job
<1>3. CASE Executing' <=> Executing
  <2>1. UNCHANGED (submitted - Len(queue)) /\ UNCHANGED submitted
    OBVIOUS
  <2>2. UNCHANGED (IF Executing THEN job ELSE 0)
    BY <1>3, Zenon
  <2> QED
    BY <1>1, <2>1, <2>2 DEF Pump!vars
<1> QED
  BY <1>1, <1>2, <1>3

\* Every step keeps the invariant, and is a step of the abstract job queue, or none.
LEMMA QueueStep ==
  ASSUME QueueInv, [Next]_vars
  PROVE  QueueInv' /\ [Pump!Next]_(Pump!vars)
<1>1. ASSUME UNCHANGED <<queue, submitted, job>>, Executing' => Executing
      PROVE  QueueInv' /\ [Pump!Next]_(Pump!vars)
  BY <1>1, QueueSameKeeps DEF Pump!Next
<1>2. CASE SocketSend
  <2>1. /\ queue \in Seq(Job) /\ Len(queue) \in Nat /\ submitted \in Nat /\ MaxJobs \in Nat
        /\ submitted' = submitted + 1 /\ submitted' \in Job /\ queue' = Append(queue, submitted')
    BY <1>2, ClientBounds, LenProperties DEF SocketSend, QueueInv, Job
  <2>2. /\ queue' \in Seq(Job) /\ Len(queue') = Len(queue) + 1
        /\ \A i \in 1 .. Len(queue) : queue'[i] = queue[i]
        /\ queue'[Len(queue) + 1] = submitted'
    BY <2>1, AppendProperties
  <2>3. Taken' = Taken
    BY <2>1, <2>2 DEF Taken
  <2>4. ASSUME NEW i \in 1 .. Len(queue') PROVE queue'[i] = Taken' + i
    <3>1. CASE i = Len(queue) + 1
      BY <2>1, <2>2, <2>3, <3>1 DEF Taken
    <3>2. CASE i \in 1 .. Len(queue)
      BY <2>2, <2>3, <3>2 DEF QueueInv
    <3> QED
      BY <2>1, <2>2, <3>1, <3>2
  <2>5. (Executing <=> Executing') /\ job' = job
    BY <1>2 DEF SocketSend, Executing
  <2>6. QueueInv'
    BY <1>2, <2>1, <2>2, <2>3, <2>4, <2>5 DEF QueueInv, Job
  <2>7. Pump!Submit
    BY <1>2, <2>1, <2>2, <2>5 DEF SocketSend, Pump!Submit
  <2> QED
    BY <2>6, <2>7 DEF Pump!Next
<1>3. CASE WorkerTake
  <2>1. /\ queue \in Seq(Job) /\ Len(queue) \in Nat /\ submitted \in Nat /\ queue # <<>>
        /\ submitted' = submitted /\ queue' = Tail(queue) /\ job' = Head(queue)
        /\ ~Executing /\ Executing'
    BY <1>3, LenProperties DEF WorkerTake, WorkerSame, QueueInv, Executing
  <2>2. /\ queue' \in Seq(Job) /\ Len(queue') = Len(queue) - 1
        /\ \A i \in 1 .. Len(queue') : queue'[i] = queue[i + 1]
        /\ job' \in Job /\ job' = queue[1] /\ Len(queue) >= 1
    BY <2>1, HeadTailProperties, EmptySeq
  <2>3. job' = Taken + 1 /\ Taken' = Taken + 1
    BY <2>1, <2>2 DEF QueueInv, Taken
  <2>4. \A i \in 1 .. Len(queue') : queue'[i] = Taken' + i
    BY <2>1, <2>2, <2>3 DEF QueueInv, Taken
  <2>5. QueueInv'
    BY <2>1, <2>2, <2>3, <2>4 DEF QueueInv
  <2>6. Pump!Take
    BY <2>1, <2>2, <2>3 DEF Pump!Take, Taken, QueueInv
  <2> QED
    BY <2>5, <2>6 DEF Pump!Next
<1>4. CASE GuiStep \/ TestSocketClose \/ StopClearFlag
  BY <1>1, <1>4 DEF GuiStep, StartSocket, StartSocketFails, StartConnect, SocketSendNotify,
     TestSocketNew, TestSocketFails, TestSocketConnect, StopNotify, StopJoin, StopClose,
     TestSocketClose, StopClearFlag, GuiSame, Woken, Executing
<1>5. CASE WorkerLoop \/ WorkerEmpty \/ WorkerSleep \/ WorkerSpurious \/ WorkerBreak
           \/ WorkerCall \/ WorkerSend \/ WorkerSendError \/ WorkerSigpipe
  BY <1>1, <1>5 DEF WorkerLoop, WorkerEmpty, WorkerSleep, WorkerSpurious, WorkerBreak,
     WorkerCall, WorkerSend, WorkerSendError, WorkerSigpipe, WorkerSame, Executing
<1>6. CASE WorkerRecv \/ WorkerReceive \/ WorkerEof \/ WorkerRecvError
  BY <1>1, <1>6 DEF WorkerRecv, WorkerReceive, WorkerEof, WorkerRecvError, WorkerSame, Executing
<1>7. CASE PeerStep
  <2>1. PeerSame
    BY <1>7, Zenon
    DEF PeerStep, PeerAccept, PeerRecv, PeerAnswer, PeerRepeat, PeerSends,
        PeerDone, PeerClose, PeerCrash, PeerRestart
  <2> QED
    BY <1>1, <2>1 DEF PeerSame, threadVars, Executing
<1>8. CASE UNCHANGED vars
  BY <1>1, <1>8 DEF vars, threadVars, Executing
<1> QED
  BY <1>2, <1>3, <1>4, <1>5, <1>6, <1>7, <1>8
  DEF Next, ClientStep, UserStep, WorkerStep

\* Both start with an empty queue.
LEMMA QueueInit == Init => QueueInv /\ Pump!Init
<1> SUFFICES ASSUME Init PROVE QueueInv /\ Pump!Init
  OBVIOUS
<1>1. Len(queue) = 0 /\ submitted = 0 /\ ~Executing
  BY DEF Init, Executing
<1>2. QueueInv
  <2>1. <<>> \in Seq(Job) /\ queue = <<>>
    BY DEF Init
  <2> QED
    BY <1>1, <2>1, ClientBounds DEF QueueInv, Taken
<1>3. Pump!Init
  <2>1. submitted - Len(queue) = 0
    BY <1>1
  <2>2. (IF Executing THEN job ELSE 0) = 0
    BY <1>1
  <2> QED
    BY <1>1, <2>1, <2>2, Zenon DEF Pump!Init
<1> QED
  BY <1>2, <1>3

\* The client implements the abstract job queue: whatever becomes of the
\* connection, and however the two threads interleave, jobs are executed one at a
\* time, each at most once, and in the order in which they were submitted.
THEOREM PumpRefined == Spec => ImplementsPump
<1>1. QueueInv /\ [Next]_vars => QueueInv' /\ [Pump!Next]_(Pump!vars)
  BY QueueStep
<1> QED
  BY <1>1, QueueInit, PTL DEF Spec, ImplementsPump, Pump!Spec

-----------------------------------------------------------------------------
Nets == [Conn -> Connection(Job, Answer)]
Tables == [Fd -> Conn \cup {NoConn}]

\* Besides the types: a blocking recv() has a connection.
TypeInv == TypeOK /\ QueueInv /\ (worker = "receiving" => rconn \in Conn)

\* close() keeps the types of the connections and of the descriptors.
LEMMA CloseTypes ==
  ASSUME TypeInv, NEW f \in Fd \cup {NoFd}
  PROVE  NetAfterClose(f) \in Nets /\ FdtabAfterClose(f) \in Tables
<1>1. net \in Nets /\ fdtab \in Tables
  BY DEF TypeInv, TypeOK, Nets, Tables
<1>2. \A k \in Connection(Job, Answer) : ClientClosed(k) \in Connection(Job, Answer)
  BY ConnectionTypes
<1>3. Behind(f) \in Conn \cup {NoConn}
  BY <1>1 DEF Behind, Tables
<1>4. NetAfterClose(f) \in Nets
  BY <1>1, <1>2, <1>3 DEF NetAfterClose, Nets
<1>5. FdtabAfterClose(f) \in Tables
  BY <1>1 DEF FdtabAfterClose, Tables
<1> QED
  BY <1>4, <1>5

\* socket() keeps them, and gives a number.
LEMMA NewSocketTypes ==
  ASSUME TypeInv, NewSocket
  PROVE  net' \in Nets /\ fdtab' \in Tables /\ clientSocket' \in Fd
<1>1. PICK f \in Fd, c \in Conn : /\ fdtab' = [fdtab EXCEPT ![f] = c]
                                  /\ clientSocket' = f
                                  /\ net' = [net EXCEPT ![c].client = "new"]
  BY DEF NewSocket
<1>2. net \in Nets /\ fdtab \in Tables
  BY DEF TypeInv, TypeOK, Nets, Tables
<1>3. [net[c] EXCEPT !.client = "new"] \in Connection(Job, Answer)
  BY <1>2 DEF Nets, Connection, ClientEnd
<1>4. net' = [net EXCEPT ![c] = [net[c] EXCEPT !.client = "new"]]
  BY <1>1
<1> QED
  BY <1>1, <1>2, <1>3, <1>4 DEF Nets, Tables

\* connect() keeps them.
LEMMA ConnectTypes ==
  ASSUME TypeInv, ConnectSocket
  PROVE  net' \in Nets /\ fdtab' \in Tables
<1>1. net \in Nets /\ fdtab \in Tables /\ clientSocket \in Fd \cup {NoFd}
  BY DEF TypeInv, TypeOK, Nets, Tables
<1>2. \A k \in Connection(Job, Answer) : Connected(k) \in Connection(Job, Answer)
  BY ConnectionTypes
<1>3. Behind(clientSocket) \in Conn => net[Behind(clientSocket)] \in Connection(Job, Answer)
  BY <1>1 DEF Nets
<1> QED
  BY <1>1, <1>2, <1>3, CloseTypes DEF ConnectSocket, Nets

\* One connection changes.
LEMMA OneChanges ==
  ASSUME TypeInv, NEW c \in Conn, NEW k \in Connection(Job, Answer),
         net' = [net EXCEPT ![c] = k]
  PROVE  net' \in Nets
BY DEF TypeInv, TypeOK, Nets

\* The GTK thread and the user.
LEMMA GuiTypes ==
  ASSUME TypeInv, QueueInv', GuiStep \/ UserStep
  PROVE  TypeInv'
<1> USE DEF TypeInv
<1>1. net \in Nets /\ fdtab \in Tables
  BY DEF TypeOK, Nets, Tables
<1>2. ASSUME net' \in Nets, fdtab' \in Tables, clientSocket' \in Fd \cup {NoFd},
             gui' \in GuiAt, running' \in BOOLEAN, calm' \in BOOLEAN,
             worker' \in WorkerAt, worker' = "receiving" => worker = "receiving",
             UNCHANGED <<job, jobFd, rconn, shown, peerVars>>
      PROVE  TypeInv'
  BY <1>2 DEF TypeOK, QueueInv, Nets, Tables, peerVars, askVars
<1> USE DEF GuiSame, GuiAt, WorkerAt, TypeOK
<1>3. CASE StartSocket \/ TestSocketNew
  BY <1>2, <1>3, NewSocketTypes DEF StartSocket, TestSocketNew
<1>4. CASE StartConnect \/ TestSocketConnect
  BY <1>2, <1>4, ConnectTypes DEF StartConnect, TestSocketConnect
<1>5. CASE TestSocketClose \/ StopClose
  BY <1>2, <1>5, CloseTypes DEF TestSocketClose, StopClose
<1>6. CASE StartSocketFails \/ TestSocketFails
  BY <1>1, <1>2, <1>6 DEF StartSocketFails, TestSocketFails, fdVars
<1>7. CASE SocketSend
  BY <1>1, <1>2, <1>7 DEF SocketSend, fdVars
<1>8. CASE SocketSendNotify \/ StopNotify
  BY <1>1, <1>2, <1>8 DEF SocketSendNotify, StopNotify, Woken, fdVars
<1>9. CASE StopClearFlag \/ StopJoin
  BY <1>1, <1>2, <1>9 DEF StopClearFlag, StopJoin, fdVars
<1> QED
  BY <1>3, <1>4, <1>5, <1>6, <1>7, <1>8, <1>9 DEF GuiStep, UserStep

\* What signal_data_received emits.
Emission == [job : Job, got : Seq(Answer)]

\* A connection that recv() has returned from is one.
LEMMA ReturnedTypes ==
  ASSUME NEW k \in Connection(Job, Answer)
  PROVE  Returned(k) \in Connection(Job, Answer)
BY ConnectionTypes DEF Returned

\* One more emission.
LEMMA ShownTypes ==
  ASSUME TypeInv, Executing, NEW got \in Seq(Answer)
  PROVE  Append(shown, [job |-> job, got |-> got]) \in Seq(Emission)
<1>1. shown \in Seq(Emission) /\ job \in Job
  BY DEF TypeInv, TypeOK, QueueInv, Emission
<1>2. [job |-> job, got |-> got] \in Emission
  BY <1>1 DEF Emission
<1> QED
  BY <1>1, <1>2, AppendProperties

\* The worker thread.
LEMMA WorkerTypes ==
  ASSUME TypeInv, QueueInv', WorkerStep \/ WorkerSpurious
  PROVE  TypeInv'
<1> USE DEF TypeInv
<1>1. net \in Nets /\ shown \in Seq(Emission) /\ calm \in BOOLEAN
  BY DEF TypeOK, Nets, Emission
<1>2. ASSUME net' \in Nets, shown' \in Seq(Emission), calm' \in BOOLEAN,
             worker' \in WorkerAt, job' \in Job \cup {0}, jobFd' \in Fd \cup {NoFd},
             rconn' \in Conn \cup {NoConn}, worker' = "receiving" => rconn' \in Conn,
             WorkerSame
      PROVE  TypeInv'
  BY <1>2 DEF TypeOK, QueueInv, Nets, Emission, WorkerSame, fdVars, peerVars, askVars
<1>3. /\ job \in Job \cup {0} /\ jobFd \in Fd \cup {NoFd} /\ clientSocket \in Fd \cup {NoFd}
      /\ rconn \in Conn \cup {NoConn}
  BY DEF TypeOK
<1>4. \A f \in Fd \cup {NoFd} : Behind(f) \in Conn \cup {NoConn}
  BY DEF Behind, TypeOK
<1>5. CASE WorkerLoop \/ WorkerEmpty \/ WorkerSleep \/ WorkerSpurious \/ WorkerBreak
           \/ WorkerCall \/ WorkerSendError
  BY <1>1, <1>2, <1>3, <1>5 DEF WorkerLoop, WorkerEmpty, WorkerSleep, WorkerSpurious,
     WorkerBreak, WorkerCall, WorkerSendError, WorkerAt
<1>6. CASE WorkerTake
  <2>1. job' \in Job
    BY <1>6 DEF WorkerTake, QueueInv, Executing
  <2> QED
    BY <1>1, <1>2, <1>3, <1>6, <2>1 DEF WorkerTake, WorkerAt
<1>7. CASE WorkerSend
  <2> DEFINE c == Behind(jobFd)
  <2>1. c \in Conn /\ job \in Job
    BY <1>3, <1>4, <1>7 DEF WorkerSend, QueueInv, Executing
  <2>2. ClientSent(net[c], job) \in Connection(Job, Answer)
    BY <1>1, <2>1, ConnectionTypes DEF Nets
  <2>3. net' = [net EXCEPT ![c] = ClientSent(net[c], job)]
    BY <1>7 DEF WorkerSend
  <2> HIDE DEF c
  <2>4. net' \in Nets
    BY <2>1, <2>2, <2>3, OneChanges
  <2> QED
    BY <1>1, <1>2, <1>3, <1>7, <2>4 DEF WorkerSend, WorkerAt
<1>8. CASE WorkerSigpipe
  <2>1. net' \in Nets
    BY <1>1, <1>8, ConnectionTypes DEF WorkerSigpipe, Nets
  <2> QED
    BY <1>1, <1>8, <2>1 DEF WorkerSigpipe, WorkerAt, GuiAt, TypeOK, Nets, peerVars, askVars
<1>9. CASE WorkerRecv
  BY <1>1, <1>2, <1>3, <1>4, <1>9 DEF WorkerRecv, WorkerAt
<1>10. CASE WorkerReceive \/ WorkerEof \/ WorkerRecvError
  <2> DEFINE k == net[rconn]
  <2>1. rconn \in Conn /\ k \in Connection(Job, Answer) /\ Executing
    BY <1>1, <1>10 DEF WorkerReceive, WorkerEof, WorkerRecvError, Nets, Executing
  <2>2. CASE WorkerReceive
    <3>1. PICK n \in 1 .. Len(k.down) :
            /\ net' = [net EXCEPT ![rconn] = Returned(Rest(k, n))]
            /\ shown' = Append(shown, [job |-> job, got |-> First(k.down, n)])
            /\ calm' = (calm /\ ~First(k.down, n)[n].more)
      BY <2>2 DEF WorkerReceive
    <3>2. n \in 0 .. Len(k.down)
      BY <2>1, <3>1 DEF Connection
    <3>3. Rest(k, n) \in Connection(Job, Answer) /\ First(k.down, n) \in Seq(Answer)
      BY <2>1, <3>2, TookTypes DEF Rest
    <3>4. net' \in Nets
      BY <2>1, <3>1, <3>3, ReturnedTypes, OneChanges
    <3>5. shown' \in Seq(Emission)
      BY <2>1, <3>1, <3>3, ShownTypes
    <3>6. calm' \in BOOLEAN
      BY <3>1
    <3> QED
      BY <1>2, <1>3, <2>2, <3>4, <3>5, <3>6 DEF WorkerReceive, WorkerAt
  <2>3. CASE WorkerEof
    <3>1. net' \in Nets
      BY <2>1, <2>3, ReturnedTypes, OneChanges DEF WorkerEof
    <3>2. <<>> \in Seq(Answer)
      OBVIOUS
    <3>3. shown' \in Seq(Emission)
      BY <2>1, <2>3, <3>2, ShownTypes DEF WorkerEof
    <3> QED
      BY <1>1, <1>2, <1>3, <2>3, <3>1, <3>3 DEF WorkerEof, WorkerAt
  <2>4. CASE WorkerRecvError
    <3>1. net' \in Nets
      BY <2>1, <2>4, ReturnedTypes, OneChanges DEF WorkerRecvError
    <3> QED
      BY <1>1, <1>2, <1>3, <2>4, <3>1 DEF WorkerRecvError, WorkerAt
  <2> QED
    BY <1>10, <2>2, <2>3, <2>4
<1> QED
  BY <1>5, <1>6, <1>7, <1>8, <1>9, <1>10 DEF WorkerStep

\* An answer is one or two buffers.
LEMMA ReplyTypes ==
  ASSUME NEW reqs \in Seq(Job)
  PROVE  Reply(reqs) \in Seq(Answer)
<1>1. \A b \in BOOLEAN : [for |-> reqs, more |-> b] \in Answer
  BY DEF Answer
<1>2. \A x, y \in Answer : <<x, y>> \in Seq(Answer) /\ <<x>> \in Seq(Answer)
  OBVIOUS
<1> QED
  BY <1>1, <1>2, Zenon DEF Reply

\* The peer.
LEMMA PeerTypes ==
  ASSUME TypeInv, PeerStep
  PROVE  TypeInv'
<1> USE DEF TypeInv
<1>1. net \in Nets /\ asked \in Seq(Job)
  BY DEF TypeOK, Nets
<1>2. ASSUME net' \in Nets, asked' \in Seq(Job), replied' \in BOOLEAN, serverUp' \in BOOLEAN,
             repeats' \in 0 .. MaxRepeats, crashes' \in 0 .. MaxCrashes, calm' \in BOOLEAN,
             PeerSame
      PROVE  TypeInv'
  BY <1>2, QueueSameKeeps DEF TypeOK, QueueInv, Executing, Taken, Nets, PeerSame, threadVars, fdVars
<1>3. /\ replied \in BOOLEAN /\ serverUp \in BOOLEAN /\ calm \in BOOLEAN
      /\ repeats \in 0 .. MaxRepeats /\ crashes \in 0 .. MaxCrashes
      /\ <<>> \in Seq(Job) /\ MaxRepeats \in Nat /\ MaxCrashes \in Nat
  BY ClientBounds DEF TypeOK
<1>4. ASSUME NEW c \in Conn, PeerAccept(c) PROVE TypeInv'
  <2>1. net' = [net EXCEPT ![c] = [net[c] EXCEPT !.server = "open"]]
    BY <1>4 DEF PeerAccept
  <2>2. [net[c] EXCEPT !.server = "open"] \in Connection(Job, Answer)
    BY <1>1 DEF Nets, Connection, ServerEnd
  <2>3. net' \in Nets
    BY <2>1, <2>2, OneChanges
  <2> QED
    BY <1>1, <1>2, <1>3, <1>4, <2>3 DEF PeerAccept, peerVars, askVars
<1>5. ASSUME NEW c \in Conn, PeerRecv(c) PROVE TypeInv'
  <2>1. PICK n \in 1 .. Len(net[c].up) : /\ asked' = First(net[c].up, n)
                                         /\ net' = [net EXCEPT ![c] = ServerTook(net[c], n)]
    BY <1>5 DEF PeerRecv
  <2>2. net[c] \in Connection(Job, Answer) /\ n \in 0 .. Len(net[c].up)
    BY <1>1, <2>1 DEF Nets, Connection
  <2>3. ServerTook(net[c], n) \in Connection(Job, Answer) /\ asked' \in Seq(Job)
    BY <2>1, <2>2, TookTypes
  <2>4. net' \in Nets
    BY <2>1, <2>3, OneChanges
  <2> QED
    BY <1>2, <1>3, <1>5, <2>3, <2>4 DEF PeerRecv
<1>6. ASSUME NEW c \in Conn, PeerSends(c), repeats' \in 0 .. MaxRepeats, calm' \in BOOLEAN, PeerSame
      PROVE  TypeInv'
  <2>1. Reply(asked) \in Seq(Answer)
    BY <1>1, ReplyTypes
  <2>2. ServerSent(net[c], Reply(asked)) \in Connection(Job, Answer)
    BY <1>1, <2>1, ConnectionTypes DEF Nets
  <2>3. net' \in Nets
    BY <1>6, <2>2, OneChanges DEF PeerSends
  <2>4. asked' \in Seq(Job) /\ replied' \in BOOLEAN
    BY <1>1, <1>3, <1>6 DEF PeerSends
  <2> QED
    BY <1>2, <1>3, <1>6, <2>3, <2>4 DEF PeerSends
<1>7. ASSUME NEW c \in Conn, PeerAnswer(c) \/ PeerRepeat(c) PROVE TypeInv'
  <2>1. PeerSends(c) /\ PeerSame
    BY <1>7, Zenon DEF PeerAnswer, PeerRepeat, PeerSends
  <2>2. repeats' \in 0 .. MaxRepeats /\ calm' \in BOOLEAN
    <3>1. CASE PeerAnswer(c)
      <4>1. repeats' = repeats /\ calm' = calm
        BY <3>1 DEF PeerAnswer
      <4> QED
        BY <1>3, <4>1
    <3>2. CASE PeerRepeat(c)
      <4>1. repeats < MaxRepeats /\ repeats' = repeats + 1 /\ calm' = FALSE
        BY <3>2 DEF PeerRepeat
      <4>2. repeats' \in 0 .. MaxRepeats
        BY <1>3, <4>1
      <4>3. calm' \in BOOLEAN
        BY <4>1
      <4> QED
        BY <4>2, <4>3
    <3> QED
      BY <1>7, <3>1, <3>2
  <2> QED
    BY <1>6, <2>1, <2>2
<1>8. ASSUME NEW c \in Conn, PeerClose(c) PROVE TypeInv'
  <2>1. ServerClosed(net[c]) \in Connection(Job, Answer)
    BY <1>1, ConnectionTypes DEF Nets
  <2>2. net' \in Nets
    BY <1>8, <2>1, OneChanges DEF PeerClose
  <2> QED
    BY <1>2, <1>3, <1>8, <2>2 DEF PeerClose
<1>9. CASE PeerCrash
  <2>1. net' \in Nets
    BY <1>1, <1>9, ConnectionTypes DEF PeerCrash, Nets
  <2>2. crashes' \in 0 .. MaxCrashes /\ calm' = FALSE /\ serverUp' = FALSE
    BY <1>3, <1>9 DEF PeerCrash
  <2>3. asked' \in Seq(Job) /\ replied' = FALSE /\ repeats' = repeats /\ PeerSame
    BY <1>3, <1>9 DEF PeerCrash
  <2> QED
    BY <1>2, <1>3, <2>1, <2>2, <2>3
<1>10. CASE PeerDone \/ PeerRestart
  BY <1>1, <1>2, <1>3, <1>10 DEF PeerDone, PeerRestart, askVars
<1> QED
  BY <1>4, <1>5, <1>7, <1>8, <1>9, <1>10 DEF PeerStep

\* The types at the start.
LEMMA TypeInit == Init => TypeInv
<1> SUFFICES ASSUME Init PROVE TypeInv
  OBVIOUS
<1>1. Unused \in Connection(Job, Answer)
  <2>1. <<>> \in Seq(Job) /\ <<>> \in Seq(Answer)
    OBVIOUS
  <2> QED
    BY <2>1 DEF Unused, Connection, ClientEnd, ServerEnd
<1>2. net \in [Conn -> Connection(Job, Answer)] /\ fdtab \in [Fd -> Conn \cup {NoConn}]
  BY <1>1 DEF Init
<1>3. /\ gui = "startSocket" /\ worker = "unborn" /\ submitted = 0
      /\ clientSocket = NoFd /\ job = 0 /\ jobFd = NoFd /\ rconn = NoConn
      /\ repeats = 0 /\ crashes = 0
  BY DEF Init
<1>5. /\ running \in BOOLEAN /\ calm \in BOOLEAN /\ serverUp \in BOOLEAN
      /\ replied \in BOOLEAN
  BY DEF Init
<1>4. /\ queue \in Seq(Job) /\ asked \in Seq(Job)
      /\ shown \in Seq([job : Job, got : Seq(Answer)])
  BY DEF Init
<1>6. TypeOK
  BY <1>5, <1>2, <1>3, <1>4, ClientBounds DEF TypeOK, GuiAt, WorkerAt
<1> QED
  BY <1>3, <1>6, QueueInit DEF TypeInv

\* Every step keeps the types.
LEMMA TypeStep == TypeInv /\ [Next]_vars => TypeInv'
<1> SUFFICES ASSUME TypeInv, [Next]_vars PROVE TypeInv'
  OBVIOUS
<1>1. QueueInv'
  BY QueueStep DEF TypeInv
<1>2. CASE UNCHANGED vars
  BY <1>1, <1>2 DEF vars, threadVars, fdVars, peerVars, askVars, TypeInv, TypeOK
<1> QED
  BY <1>1, <1>2, GuiTypes, WorkerTypes, PeerTypes DEF Next, ClientStep

\* Every variable of the client keeps its type: no system call is made on a
\* connection that does not exist, whichever thread closes, replaces or keeps a
\* descriptor number, and the blocking recv() of the worker always has one.
THEOREM Typing == Spec => []TypeOK
<1>1. TypeInv => TypeOK
  BY DEF TypeInv
<1> QED
  BY <1>1, TypeInit, TypeStep, PTL DEF Spec
-----------------------------------------------------------------------------
(* Connections and who holds them *)

\* The connection behind the member clientSocket.
Here == Behind(clientSocket)

\* A connection: a socket is bare until connect(), and data is in transit only to
\* an end that can still get it.
Life(k) ==
  /\ k = Unused \/ k.client # "none"
  /\ k.client = "new" => k = [Unused EXCEPT !.client = "new"]
  /\ k.up # <<>> => k.server \in {"backlog", "open"}
  /\ k.down # <<>> => k.client = "open" /\ k.server \in {"open", "closed"}

\* Connections are made in the order of their numbers, and accepted in that order.
Succession ==
  \A c, d \in Conn : c < d =>
    /\ net[c] = Unused => net[d] = Unused
    /\ net[d].server \in {"open", "closed"} => net[c].server \notin {"backlog", "open"}

LifeInv == (\A c \in Conn : Life(net[c])) /\ Succession

\* The client holds the connection behind clientSocket, which is the last one made,
\* and the one a blocking recv() refers to, which may be an earlier one.
HoldInv ==
  /\ \A c \in Conn : net[c].client \in {"new", "open"} =>
       c = Here \/ (worker = "receiving" /\ c = rconn)
  /\ Here \in Conn =>
       /\ net[Here].client \in {"new", "open"}
       /\ \A d \in Conn : Here < d => net[d] = Unused
  /\ gui \in {"startConnect", "testConnect"} => Here \in Conn /\ net[Here].client = "new"
  /\ worker = "receiving" =>
       /\ rconn \in Conn /\ net[rconn].client = "open"
       /\ Here \in Conn => rconn <= Here
  /\ gui = "killed" <=> worker = "killed"
  /\ gui \in {"startSocket", "startConnect"} => worker = "unborn"

HeldInv == TypeInv /\ SocketInv /\ LifeInv /\ HoldInv

\* What the operations make of a connection is one.
LEMMA LifeOfOne ==
  ASSUME NEW k \in Connection(Job, Answer), Life(k)
  PROVE  /\ k.client # "new" => Life(ClientClosed(k))
         /\ k.client = "new" => Life(ClientClosed(k)) /\ Life(Connected(k))
         /\ k = Unused => Life(ClientClosed(k)) /\ Life([k EXCEPT !.client = "new"])
         /\ k.server \in {"backlog", "open"} => Life(ServerClosed(k))
         /\ k.server = "backlog" => Life([k EXCEPT !.server = "open"])
         /\ k.client = "open" => \A m \in Job : Life(ClientSent(k, m))
         /\ k.server = "open" => \A s \in Seq(Answer) : Life(ServerSent(k, s))
         /\ k.server = "open" => \A n \in Nat : Life(ServerTook(k, n))
         /\ k.client = "open" /\ k.down # <<>> => \A n \in Nat : Life(Rest(k, n))
<1> USE DEF Life, Unused, Connection
<1>0. k.client = "new" => k.server = "none"
  OBVIOUS
<1>1. Life(ClientClosed(k))
  BY ConnectionFields
<1>2. k.client = "new" => Life(Connected(k))
  BY ConnectionFields
<1>3. k = Unused => Life([k EXCEPT !.client = "new"])
  OBVIOUS
<1>4. k.server \in {"backlog", "open"} => Life(ServerClosed(k))
  BY <1>0, ConnectionFields
<1>5. k.server = "backlog" => Life([k EXCEPT !.server = "open"])
  BY <1>0
<1>6. k.client = "open" => \A m \in Job : Life(ClientSent(k, m))
  BY ConnectionFields
<1>7. k.server = "open" => \A s \in Seq(Answer) : Life(ServerSent(k, s))
  BY <1>0, ConnectionFields
<1>8. k.server = "open" => \A n \in Nat : Life(ServerTook(k, n))
  BY <1>0, ConnectionFields
<1>9. k.client = "open" /\ k.down # <<>> => \A n \in Nat : Life(Rest(k, n))
  BY DEF Rest
<1> QED
  BY <1>1, <1>2, <1>3, <1>4, <1>5, <1>6, <1>7, <1>8, <1>9

\* The same facts as ConnectionFields, as this module needs them.
LEMMA Ends ==
  /\ \A k \in Connection(Job, Answer) :
       /\ ClientClosed(k) \in Connection(Job, Answer)
       /\ ClientClosed(k).client = "closed" /\ ClientClosed(k).server = k.server
       /\ ClientClosed(k).up = k.up /\ ClientClosed(k).down = <<>>
       /\ ClientClosed(k).clientRst = k.clientRst
  /\ \A k \in Connection(Job, Answer) :
       /\ Connected(k) \in Connection(Job, Answer)
       /\ Connected(k).client = "open" /\ Connected(k).server = "backlog"
       /\ Connected(k).up = k.up /\ Connected(k).down = k.down
       /\ Connected(k).clientRst = k.clientRst /\ Connected(k).serverRst = k.serverRst
  /\ \A k \in Connection(Job, Answer) :
       /\ ServerClosed(k) \in Connection(Job, Answer)
       /\ ServerClosed(k).client = k.client /\ ServerClosed(k).server = "closed"
       /\ ServerClosed(k).up = <<>> /\ ServerClosed(k).down = k.down
       /\ ServerClosed(k).serverRst = k.serverRst
       /\ k.up = <<>> => ServerClosed(k).clientRst = k.clientRst
  /\ \A k \in Connection(Job, Answer), m \in Job :
       /\ ClientSent(k, m) \in Connection(Job, Answer)
       /\ ClientSent(k, m).client = k.client /\ ClientSent(k, m).server = k.server
       /\ ClientSent(k, m).down = k.down /\ ClientSent(k, m).serverRst = k.serverRst
       /\ IF k.server \in {"backlog", "open"}
          THEN ClientSent(k, m).up = Append(k.up, m) /\ ClientSent(k, m).clientRst = k.clientRst
          ELSE ClientSent(k, m).up = k.up
<1>1. \A k \in Connection(Job, Answer) :
        /\ ClientClosed(k) \in Connection(Job, Answer)
        /\ ClientClosed(k).client = "closed" /\ ClientClosed(k).server = k.server
        /\ ClientClosed(k).up = k.up /\ ClientClosed(k).down = <<>>
        /\ ClientClosed(k).clientRst = k.clientRst
  BY ConnectionTypes, ConnectionFields
<1>2. \A k \in Connection(Job, Answer) :
        /\ Connected(k) \in Connection(Job, Answer)
        /\ Connected(k).client = "open" /\ Connected(k).server = "backlog"
        /\ Connected(k).up = k.up /\ Connected(k).down = k.down
        /\ Connected(k).clientRst = k.clientRst /\ Connected(k).serverRst = k.serverRst
  BY ConnectionTypes, ConnectionFields
<1>3. \A k \in Connection(Job, Answer) :
        /\ ServerClosed(k) \in Connection(Job, Answer)
        /\ ServerClosed(k).client = k.client /\ ServerClosed(k).server = "closed"
        /\ ServerClosed(k).up = <<>> /\ ServerClosed(k).down = k.down
        /\ ServerClosed(k).serverRst = k.serverRst
        /\ k.up = <<>> => ServerClosed(k).clientRst = k.clientRst
  BY ConnectionTypes, ConnectionFields
<1>4. \A k \in Connection(Job, Answer), m \in Job :
        /\ ClientSent(k, m) \in Connection(Job, Answer)
        /\ ClientSent(k, m).client = k.client /\ ClientSent(k, m).server = k.server
        /\ ClientSent(k, m).down = k.down /\ ClientSent(k, m).serverRst = k.serverRst
        /\ IF k.server \in {"backlog", "open"}
           THEN ClientSent(k, m).up = Append(k.up, m) /\ ClientSent(k, m).clientRst = k.clientRst
           ELSE ClientSent(k, m).up = k.up
  <2> SUFFICES ASSUME NEW k \in Connection(Job, Answer), NEW m \in Job
               PROVE  /\ ClientSent(k, m) \in Connection(Job, Answer)
                      /\ ClientSent(k, m).client = k.client /\ ClientSent(k, m).server = k.server
                      /\ ClientSent(k, m).down = k.down /\ ClientSent(k, m).serverRst = k.serverRst
                      /\ IF k.server \in {"backlog", "open"}
                         THEN /\ ClientSent(k, m).up = Append(k.up, m)
                              /\ ClientSent(k, m).clientRst = k.clientRst
                         ELSE ClientSent(k, m).up = k.up
    OBVIOUS
  <2>1. ClientSent(k, m) \in Connection(Job, Answer)
    BY ConnectionTypes
  <2> QED
    BY <2>1 DEF ClientSent, Connection
<1> QED
  BY <1>1, <1>2, <1>3, <1>4

\* A connection that the client never made is unused altogether.
LEMMA UnusedIs ==
  ASSUME NEW k, Life(k)
  PROVE  k = Unused <=> k.client = "none"
BY DEF Life, Unused

\* After close(clientSocket), clientSocket names no connection, and its connection is
\* closed unless recv() is still called on it.
LEMMA CloseHere ==
  ASSUME HeldInv
  PROVE  /\ \A f \in Fd : FdtabAfterClose(clientSocket)[f] = NoConn
         /\ \A c \in Conn : NetAfterClose(clientSocket)[c] =
              IF c = Here /\ ~(worker = "receiving" /\ rconn = c)
              THEN ClientClosed(net[c]) ELSE net[c]
<1>1. net \in Nets /\ Here \in Conn \cup {NoConn}
  BY DEF HeldInv, TypeInv, TypeOK, Nets, Here, Behind
<1>2. \A c \in Conn : NetAfterClose(clientSocket)[c] =
        IF c = Here /\ ~(worker = "receiving" /\ rconn = c)
        THEN ClientClosed(net[c]) ELSE net[c]
  BY <1>1, ClientBounds DEF NetAfterClose, Here, Nets
<1> QED
  BY <1>2, CloseLeavesNone DEF HeldInv

\* socket() makes the first unused connection the one behind clientSocket.
LEMMA NewHere ==
  ASSUME HeldInv, NewSocket
  PROVE  /\ Here' \in Conn /\ net[Here'] = Unused
         /\ \A d \in Conn : d < Here' => net[d] # Unused
         /\ net' = [net EXCEPT ![Here'] = [Unused EXCEPT !.client = "new"]]
<1>1. PICK f \in Fd, c \in Conn :
        /\ net[c] = Unused /\ \A d \in Conn : d < c => net[d] # Unused
        /\ fdtab' = [fdtab EXCEPT ![f] = c] /\ clientSocket' = f
        /\ net' = [net EXCEPT ![c].client = "new"]
  BY DEF NewSocket
<1>2. Here' = c
  BY <1>1 DEF Here, Behind, HeldInv, TypeInv, TypeOK
<1>3. net' = [net EXCEPT ![c] = [Unused EXCEPT !.client = "new"]]
  BY <1>1
<1> QED
  BY <1>1, <1>2, <1>3

\* One connection changes, but neither its server end nor whether it exists.
LEMMA LifeOfOther ==
  ASSUME HeldInv, NEW c \in Conn, NEW k \in Connection(Job, Answer), Life(k),
         net' = [net EXCEPT ![c] = k], k.client # "none", net[c].client # "none",
         k.server = net[c].server
  PROVE  LifeInv'
<1>1. \A d \in Conn : net'[d] = IF d = c THEN k ELSE net[d]
  BY DEF HeldInv, TypeInv, TypeOK
<1>2. \A d \in Conn : Life(net'[d])
  BY <1>1 DEF HeldInv, LifeInv
<1>3. Succession'
  BY <1>1, <1>2, UnusedIs DEF HeldInv, LifeInv, Succession
<1> QED
  BY <1>2, <1>3 DEF LifeInv

\* Some ends of the client close.
LEMMA LifeAfterClose ==
  ASSUME HeldInv,
         \A c \in Conn : \/ net'[c] = net[c]
                         \/ net[c].client # "none" /\ net'[c] = ClientClosed(net[c])
  PROVE  LifeInv'
<1>1. net \in Nets /\ \A c \in Conn : Life(net[c])
  BY DEF HeldInv, LifeInv, TypeInv, TypeOK, Nets
<1>2. ASSUME NEW c \in Conn
      PROVE  Life(net'[c]) /\ net'[c].server = net[c].server
               /\ (net'[c].client = "none" <=> net[c].client = "none")
  <2>1. net[c] \in Connection(Job, Answer) /\ Life(net[c])
    BY <1>1 DEF Nets
  <2>2. Life(ClientClosed(net[c]))
    BY <2>1, LifeOfOne
  <2> QED
    BY <2>1, <2>2, Ends
<1>3. Succession'
  BY <1>1, <1>2, UnusedIs DEF HeldInv, LifeInv, Succession
<1> QED
  BY <1>2, <1>3 DEF LifeInv

\* One socket operation of the client.
LEMMA LifeOfClient ==
  ASSUME HeldInv, ClientStep
  PROVE  LifeInv'
<1>1. net \in Nets /\ \A c \in Conn : Life(net[c]) /\ net[c] \in Connection(Job, Answer)
  BY DEF HeldInv, LifeInv, TypeInv, TypeOK, Nets
<1>2. CASE net' = net
  BY <1>2 DEF HeldInv, LifeInv, Succession
<1>3. Here \in Conn => net[Here].client \in {"new", "open"}
  BY DEF HeldInv, HoldInv
<1>4. CASE NewSocket
  <2> DEFINE k == [Unused EXCEPT !.client = "new"]
             b == Here'
  <2>1. /\ b \in Conn /\ net[b] = Unused /\ \A d \in Conn : d < b => net[d] # Unused
        /\ \A d \in Conn : net'[d] = IF d = b THEN k ELSE net[d]
    BY <1>1, <1>4, NewHere DEF Nets
  <2>2. Life(k) /\ k # Unused /\ k.server = "none"
    BY DEF Life, Unused
  <2> HIDE DEF k, b
  <2>3. \A d \in Conn : Life(net'[d])
    BY <1>1, <2>1, <2>2
  <2>4. Succession'
    BY <1>1, <2>1, <2>2 DEF HeldInv, LifeInv, Succession, Conn, Unused
  <2> QED
    BY <2>3, <2>4 DEF LifeInv
<1>5. CASE net' = NetAfterClose(clientSocket)
  <2>1. \A c \in Conn : \/ net'[c] = net[c]
                        \/ net[c].client # "none" /\ net'[c] = ClientClosed(net[c])
    BY <1>3, <1>5, CloseHere
  <2> QED
    BY <2>1, LifeAfterClose
<1>6. CASE ConnectSocket /\ gui \in {"startConnect", "testConnect"}
  <2>1. CASE net' = [net EXCEPT ![Here] = Connected(@)]
    <3> DEFINE k == Connected(net[Here])
    <3>1. /\ Here \in Conn /\ net[Here].client = "new"
          /\ \A d \in Conn : Here < d => net[d] = Unused
          /\ \A d \in Conn : net'[d] = IF d = Here THEN k ELSE net[d]
      BY <1>1, <1>6, <2>1 DEF HeldInv, HoldInv, Nets
    <3>2. Life(k) /\ k.client = "open" /\ k.server = "backlog"
      BY <1>1, <3>1, LifeOfOne, Ends
    <3>3. \A d \in Conn : Here < d => net[d].server = "none"
      BY <3>1 DEF Unused
    <3> HIDE DEF k
    <3>4. \A d \in Conn : Life(net'[d])
      BY <1>1, <3>1, <3>2
    <3>5. Succession'
      BY <1>1, <3>1, <3>2, <3>3, <3>4, UnusedIs DEF HeldInv, LifeInv, Succession, Conn
    <3> QED
      BY <3>4, <3>5 DEF LifeInv
  <2> QED
    BY <1>5, <1>6, <2>1 DEF ConnectSocket, Here
<1>7. CASE GuiStep \/ UserStep
  BY <1>2, <1>4, <1>5, <1>6, <1>7 DEF GuiStep, UserStep, StartSocket, StartSocketFails,
     StartConnect, SocketSend, SocketSendNotify, TestSocketClose, TestSocketNew, TestSocketFails,
     TestSocketConnect, StopClearFlag, StopNotify, StopJoin, StopClose
<1>8. CASE WorkerSend
  <2>1. PICK c \in Conn : net[c].client = "open" /\ job \in Job
                            /\ net' = [net EXCEPT ![c] = ClientSent(net[c], job)]
    BY <1>8 DEF WorkerSend, Behind, HeldInv, TypeInv, TypeOK, QueueInv, Executing
  <2>2. /\ ClientSent(net[c], job) \in Connection(Job, Answer) /\ Life(ClientSent(net[c], job))
        /\ ClientSent(net[c], job).client = "open"
        /\ ClientSent(net[c], job).server = net[c].server
    BY <1>1, <2>1, LifeOfOne, Ends
  <2> QED
    BY <2>1, <2>2, LifeOfOther
<1>9. CASE WorkerSigpipe
  BY <1>1, <1>9, LifeAfterClose DEF WorkerSigpipe
<1>10. CASE WorkerReceive \/ WorkerEof \/ WorkerRecvError
  <2>1. rconn \in Conn /\ net[rconn].client = "open"
    BY <1>10 DEF WorkerReceive, WorkerEof, WorkerRecvError, HeldInv, HoldInv
  <2>2. PICK k \in Connection(Job, Answer) :
          /\ Life(k) /\ k.client = "open" /\ k.server = net[rconn].server
          /\ net' = [net EXCEPT ![rconn] = Returned(k)]
    <3>1. CASE WorkerReceive
      <4>1. PICK n \in 1 .. Len(net[rconn].down) :
              net' = [net EXCEPT ![rconn] = Returned(Rest(net[rconn], n))]
        BY <3>1 DEF WorkerReceive
      <4>2. n \in Nat /\ n \in 0 .. Len(net[rconn].down) /\ net[rconn].down # <<>>
        BY <1>1, <2>1, <4>1 DEF Connection
      <4>3. Rest(net[rconn], n) \in Connection(Job, Answer) /\ Life(Rest(net[rconn], n))
        BY <1>1, <2>1, <4>2, LifeOfOne, TookTypes DEF Rest
      <4>4. Rest(net[rconn], n).client = "open" /\ Rest(net[rconn], n).server = net[rconn].server
        BY <1>1, <2>1 DEF Rest, Connection
      <4> QED
        BY <4>1, <4>3, <4>4
    <3>2. CASE WorkerEof \/ WorkerRecvError
      BY <1>1, <2>1, <3>2 DEF WorkerEof, WorkerRecvError
    <3> QED
      BY <1>10, <3>1, <3>2
  <2>3. /\ Returned(k) \in Connection(Job, Answer) /\ Life(Returned(k))
        /\ Returned(k).client # "none" /\ Returned(k).server = k.server
    BY <2>2, LifeOfOne, Ends DEF Returned
  <2> QED
    BY <2>1, <2>2, <2>3, LifeOfOther
<1>11. CASE WorkerLoop \/ WorkerEmpty \/ WorkerSleep \/ WorkerSpurious \/ WorkerBreak \/ WorkerTake
            \/ WorkerCall \/ WorkerSendError \/ WorkerRecv
  BY <1>2, <1>11 DEF WorkerLoop, WorkerEmpty, WorkerSleep, WorkerSpurious, WorkerBreak,
     WorkerTake, WorkerCall, WorkerSendError, WorkerRecv
<1> QED
  BY <1>7, <1>8, <1>9, <1>10, <1>11 DEF ClientStep, WorkerStep

\* One operation of the peer.
LEMMA LifeOfPeer ==
  ASSUME HeldInv, PeerStep
  PROVE  LifeInv'
<1>1. \A c \in Conn : net[c] \in Connection(Job, Answer) /\ Life(net[c])
  BY DEF HeldInv, LifeInv, TypeInv, TypeOK
<1>2. asked \in Seq(Job)
  BY DEF HeldInv, TypeInv, TypeOK
<1>3. \A c \in Conn : net[c].server # "none" => net[c].client # "none"
  BY <1>1 DEF Life, Unused
<1>4. ASSUME NEW c \in Conn, PeerAccept(c) PROVE LifeInv'
  <2> DEFINE k == [net[c] EXCEPT !.server = "open"]
  <2>1. /\ net[c].server = "backlog" /\ \A d \in Conn : net[d].server # "open"
        /\ \A d \in Conn : d < c => net[d].server # "backlog"
        /\ \A d \in Conn : net'[d] = IF d = c THEN k ELSE net[d]
    BY <1>4 DEF PeerAccept, HeldInv, TypeInv, TypeOK
  <2>2. Life(k) /\ k.server = "open" /\ k.client = net[c].client
    BY <1>1, <2>1, LifeOfOne DEF Connection
  <2> HIDE DEF k
  <2>3. \A d \in Conn : Life(net'[d])
    BY <1>1, <2>1, <2>2
  <2>4. Succession'
    BY <1>1, <1>3, <2>1, <2>2, <2>3, UnusedIs DEF HeldInv, LifeInv, Succession
  <2> QED
    BY <2>3, <2>4 DEF LifeInv
<1>5. ASSUME NEW c \in Conn, PeerRecv(c) PROVE LifeInv'
  <2>1. PICK n \in 1 .. Len(net[c].up) : net' = [net EXCEPT ![c] = ServerTook(net[c], n)]
    BY <1>5 DEF PeerRecv
  <2>2. net[c].server = "open" /\ n \in 0 .. Len(net[c].up) /\ n \in Nat
    BY <1>1, <1>5, <2>1 DEF PeerRecv, Connection
  <2>3. ServerTook(net[c], n) \in Connection(Job, Answer) /\ Life(ServerTook(net[c], n))
    BY <1>1, <2>2, LifeOfOne, TookTypes
  <2>4. /\ ServerTook(net[c], n).client = net[c].client
        /\ ServerTook(net[c], n).server = net[c].server
    BY <1>1 DEF ServerTook, Connection
  <2> QED
    BY <1>3, <2>1, <2>2, <2>3, <2>4, LifeOfOther
<1>6. ASSUME NEW c \in Conn, PeerSends(c) PROVE LifeInv'
  <2> DEFINE k == ServerSent(net[c], Reply(asked))
  <2>1. net[c].server = "open" /\ net' = [net EXCEPT ![c] = k]
    BY <1>6 DEF PeerSends
  <2>2. Reply(asked) \in Seq(Answer)
    BY <1>2, ReplyTypes
  <2>3. k \in Connection(Job, Answer) /\ Life(k)
    BY <1>1, <2>1, <2>2, LifeOfOne, ConnectionTypes
  <2>4. k.client = net[c].client /\ k.server = net[c].server
    BY <1>1 DEF ServerSent, Connection
  <2> HIDE DEF k
  <2> QED
    BY <1>3, <2>1, <2>3, <2>4, LifeOfOther
<1>7. ASSUME NEW S \in SUBSET Conn, \A c \in S : net[c].server \in {"backlog", "open"},
             \A c \in Conn \ S : net[c].server # "open",
             \A c \in S : \A d \in Conn \ S : d < c => net[d].server # "backlog",
             \A c \in Conn : net'[c] = IF c \in S THEN ServerClosed(net[c]) ELSE net[c]
      PROVE  LifeInv'
  <2>1. ASSUME NEW c \in Conn
        PROVE  /\ Life(net'[c])
               /\ c \in S => net'[c].server = "closed"
               /\ net'[c].client = net[c].client
    <3>1. c \in S => Life(ServerClosed(net[c]))
      BY <1>1, <1>7, LifeOfOne
    <3> QED
      BY <1>1, <1>7, <3>1, Ends
  <2>2. Succession'
    BY <1>1, <1>7, <2>1, UnusedIs DEF HeldInv, LifeInv, Succession
  <2> QED
    BY <2>1, <2>2 DEF LifeInv
<1>8. ASSUME NEW c \in Conn, PeerClose(c) PROVE LifeInv'
  <2>1. /\ net[c].server = "open"
        /\ \A d \in Conn : net'[d] = IF d \in {c} THEN ServerClosed(net[d]) ELSE net[d]
    BY <1>8 DEF PeerClose, HeldInv, TypeInv, TypeOK
  <2>2. \A d \in Conn : d < c => net[d].server \notin {"backlog", "open"}
    BY <2>1 DEF HeldInv, LifeInv, Succession
  <2>3. \A d \in Conn : c < d => net[d].server \notin {"open", "closed"}
    BY <2>1 DEF HeldInv, LifeInv, Succession
  <2>4. \A d \in Conn : d < c \/ d = c \/ c < d
    BY DEF Conn
  <2> QED
    BY <1>7, <2>1, <2>2, <2>3, <2>4
<1>9. CASE PeerCrash
  <2> DEFINE S == {c \in Conn : net[c].server \in {"backlog", "open"}}
  <2>1. \A c \in Conn : net'[c] = IF c \in S THEN ServerClosed(net[c]) ELSE net[c]
    BY <1>9 DEF PeerCrash
  <2> QED
    BY <1>7, <2>1
<1>10. CASE PeerDone \/ PeerRestart
  BY <1>10 DEF PeerDone, PeerRestart, HeldInv, LifeInv, Succession
<1> QED
  BY <1>4, <1>5, <1>6, <1>8, <1>9, <1>10 DEF PeerStep, PeerAnswer, PeerRepeat

\* Where no connection is held by clientSocket any more.
LEMMA NoneHere ==
  ASSUME \A f \in Fd : fdtab'[f] = NoConn
  PROVE  Here' = NoConn
BY DEF Here, Behind

\* The client's ends stay as they are.
LEMMA HoldOfSame ==
  ASSUME HeldInv, Here' = Here,
         \A c \in Conn : /\ net'[c].client = net[c].client
                         /\ net[c] = Unused => net'[c] = Unused,
         gui' \in {"startConnect", "testConnect"} => gui' = gui,
         gui' = "killed" <=> worker' = "killed",
         gui' \in {"startSocket", "startConnect"} => gui' = gui /\ worker' = worker,
         worker' = "receiving" => worker = "receiving" /\ rconn' = rconn,
         worker = "receiving" => worker' = "receiving"
  PROVE  HoldInv'
BY DEF HeldInv, HoldInv

\* The peer leaves them alone, and the connections that do not exist.
LEMMA HoldOfPeer ==
  ASSUME HeldInv, PeerStep
  PROVE  HoldInv'
<1>1. \A c \in Conn : net[c] \in Connection(Job, Answer) /\ Life(net[c])
  BY DEF HeldInv, LifeInv, TypeInv, TypeOK
<1>2. PeerSame
  BY Zenon DEF PeerStep, PeerAccept, PeerRecv, PeerAnswer, PeerRepeat, PeerSends,
               PeerDone, PeerClose, PeerCrash, PeerRestart
<1>3. \A c \in Conn : net'[c].client = net[c].client /\ (net[c] = Unused => net'[c] = Unused)
  <2>1. ASSUME NEW c \in Conn, NEW k, net[c].server # "none", net' = [net EXCEPT ![c] = k],
               k.client = net[c].client
        PROVE  \A d \in Conn : net'[d].client = net[d].client /\ (net[d] = Unused => net'[d] = Unused)
    <3>1. \A d \in Conn : net'[d] = IF d = c THEN k ELSE net[d]
      BY <2>1 DEF HeldInv, TypeInv, TypeOK
    <3>2. Unused.server = "none"
      BY DEF Unused
    <3> QED
      BY <2>1, <3>1, <3>2
  <2>2. ASSUME NEW c \in Conn
        PROVE  /\ [net[c] EXCEPT !.server = "open"].client = net[c].client
               /\ \A n \in Nat : ServerTook(net[c], n).client = net[c].client
               /\ \A s : ServerSent(net[c], s).client = net[c].client
               /\ ServerClosed(net[c]).client = net[c].client
    BY <1>1 DEF Connection, ServerTook, ServerSent, ServerClosed
  <2>3. ASSUME NEW c \in Conn, PeerRecv(c)
        PROVE  \A d \in Conn : net'[d].client = net[d].client /\ (net[d] = Unused => net'[d] = Unused)
    <3>1. PICK n \in 1 .. Len(net[c].up) : net' = [net EXCEPT ![c] = ServerTook(net[c], n)]
      BY <2>3 DEF PeerRecv
    <3>2. n \in Nat /\ net[c].server = "open"
      BY <1>1, <2>3, <3>1 DEF PeerRecv, Connection
    <3> QED
      BY <2>1, <2>2, <3>1, <3>2
  <2>4. ASSUME NEW c \in Conn, PeerAccept(c) \/ PeerSends(c) \/ PeerClose(c)
        PROVE  \A d \in Conn : net'[d].client = net[d].client /\ (net[d] = Unused => net'[d] = Unused)
    BY <2>1, <2>2, <2>4 DEF PeerAccept, PeerSends, PeerClose
  <2>5. CASE PeerCrash
    BY <2>2, <2>5 DEF PeerCrash, Unused
  <2>6. CASE PeerDone \/ PeerRestart
    BY <2>6 DEF PeerDone, PeerRestart
  <2> QED
    BY <2>3, <2>4, <2>5, <2>6 DEF PeerStep, PeerAnswer, PeerRepeat
<1>4. UNCHANGED <<Here, gui, worker, rconn>>
  BY <1>2 DEF PeerSame, threadVars, fdVars, Here, Behind
<1> QED
  BY <1>3, <1>4, HoldOfSame DEF HeldInv, HoldInv

\* Neither does an operation of the client let go of the connection it uses.
LEMMA HoldOfClient ==
  ASSUME HeldInv, ClientStep, LifeInv'
  PROVE  HoldInv'
<1>1. \A c \in Conn : net[c] \in Connection(Job, Answer) /\ Life(net[c])
  BY DEF HeldInv, LifeInv, TypeInv, TypeOK
<1>2. Unused.client = "none"
  BY DEF Unused
<1>3. CASE /\ Here' = Here /\ net' = net /\ gui' \notin {"startSocket", "startConnect", "testConnect"}
           /\ gui' = "killed" <=> worker' = "killed"
           /\ worker' = "receiving" => worker = "receiving" /\ rconn' = rconn
           /\ worker = "receiving" => worker' = "receiving"
  BY <1>3, HoldOfSame
<1>4. CASE NewSocket /\ gui \in {"startSocket", "testSocket"} /\ gui' # "killed"
             /\ UNCHANGED <<worker, rconn>> /\ (gui' = "startConnect" => worker = "unborn")
             /\ gui' # "startSocket"
  <2> DEFINE k == [Unused EXCEPT !.client = "new"]
             b == Here'
  <2>1. /\ b \in Conn /\ net[b] = Unused /\ \A d \in Conn : d < b => net[d] # Unused
        /\ \A d \in Conn : net'[d] = IF d = b THEN k ELSE net[d]
    BY <1>4, NewHere DEF HeldInv, TypeInv, TypeOK
  <2>2. k.client = "new"
    BY DEF Unused
  <2>3. Here = NoConn
    BY <1>4 DEF Here, Behind, HeldInv, SocketInv, NoneWhileReplacing
  <2>4. NoConn \notin Conn
    BY ClientBounds
  <2>5. \A d \in Conn : b < d => net[d] = Unused
    BY <2>1 DEF HeldInv, LifeInv, Succession
  <2> HIDE DEF k, b
  <2>6. worker = "receiving" => rconn \in Conn /\ net'[rconn].client = "open" /\ rconn <= b
    <3>1. worker = "receiving" => rconn \in Conn /\ net[rconn].client = "open"
      BY DEF HeldInv, HoldInv
    <3>2. worker = "receiving" => ~(b < rconn) /\ rconn # b
      BY <1>2, <2>1, <2>5, <3>1
    <3> QED
      BY <2>1, <3>1, <3>2 DEF Conn
  <2>7. \A c \in Conn : net'[c].client \in {"new", "open"} =>
          c = b \/ (worker = "receiving" /\ c = rconn)
    BY <2>1, <2>3, <2>4 DEF HeldInv, HoldInv
  <2>8. \A d \in Conn : b < d => net'[d] = Unused
    BY <2>1, <2>5 DEF Conn
  <2>9. worker # "killed"
    BY <1>4 DEF HeldInv, HoldInv
  <2>10. Here' = b
    BY DEF b
  <2> QED
    BY <1>4, <2>1, <2>2, <2>6, <2>7, <2>8, <2>9, <2>10 DEF HoldInv
<1>5. CASE /\ net' = NetAfterClose(clientSocket) /\ fdtab' = FdtabAfterClose(clientSocket)
           /\ UNCHANGED <<clientSocket, rconn>> /\ gui' \notin {"startSocket", "startConnect", "testConnect"}
           /\ gui' = "killed" <=> worker' = "killed"
           /\ worker' = "receiving" <=> worker = "receiving"
  <2>1. Here' = NoConn /\ NoConn \notin Conn
    BY <1>5, CloseHere, NoneHere, ClientBounds
  <2>2. \A c \in Conn : net'[c] = IF c = Here /\ ~(worker = "receiving" /\ rconn = c)
                                  THEN ClientClosed(net[c]) ELSE net[c]
    BY <1>5, CloseHere
  <2>3. \A c \in Conn : ClientClosed(net[c]).client = "closed"
    BY <1>1, Ends
  <2>4. \A c \in Conn : net'[c].client \in {"new", "open"} => worker = "receiving" /\ c = rconn
    BY <2>2, <2>3 DEF HeldInv, HoldInv
  <2>5. worker = "receiving" => rconn \in Conn /\ net'[rconn].client = "open"
    BY <2>2 DEF HeldInv, HoldInv
  <2> QED
    BY <1>5, <2>1, <2>4, <2>5 DEF HoldInv
<1>6. CASE /\ gui \in {"startConnect", "testConnect"} /\ gui' = "idle" /\ ConnectSocket
           /\ UNCHANGED <<clientSocket, rconn>> /\ worker' # "killed"
           /\ worker' = "receiving" <=> worker = "receiving"
  <2>1. CASE net' = [net EXCEPT ![Here] = Connected(@)] /\ UNCHANGED fdtab
    <3>1. Here' = Here /\ Here \in Conn /\ net[Here].client = "new"
      BY <1>6, <2>1 DEF HeldInv, HoldInv, Here, Behind
    <3>2. /\ \A d \in Conn : d # Here => net'[d] = net[d]
          /\ net'[Here].client = "open"
      BY <1>1, <2>1, <3>1, Ends DEF HeldInv, TypeInv, TypeOK
    <3>3. \A d \in Conn : Here < d => net'[d] = Unused
      BY <3>1, <3>2 DEF HeldInv, HoldInv, Conn
    <3> QED
      BY <1>6, <3>1, <3>2, <3>3 DEF HeldInv, HoldInv
  <2> QED
    BY <1>5, <1>6, <2>1 DEF ConnectSocket, Here
<1>7. CASE GuiStep \/ UserStep
  <2> USE DEF GuiSame, fdVars, Here, Behind, Woken, GuiAt, WorkerAt
  <2>1. gui = "killed" <=> worker = "killed"
    BY DEF HeldInv, HoldInv
  <2>2. gui \in {"startSocket", "startConnect"} => worker = "unborn"
    BY DEF HeldInv, HoldInv
  <2>3. CASE StartSocket \/ TestSocketNew
    BY <1>4, <2>1, <2>2, <2>3 DEF StartSocket, TestSocketNew
  <2>4. CASE StartConnect \/ TestSocketConnect
    BY <1>6, <2>1, <2>2, <2>4 DEF StartConnect, TestSocketConnect
  <2>5. CASE TestSocketClose \/ StopClose
    BY <1>5, <2>1, <2>5 DEF TestSocketClose, StopClose
  <2>6. CASE StartSocketFails
    BY <1>3, <2>2, <2>6 DEF StartSocketFails
  <2>7. CASE TestSocketFails
    <3>1. Here' = NoConn /\ NoConn \notin Conn /\ Here = NoConn
      BY <2>7, ClientBounds DEF TestSocketFails, HeldInv, SocketInv, NoneWhileReplacing
    <3> QED
      BY <1>3, <2>1, <2>7, <3>1 DEF TestSocketFails
  <2>8. CASE SocketSend \/ SocketSendNotify \/ StopClearFlag \/ StopNotify \/ StopJoin
    BY <1>3, <2>1, <2>8 DEF SocketSend, SocketSendNotify, StopClearFlag, StopNotify, StopJoin
  <2> QED
    BY <1>7, <2>3, <2>4, <2>5, <2>6, <2>7, <2>8 DEF GuiStep, UserStep
<1>8. CASE WorkerSend
  <2>1. PICK c \in Conn : net[c].client = "open" /\ job \in Job
                            /\ net' = [net EXCEPT ![c] = ClientSent(net[c], job)]
    BY <1>8 DEF WorkerSend, Behind, HeldInv, TypeInv, TypeOK, QueueInv, Executing
  <2>2. ClientSent(net[c], job).client = net[c].client
    BY <1>1, <2>1, Ends
  <2>3. \A d \in Conn : net'[d] = IF d = c THEN ClientSent(net[c], job) ELSE net[d]
    BY <2>1 DEF HeldInv, TypeInv, TypeOK
  <2>4. \A d \in Conn : net'[d].client = net[d].client /\ (net[d] = Unused => net'[d] = Unused)
    BY <1>2, <2>1, <2>2, <2>3
  <2>5. Here' = Here /\ UNCHANGED gui /\ worker = "send" /\ worker' = "sent"
    BY <1>8 DEF WorkerSend, WorkerSame, fdVars, Here, Behind
  <2>6. gui \notin {"killed", "startSocket", "startConnect"}
    BY <2>5 DEF HeldInv, HoldInv
  <2> QED
    BY <2>4, <2>5, <2>6, HoldOfSame
<1>9. CASE WorkerSigpipe
  <2>1. Here' = NoConn /\ NoConn \notin Conn
    BY <1>9, NoneHere, ClientBounds DEF WorkerSigpipe
  <2>2. \A c \in Conn : net'[c].client \notin {"new", "open"}
    BY <1>1, <1>9, Ends DEF WorkerSigpipe
  <2> QED
    BY <1>9, <2>1, <2>2 DEF WorkerSigpipe, HoldInv
<1>10. CASE WorkerReceive \/ WorkerEof \/ WorkerRecvError
  <2>1. /\ rconn \in Conn /\ net[rconn].client = "open" /\ Here' = Here /\ UNCHANGED gui
        /\ worker = "receiving" /\ worker' = "loop"
    BY <1>10 DEF WorkerReceive, WorkerEof, WorkerRecvError, HeldInv, HoldInv, WorkerSame, fdVars,
                 Here, Behind
  <2>2. \E k \in Connection(Job, Answer) :
          k.client = "open" /\ net' = [net EXCEPT ![rconn] = Returned(k)]
    <3>1. CASE WorkerReceive
      <4>1. PICK n \in 1 .. Len(net[rconn].down) :
              net' = [net EXCEPT ![rconn] = Returned(Rest(net[rconn], n))]
        BY <3>1 DEF WorkerReceive
      <4>2. n \in 0 .. Len(net[rconn].down)
        BY <1>1, <2>1, <4>1 DEF Connection
      <4>3. Rest(net[rconn], n) \in Connection(Job, Answer)
        BY <1>1, <2>1, <4>2, TookTypes DEF Rest
      <4>4. Rest(net[rconn], n).client = "open"
        BY <1>1, <2>1 DEF Rest, Connection
      <4> QED
        BY <4>1, <4>3, <4>4
    <3>2. CASE WorkerEof \/ WorkerRecvError
      BY <1>1, <2>1, <3>2 DEF WorkerEof, WorkerRecvError
    <3> QED
      BY <1>10, <3>1, <3>2
  <2>3. PICK k \in Connection(Job, Answer) :
          k.client = "open" /\ net' = [net EXCEPT ![rconn] = Returned(k)]
    BY <2>2
  <2>4. IF rconn = Here THEN Returned(k) = k ELSE Returned(k) = ClientClosed(k)
    <3>1. rconn = Here => \E f \in Fd : fdtab[f] = rconn
      BY <2>1, ClientBounds DEF Here, Behind
    <3>2. (\E f \in Fd : fdtab[f] = rconn) => rconn = Here
      BY <2>1, ClientBounds DEF Here, Behind, HeldInv, SocketInv, OneSocket
    <3> QED
      BY <3>1, <3>2 DEF Returned
  <2>5. IF rconn = Here THEN net'[rconn].client = "open" ELSE net'[rconn].client = "closed"
    BY <2>1, <2>3, <2>4, Ends DEF HeldInv, TypeInv, TypeOK
  <2>6. \A d \in Conn : d # rconn => net'[d] = net[d]
    BY <2>3 DEF HeldInv, TypeInv, TypeOK
  <2>7. \A d \in Conn : Here \in Conn /\ Here < d => net'[d] = Unused
    BY <2>1, <2>6 DEF HeldInv, HoldInv, Conn
  <2>8. gui \notin {"killed", "startSocket", "startConnect"}
    BY <2>1 DEF HeldInv, HoldInv
  <2>9. \A c \in Conn : net'[c].client \in {"new", "open"} => c = Here
    BY <2>1, <2>5, <2>6 DEF HeldInv, HoldInv
  <2>10. Here \in Conn => net'[Here].client \in {"new", "open"}
    BY <2>1, <2>5, <2>6 DEF HeldInv, HoldInv
  <2>11. gui = "testConnect" => Here \in Conn /\ net'[Here].client = "new"
    BY <2>1, <2>5, <2>6 DEF HeldInv, HoldInv
  <2> QED
    BY <2>1, <2>7, <2>8, <2>9, <2>10, <2>11 DEF HoldInv
<1>11. CASE WorkerRecv
  <2>1. /\ Here' = Here /\ net' = net /\ UNCHANGED gui /\ worker = "sent"
        /\ worker' \in {"loop", "receiving"}
        /\ worker' = "receiving" => Here # NoConn /\ net[Here].client = "open" /\ rconn' = Here
    BY <1>11 DEF WorkerRecv, WorkerSame, fdVars, Here, Behind
  <2>2. Here \in Conn \cup {NoConn}
    BY DEF Here, Behind, HeldInv, TypeInv, TypeOK
  <2>3. Here \in Conn => Here <= Here
    BY DEF Conn
  <2> QED
    BY <2>1, <2>2, <2>3 DEF HeldInv, HoldInv
<1>12. CASE WorkerLoop \/ WorkerEmpty \/ WorkerSleep \/ WorkerSpurious \/ WorkerBreak \/ WorkerTake
            \/ WorkerCall \/ WorkerSendError
  <2>1. /\ Here' = Here /\ net' = net /\ UNCHANGED gui /\ rconn' = rconn
        /\ worker \notin {"receiving", "unborn", "killed"}
        /\ worker' \notin {"receiving", "unborn", "killed"}
    BY <1>12 DEF WorkerLoop, WorkerEmpty, WorkerSleep, WorkerSpurious, WorkerBreak, WorkerTake,
       WorkerCall, WorkerSendError, WorkerSame, fdVars, Here, Behind
  <2> QED
    BY <2>1, HoldOfSame DEF HeldInv, HoldInv
<1> QED
  BY <1>7, <1>8, <1>9, <1>10, <1>11, <1>12 DEF ClientStep, WorkerStep

\* The invariant of this section.
LEMMA HeldInit == Init => HeldInv
<1> SUFFICES ASSUME Init PROVE HeldInv
  OBVIOUS
<1>1. \A c \in Conn : net[c] = Unused
  BY DEF Init
<1>2. Life(Unused) /\ Unused.client = "none" /\ Unused.server = "none"
  BY DEF Life, Unused
<1>3. Here = NoConn /\ NoConn \notin Conn
  BY ClientBounds DEF Init, Here, Behind
<1>4. gui = "startSocket" /\ worker = "unborn"
  BY DEF Init
<1>5. LifeInv /\ HoldInv
  BY <1>1, <1>2, <1>3, <1>4 DEF LifeInv, Succession, HoldInv
<1> QED
  BY <1>5, TypeInit, SocketInit DEF HeldInv

\* Every step keeps what is known of connections and descriptors.
LEMMA HeldStep == HeldInv /\ [Next]_vars => HeldInv'
<1> SUFFICES ASSUME HeldInv, [Next]_vars PROVE HeldInv'
  OBVIOUS
<1>1. TypeInv' /\ SocketInv'
  BY TypeStep, SocketStep DEF HeldInv
<1>2. CASE UNCHANGED vars
  BY <1>1, <1>2 DEF vars, threadVars, fdVars, HeldInv, LifeInv, Succession, HoldInv, Here, Behind
<1> QED
  BY <1>1, <1>2, LifeOfClient, LifeOfPeer, HoldOfClient, HoldOfPeer DEF Next, HeldInv

\* It holds.
LEMMA Held == Spec => []HeldInv
BY HeldInit, HeldStep, PTL DEF Spec

-----------------------------------------------------------------------------
(* The order of requests and answers *)

\* The last job that may have been sent.
Sent == IF worker \in {"took", "send"} THEN Taken - 1 ELSE Taken

\* Requests travel in the order of their numbers, on one connection and from one to
\* the next, and the peer works on earlier ones than those that travel.
RequestOrder ==
  /\ \A c \in Conn : \A i \in 1 .. Len(net[c].up) :
       /\ net[c].up[i] <= Sent
       /\ \A d \in Conn : \A j \in 1 .. Len(net[d].up) :
            c < d \/ (c = d /\ i < j) => net[c].up[i] < net[d].up[j]
  /\ \A i \in 1 .. Len(asked) :
       /\ asked[i] <= Sent
       /\ \A j \in 1 .. Len(asked) : i < j => asked[i] < asked[j]
       /\ \A c \in Conn : \A j \in 1 .. Len(net[c].up) : asked[i] < net[c].up[j]

\* A request that an answer may be for: it was sent, it is not on its way any more,
\* and the peer does not work on a later one.
Past(r) ==
  /\ r \in Job /\ r <= Sent
  /\ asked # <<>> => r <= asked[Len(asked)]
  /\ \A d \in Conn : \A j \in 1 .. Len(net[d].up) : r < net[d].up[j]

\* Answers travel in the order of the requests,
AnswerOrder ==
  \A c \in Conn : \A i \in 1 .. Len(net[c].down) :
    /\ Past(Newest(net[c].down[i]))
    /\ \A d \in Conn : \A j \in 1 .. Len(net[d].down) :
         c < d \/ (c = d /\ i < j) => Newest(net[c].down[i]) <= Newest(net[d].down[j])

\* and those that were shown go before those that travel.
ShownOrder ==
  \A i \in 1 .. Len(shown) : \A a \in 1 .. Len(shown[i].got) :
    /\ Past(Newest(shown[i].got[a])) /\ Newest(shown[i].got[a]) <= shown[i].job
    /\ \A d \in Conn : \A j \in 1 .. Len(net[d].down) :
         Newest(shown[i].got[a]) <= Newest(net[d].down[j])
    /\ \A j \in i + 1 .. Len(shown) : \A b \in 1 .. Len(shown[j].got) :
         Newest(shown[i].got[a]) <= Newest(shown[j].got[b])

OrderInv == RequestOrder /\ AnswerOrder /\ ShownOrder

\* What a step may count on of the sequences before and after it.
Typed ==
  /\ net \in Nets /\ asked \in Seq(Job) /\ shown \in Seq(Emission)
  /\ \A c \in Conn : net[c] \in Connection(Job, Answer)
  /\ \A c \in Conn : net[c].up \in Seq(Job) /\ net[c].down \in Seq(Answer)
  /\ \A c \in Conn : \A i \in 1 .. Len(net[c].up) : net[c].up[i] \in Int
  /\ \A i \in 1 .. Len(asked) : asked[i] \in Int
  /\ \A i \in 1 .. Len(shown) : shown[i].job \in Int /\ shown[i].got \in Seq(Answer)
  /\ Sent \in Int /\ Taken \in Int
  /\ Executing => job = Taken /\ job \in Job

\* The invariant gives these types ...
LEMMA HeldTypes == HeldInv => Typed
<1> SUFFICES ASSUME HeldInv PROVE Typed
  OBVIOUS
<1>1. net \in Nets /\ asked \in Seq(Job) /\ shown \in Seq(Emission) /\ submitted \in Nat
  BY ClientBounds DEF HeldInv, TypeInv, TypeOK, Nets, Emission
<1>2. \A c \in Conn : net[c].up \in Seq(Job) /\ net[c].down \in Seq(Answer)
  BY <1>1 DEF Nets, Connection
<1>3. \A i \in 1 .. Len(shown) : shown[i] \in Emission
  BY <1>1, ElementOfSeq
<1>4. Len(queue) \in Nat
  BY LenProperties DEF HeldInv, TypeInv, QueueInv
<1>5. Executing => job = Taken /\ job \in Job
  BY DEF HeldInv, TypeInv, QueueInv
<1>6. Job \subseteq Int
  BY DEF Job
<1>7. \A c \in Conn : \A i \in 1 .. Len(net[c].up) : net[c].up[i] \in Int
  BY <1>2, <1>6, ElementOfSeq
<1>8. \A i \in 1 .. Len(asked) : asked[i] \in Int
  BY <1>1, <1>6, ElementOfSeq
<1>9. Sent \in Int /\ Taken \in Int
  BY <1>1, <1>4 DEF Sent, Taken
<1>10. \A i \in 1 .. Len(shown) : shown[i].job \in Int /\ shown[i].got \in Seq(Answer)
  BY <1>3, <1>6 DEF Emission
<1>11. \A c \in Conn : net[c] \in Connection(Job, Answer)
  BY <1>1 DEF Nets
<1> QED
  BY <1>1, <1>2, <1>5, <1>7, <1>8, <1>9, <1>10, <1>11 DEF Typed

\* ... after a step as well.
LEMMA HeldTypesNext == HeldInv' => Typed'
BY HeldTypes, PTL

\* A step that sends nothing, and at most loses something.
LEMMA OrderLeft ==
  ASSUME HeldInv, OrderInv, HeldInv', Sent <= Sent', asked' \in {asked, <<>>},
         \A c \in Conn : net'[c].up \in {net[c].up, <<>>} /\ net'[c].down \in {net[c].down, <<>>}
  PROVE  RequestOrder' /\ AnswerOrder' /\ \A r : Past(r) => Past(r)'
<1>1. Sent \in Int /\ Sent' \in Int /\ Len(<<>>) = 0
  BY HeldTypes, HeldTypesNext DEF Typed
<1>2. \A r \in Int : r <= Sent => r <= Sent'
  BY <1>1
<1>3. /\ \A i \in 1 .. Len(asked) : asked[i] \in Int
      /\ \A c \in Conn : \A i \in 1 .. Len(net[c].up) : net[c].up[i] \in Int
  BY HeldTypes DEF Typed
<1>4. RequestOrder'
  <2>1. ASSUME NEW c \in Conn, NEW i \in 1 .. Len(net'[c].up)
        PROVE  /\ net'[c].up[i] <= Sent'
               /\ \A d \in Conn : \A j \in 1 .. Len(net'[d].up) :
                    c < d \/ (c = d /\ i < j) => net'[c].up[i] < net'[d].up[j]
    <3>1. net'[c].up = net[c].up /\ i \in 1 .. Len(net[c].up)
      BY <1>1
    <3>2. net[c].up[i] <= Sent'
      BY <1>2, <1>3, <3>1 DEF OrderInv, RequestOrder
    <3>3. ASSUME NEW d \in Conn, NEW j \in 1 .. Len(net'[d].up), c < d \/ (c = d /\ i < j)
          PROVE  net'[c].up[i] < net'[d].up[j]
      <4>1. net'[d].up = net[d].up
        BY <1>1
      <4> QED
        BY <3>1, <3>3, <4>1 DEF OrderInv, RequestOrder
    <3> QED
      BY <3>1, <3>2, <3>3
  <2>2. ASSUME NEW i \in 1 .. Len(asked')
        PROVE  /\ asked'[i] <= Sent'
               /\ \A j \in 1 .. Len(asked') : i < j => asked'[i] < asked'[j]
               /\ \A c \in Conn : \A j \in 1 .. Len(net'[c].up) : asked'[i] < net'[c].up[j]
    <3>1. asked' = asked /\ i \in 1 .. Len(asked)
      BY <1>1
    <3>2. asked[i] <= Sent'
      BY <1>2, <1>3, <3>1 DEF OrderInv, RequestOrder
    <3>3. ASSUME NEW c \in Conn, NEW j \in 1 .. Len(net'[c].up)
          PROVE  asked'[i] < net'[c].up[j]
      <4>1. net'[c].up = net[c].up
        BY <1>1
      <4> QED
        BY <3>1, <3>3, <4>1 DEF OrderInv, RequestOrder
    <3> QED
      BY <3>1, <3>2, <3>3 DEF OrderInv, RequestOrder
  <2> QED
    BY <2>1, <2>2 DEF RequestOrder
<1>5. \A r : Past(r) => Past(r)'
  BY <1>1, <1>2 DEF Past, Job
<1>6. AnswerOrder'
  BY <1>1, <1>5 DEF OrderInv, AnswerOrder
<1> QED
  BY <1>4, <1>5, <1>6

\* The same, when nothing is shown.
LEMMA OrderKept ==
  ASSUME HeldInv, OrderInv, HeldInv', Sent <= Sent', asked' \in {asked, <<>>}, shown' = shown,
         \A c \in Conn : net'[c].up \in {net[c].up, <<>>} /\ net'[c].down \in {net[c].down, <<>>}
  PROVE  OrderInv'
<1>1. RequestOrder' /\ AnswerOrder' /\ \A r : Past(r) => Past(r)'
  BY OrderLeft
<1>2. Len(<<>>) = 0
  OBVIOUS
<1>3. ShownOrder'
  BY <1>1, <1>2 DEF OrderInv, ShownOrder
<1> QED
  BY <1>1, <1>3 DEF OrderInv

\* The worker sends the job on the last connection; the job is later than anything
\* that was sent.
LEMMA OrderOfSend ==
  ASSUME HeldInv, OrderInv, HeldInv', WorkerSend
  PROVE  OrderInv'
<1> DEFINE c == Here
<1>1. /\ c \in Conn /\ net[c].client = "open" /\ job \in Job /\ job = Taken
      /\ net' = [net EXCEPT ![c] = ClientSent(net[c], job)]
  <2>1. PICK b \in Conn : /\ b = Behind(jobFd) /\ net[b].client = "open"
                          /\ net' = [net EXCEPT ![b] = ClientSent(net[b], job)]
    BY DEF WorkerSend, Behind, HeldInv, TypeInv, TypeOK
  <2>2. Executing /\ worker # "receiving"
    BY DEF WorkerSend, Executing
  <2>3. b = Here
    BY <2>1, <2>2 DEF HeldInv, HoldInv
  <2> QED
    BY <2>1, <2>2, <2>3, HeldTypes DEF Typed
<1>2. /\ Sent = job - 1 /\ Sent' = job /\ UNCHANGED <<asked, shown>>
  <2>1. worker = "send" /\ worker' = "sent" /\ UNCHANGED <<queue, submitted, asked, shown>>
    BY DEF WorkerSend, WorkerSame, peerVars, askVars
  <2>2. Taken' = Taken
    BY <2>1 DEF Taken
  <2> QED
    BY <1>1, <2>1, <2>2 DEF Sent
<1>3. \A d \in Conn : net'[d].down = net[d].down /\ (d # c => net'[d].up = net[d].up)
  BY <1>1, Ends, HeldTypes DEF Typed, Nets
<1>4. net'[c].up \in {net[c].up, Append(net[c].up, job)}
  BY <1>1, Ends, HeldTypes DEF Typed, Nets
<1>5. \A d \in Conn : c < d => net[d].up = <<>>
  BY <1>1 DEF HeldInv, HoldInv, Unused
<1> HIDE DEF c
<1>6. \A d \in Conn : \A j \in 1 .. Len(net'[d].up) :
        \/ j \in 1 .. Len(net[d].up) /\ net'[d].up[j] = net[d].up[j]
        \/ d = c /\ j = Len(net[c].up) + 1 /\ j = Len(net'[c].up) /\ net'[d].up[j] = job
  <2>1. net[c].up \in Seq(Job) /\ job \in Job
    BY <1>1, HeldTypes DEF Typed
  <2>2. /\ Len(Append(net[c].up, job)) = Len(net[c].up) + 1
        /\ Append(net[c].up, job)[Len(net[c].up) + 1] = job
        /\ \A j \in 1 .. Len(net[c].up) : Append(net[c].up, job)[j] = net[c].up[j]
        /\ Len(net[c].up) \in Nat
    BY <2>1, AppendProperties, LenProperties
  <2>3. ASSUME NEW d \in Conn, NEW j \in 1 .. Len(net'[d].up), net'[d].up = net[d].up
        PROVE  j \in 1 .. Len(net[d].up) /\ net'[d].up[j] = net[d].up[j]
    BY <2>3
  <2>4. ASSUME NEW j \in 1 .. Len(net'[c].up), net'[c].up = Append(net[c].up, job)
        PROVE  \/ j \in 1 .. Len(net[c].up) /\ net'[c].up[j] = net[c].up[j]
               \/ j = Len(net[c].up) + 1 /\ j = Len(net'[c].up) /\ net'[c].up[j] = job
    <3>1. j = Len(net[c].up) + 1 \/ j \in 1 .. Len(net[c].up)
      BY <2>2, <2>4
    <3> QED
      BY <2>2, <2>4, <3>1
  <2> QED
    BY <1>3, <1>4, <2>3, <2>4
<1>7. \A r \in Int : r <= Sent => r < job /\ r <= Sent'
  BY <1>1, <1>2 DEF Job
<1>8. /\ \A i \in 1 .. Len(asked) : asked[i] \in Int
      /\ \A d \in Conn : \A i \in 1 .. Len(net[d].up) : net[d].up[i] \in Int
      /\ \A d \in Conn : Len(net[d].up) \in Nat
  BY HeldTypes, LenProperties DEF Typed
<1>9. ASSUME NEW d \in Conn, NEW i \in 1 .. Len(net'[d].up)
      PROVE  /\ net'[d].up[i] <= Sent'
             /\ \A b \in Conn : \A j \in 1 .. Len(net'[b].up) :
                  d < b \/ (d = b /\ i < j) => net'[d].up[i] < net'[b].up[j]
  <2>1. CASE d = c /\ i = Len(net[c].up) + 1 /\ net'[d].up[i] = job /\ i = Len(net'[c].up)
    <3>1. \A b \in Conn : c < b => net'[b].up = <<>>
      BY <1>3, <1>5 DEF Conn
    <3> QED
      BY <1>1, <1>2, <1>8, <2>1, <3>1 DEF Job
  <2>2. CASE i \in 1 .. Len(net[d].up) /\ net'[d].up[i] = net[d].up[i]
    <3>1. net[d].up[i] <= Sent /\ net[d].up[i] \in Int
      BY <1>8, <2>2 DEF OrderInv, RequestOrder
    <3>2. ASSUME NEW b \in Conn, NEW j \in 1 .. Len(net'[b].up), d < b \/ (d = b /\ i < j)
          PROVE  net'[d].up[i] < net'[b].up[j]
      BY <1>6, <1>7, <2>2, <3>1, <3>2 DEF OrderInv, RequestOrder
    <3> QED
      BY <1>7, <2>2, <3>1, <3>2
  <2> QED
    BY <1>6, <2>1, <2>2
<1>10. ASSUME NEW i \in 1 .. Len(asked)
       PROVE  /\ asked[i] <= Sent'
              /\ \A d \in Conn : \A j \in 1 .. Len(net'[d].up) : asked[i] < net'[d].up[j]
  BY <1>6, <1>7, <1>8 DEF OrderInv, RequestOrder
<1>11. RequestOrder'
  BY <1>2, <1>9, <1>10 DEF OrderInv, RequestOrder
<1>12. ASSUME NEW r, Past(r) PROVE Past(r)'
  <2>1. r \in Int /\ r < job
    BY <1>7, <1>12 DEF Past, Job
  <2> QED
    BY <1>2, <1>6, <1>7, <1>12, <2>1 DEF Past
<1>13. \A r : Past(r) => Past(r)'
  BY <1>12
<1>14. AnswerOrder'
  BY <1>3, <1>13 DEF OrderInv, AnswerOrder
<1>15. ShownOrder'
  BY <1>2, <1>3, <1>13 DEF OrderInv, ShownOrder
<1> QED
  BY <1>11, <1>14, <1>15 DEF OrderInv

\* One more thing is shown, and nothing was shown before that is later.
LEMMA ShownMore ==
  ASSUME HeldInv, OrderInv, Len(shown') = Len(shown) + 1,
         \A i \in 1 .. Len(shown) : shown'[i] = shown[i],
         \A i \in 1 .. Len(shown) : \A a \in 1 .. Len(shown[i].got) :
           /\ \A d \in Conn : \A j \in 1 .. Len(net'[d].down) :
                Newest(shown[i].got[a]) <= Newest(net'[d].down[j])
           /\ \A b \in 1 .. Len(shown'[Len(shown) + 1].got) :
                Newest(shown[i].got[a]) <= Newest(shown'[Len(shown) + 1].got[b]),
         \A a \in 1 .. Len(shown'[Len(shown) + 1].got) :
           /\ Past(Newest(shown'[Len(shown) + 1].got[a]))
           /\ Newest(shown'[Len(shown) + 1].got[a]) <= shown'[Len(shown) + 1].job
           /\ \A d \in Conn : \A j \in 1 .. Len(net'[d].down) :
                Newest(shown'[Len(shown) + 1].got[a]) <= Newest(net'[d].down[j]),
         \A r : Past(r) => Past(r)'
  PROVE  ShownOrder'
<1> DEFINE k == Len(shown) + 1
<1>1. Len(shown) \in Nat
  BY HeldTypes, LenProperties DEF Typed
<1>2. ASSUME NEW i \in 1 .. Len(shown'), NEW a \in 1 .. Len(shown'[i].got)
      PROVE  /\ Past(Newest(shown'[i].got[a])) /\ Newest(shown'[i].got[a]) <= shown'[i].job
             /\ \A d \in Conn : \A j \in 1 .. Len(net'[d].down) :
                  Newest(shown'[i].got[a]) <= Newest(net'[d].down[j])
             /\ \A j \in i + 1 .. Len(shown') : \A b \in 1 .. Len(shown'[j].got) :
                  Newest(shown'[i].got[a]) <= Newest(shown'[j].got[b])
  <2>1. CASE i = k
    <3>1. i + 1 .. Len(shown') = {}
      BY <1>1, <2>1
    <3> QED
      BY <2>1, <3>1
  <2>2. CASE i \in 1 .. Len(shown)
    <3>1. shown'[i] = shown[i] /\ a \in 1 .. Len(shown[i].got)
      BY <2>2
    <3>2. /\ Past(Newest(shown[i].got[a])) /\ Newest(shown[i].got[a]) <= shown[i].job
          /\ \A j \in i + 1 .. Len(shown) : \A b \in 1 .. Len(shown[j].got) :
               Newest(shown[i].got[a]) <= Newest(shown[j].got[b])
      BY <2>2, <3>1 DEF OrderInv, ShownOrder
    <3>3. ASSUME NEW j \in i + 1 .. Len(shown'), NEW b \in 1 .. Len(shown'[j].got)
          PROVE  Newest(shown'[i].got[a]) <= Newest(shown'[j].got[b])
      <4>1. CASE j = k
        BY <2>2, <3>1, <4>1
      <4>2. CASE j \in i + 1 .. Len(shown)
        <5>1. j \in 1 .. Len(shown)
          BY <1>1, <2>2, <4>2
        <5>2. shown'[j] = shown[j]
          BY <5>1
        <5> QED
          BY <3>1, <3>2, <4>2, <5>2
      <4> QED
        BY <1>1, <2>2, <4>1, <4>2
    <3> QED
      BY <2>2, <3>1, <3>2, <3>3
  <2> QED
    BY <1>1, <2>1, <2>2
<1> QED
  BY <1>2 DEF ShownOrder

\* The worker shows the first answers on the connection; those that are left, and those
\* on a later connection, are not older.
LEMMA OrderOfReceive ==
  ASSUME HeldInv, OrderInv, HeldInv', WorkerReceive
  PROVE  OrderInv'
<1> DEFINE c == rconn
           down == net[c].down
<1>1. PICK n \in 1 .. Len(down) :
        /\ net' = [net EXCEPT ![c] = Returned(Rest(net[c], n))]
        /\ shown' = Append(shown, [job |-> job, got |-> First(down, n)])
  BY DEF WorkerReceive
<1>2. /\ c \in Conn /\ net[c].client = "open" /\ worker = "receiving" /\ worker' = "loop"
      /\ UNCHANGED <<asked, queue, submitted>>
  BY DEF WorkerReceive, WorkerSame, peerVars, askVars, HeldInv, HoldInv
<1>3. Sent' = Sent /\ job = Sent /\ job \in Job
  <2>1. Executing
    BY <1>2 DEF Executing
  <2> QED
    BY <1>2, <2>1, HeldTypes DEF Sent, Taken, Typed
<1>4. down \in Seq(Answer) /\ n \in 0 .. Len(down) /\ Len(down) \in Nat
  BY <1>1, <1>2, HeldTypes, LenProperties DEF Typed
<1>5. /\ First(down, n) \in Seq(Answer) /\ Len(First(down, n)) = n
      /\ \A i \in 1 .. n : First(down, n)[i] = down[i]
      /\ Len(SubSeq(down, n + 1, Len(down))) = Len(down) - n
      /\ \A i \in 1 .. Len(down) - n : SubSeq(down, n + 1, Len(down))[i] = down[n + i]
  BY <1>4, SplitTypes
<1>6. /\ net'[c].up = net[c].up
      /\ net'[c].down \in {<<>>, SubSeq(down, n + 1, Len(down))}
      /\ \A d \in Conn : d # c => net'[d] = net[d]
  <2>1. net[c] \in Connection(Job, Answer)
    BY <1>2, HeldTypes DEF Typed
  <2>2. /\ Rest(net[c], n) \in Connection(Job, Answer) /\ Rest(net[c], n).up = net[c].up
        /\ Rest(net[c], n).down = SubSeq(down, n + 1, Len(down))
    BY <1>4, <2>1, TookTypes DEF Rest, Connection
  <2>3. /\ Returned(Rest(net[c], n)).up = net[c].up
        /\ Returned(Rest(net[c], n)).down \in {<<>>, SubSeq(down, n + 1, Len(down))}
    BY <2>2, Ends DEF Returned
  <2> QED
    BY <1>1, <1>2, <2>3, HeldTypes DEF Typed, Nets
<1> HIDE DEF c
<1>7. \A d \in Conn : \A j \in 1 .. Len(net'[d].down) :
        IF d = c THEN n + j \in 1 .. Len(down) /\ net'[d].down[j] = down[n + j]
                 ELSE j \in 1 .. Len(net[d].down) /\ net'[d].down[j] = net[d].down[j]
  <2>1. ASSUME NEW d \in Conn, NEW j \in 1 .. Len(net'[d].down), d # c
        PROVE  j \in 1 .. Len(net[d].down) /\ net'[d].down[j] = net[d].down[j]
    BY <1>6, <2>1
  <2>2. ASSUME NEW j \in 1 .. Len(net'[c].down)
        PROVE  n + j \in 1 .. Len(down) /\ net'[c].down[j] = down[n + j]
    <3>1. net'[c].down = SubSeq(down, n + 1, Len(down))
      BY <1>6, LenProperties
    <3>2. j \in 1 .. Len(down) - n
      BY <1>5, <3>1
    <3> QED
      BY <1>4, <1>5, <3>1, <3>2
  <2> QED
    BY <2>1, <2>2
<1>8. \A d \in Conn : net'[d].up = net[d].up
  BY <1>2, <1>6
<1>9. RequestOrder'
  BY <1>2, <1>3, <1>8 DEF OrderInv, RequestOrder
<1>10. \A r : Past(r) => Past(r)'
  BY <1>2, <1>3, <1>8 DEF Past
<1>11. ASSUME NEW d \in Conn, NEW i \in 1 .. Len(net'[d].down)
       PROVE  /\ Past(Newest(net'[d].down[i]))
              /\ \A b \in Conn : \A j \in 1 .. Len(net'[b].down) :
                   d < b \/ (d = b /\ i < j) =>
                     Newest(net'[d].down[i]) <= Newest(net'[b].down[j])
  <2> DEFINE Now(b, j) == IF b = c THEN n + j ELSE j
  <2>1. \A b \in Conn : \A j \in 1 .. Len(net'[b].down) :
          Now(b, j) \in 1 .. Len(net[b].down) /\ net'[b].down[j] = net[b].down[Now(b, j)]
    BY <1>7 DEF down
  <2>2. Past(Newest(net'[d].down[i]))
    BY <2>1 DEF OrderInv, AnswerOrder
  <2>3. ASSUME NEW b \in Conn, NEW j \in 1 .. Len(net'[b].down), d < b \/ (d = b /\ i < j)
        PROVE  Newest(net'[d].down[i]) <= Newest(net'[b].down[j])
    <3>1. Now(d, i) \in 1 .. Len(net[d].down) /\ net'[d].down[i] = net[d].down[Now(d, i)]
      BY <2>1
    <3>2. Now(b, j) \in 1 .. Len(net[b].down) /\ net'[b].down[j] = net[b].down[Now(b, j)]
      BY <2>1
    <3>3. d < b \/ (d = b /\ Now(d, i) < Now(b, j))
      <4>1. i \in Int /\ j \in Int /\ n \in Int
        BY <1>4
      <4> QED
        BY <2>3, <4>1
    <3> HIDE DEF Now
    <3> QED
      BY <3>1, <3>2, <3>3 DEF OrderInv, AnswerOrder
  <2> QED
    BY <2>2, <2>3
<1>12. AnswerOrder'
  BY <1>10, <1>11 DEF AnswerOrder
<1>13. /\ shown \in Seq(Emission) /\ Len(shown) \in Nat /\ Len(shown') = Len(shown) + 1
       /\ \A i \in 1 .. Len(shown) : shown'[i] = shown[i]
       /\ shown'[Len(shown) + 1] = [job |-> job, got |-> First(down, n)]
  BY <1>1, HeldTypes, AppendProperties, LenProperties DEF Typed
<1>14. ASSUME NEW a \in 1 .. n
       PROVE  /\ Past(Newest(down[a])) /\ Newest(down[a]) <= job
              /\ \A d \in Conn : \A j \in 1 .. Len(net'[d].down) :
                   Newest(down[a]) <= Newest(net'[d].down[j])
  <2>1. a \in 1 .. Len(net[c].down) /\ down[a] = net[c].down[a] /\ c \in Conn
    BY <1>2, <1>4 DEF down, c
  <2>2. Past(Newest(down[a]))
    BY <2>1 DEF OrderInv, AnswerOrder
  <2>3. \A d \in Conn : \A j \in 1 .. Len(net[d].down) :
          c < d \/ (c = d /\ a < j) => Newest(down[a]) <= Newest(net[d].down[j])
    BY <2>1 DEF OrderInv, AnswerOrder
  <2>4. ASSUME NEW d \in Conn, NEW j \in 1 .. Len(net'[d].down)
        PROVE  Newest(down[a]) <= Newest(net'[d].down[j])
    <3>1. CASE d = c
      <4>1. n + j \in 1 .. Len(net[c].down) /\ net'[c].down[j] = net[c].down[n + j]
        BY <1>7, <3>1 DEF down
      <4>2. a < n + j
        BY <1>4
      <4> QED
        BY <2>1, <2>3, <3>1, <4>1, <4>2
    <3>2. CASE d # c
      <4>1. j \in 1 .. Len(net[d].down) /\ net'[d].down[j] = net[d].down[j]
        BY <1>7, <3>2
      <4>2. net[d].client = "open"
        BY <4>1 DEF HeldInv, LifeInv, Life
      <4>3. c < d
        BY <1>2, <3>2, <4>2 DEF HeldInv, HoldInv, c, Conn
      <4> QED
        BY <2>3, <4>1, <4>3
    <3> QED
      BY <3>1, <3>2
  <2>5. Newest(down[a]) <= job
    BY <1>3, <2>2 DEF Past
  <2> QED
    BY <2>2, <2>4, <2>5
<1>15. ASSUME NEW i \in 1 .. Len(shown), NEW a \in 1 .. Len(shown[i].got)
       PROVE  /\ Past(Newest(shown[i].got[a])) /\ Newest(shown[i].got[a]) <= shown[i].job
              /\ \A d \in Conn : \A j \in 1 .. Len(net'[d].down) :
                   Newest(shown[i].got[a]) <= Newest(net'[d].down[j])
              /\ \A j \in i + 1 .. Len(shown) : \A b \in 1 .. Len(shown[j].got) :
                   Newest(shown[i].got[a]) <= Newest(shown[j].got[b])
              /\ \A b \in 1 .. n : Newest(shown[i].got[a]) <= Newest(down[b])
  <2>1. /\ Past(Newest(shown[i].got[a])) /\ Newest(shown[i].got[a]) <= shown[i].job
        /\ \A j \in i + 1 .. Len(shown) : \A b \in 1 .. Len(shown[j].got) :
              Newest(shown[i].got[a]) <= Newest(shown[j].got[b])
        /\ \A d \in Conn : \A j \in 1 .. Len(net[d].down) :
              Newest(shown[i].got[a]) <= Newest(net[d].down[j])
    BY DEF OrderInv, ShownOrder
  <2>2. ASSUME NEW d \in Conn, NEW j \in 1 .. Len(net'[d].down)
        PROVE  Newest(shown[i].got[a]) <= Newest(net'[d].down[j])
    BY <1>7, <2>1 DEF down
  <2>3. ASSUME NEW b \in 1 .. n PROVE Newest(shown[i].got[a]) <= Newest(down[b])
    <3>1. b \in 1 .. Len(net[c].down) /\ down[b] = net[c].down[b] /\ c \in Conn
      BY <1>2, <1>4 DEF down, c
    <3> QED
      BY <2>1, <3>1
  <2> QED
    BY <2>1, <2>2, <2>3
<1> DEFINE k == Len(shown) + 1
<1>16. /\ shown'[k].job = job /\ Len(shown'[k].got) = n
       /\ \A a \in 1 .. n : shown'[k].got[a] = down[a]
  BY <1>5, <1>13 DEF down
<1>17. ShownOrder'
  <2>1. \A i \in 1 .. Len(shown) : \A a \in 1 .. Len(shown[i].got) :
          /\ \A d \in Conn : \A j \in 1 .. Len(net'[d].down) :
               Newest(shown[i].got[a]) <= Newest(net'[d].down[j])
          /\ \A b \in 1 .. Len(shown'[k].got) :
               Newest(shown[i].got[a]) <= Newest(shown'[k].got[b])
    BY <1>15, <1>16
  <2>2. \A a \in 1 .. Len(shown'[k].got) :
          /\ Past(Newest(shown'[k].got[a])) /\ Newest(shown'[k].got[a]) <= shown'[k].job
          /\ \A d \in Conn : \A j \in 1 .. Len(net'[d].down) :
               Newest(shown'[k].got[a]) <= Newest(net'[d].down[j])
    BY <1>14, <1>16
  <2> QED
    BY <1>10, <1>13, <2>1, <2>2, ShownMore
<1> QED
  BY <1>9, <1>12, <1>17 DEF OrderInv

\* The server hung up: an empty answer is shown, and nothing else happens.
LEMMA OrderOfEof ==
  ASSUME HeldInv, OrderInv, HeldInv', WorkerEof
  PROVE  OrderInv'
<1>1. /\ rconn \in Conn /\ net[rconn].down = <<>> /\ worker = "receiving" /\ worker' = "loop"
      /\ net' = [net EXCEPT ![rconn] = Returned(net[rconn])]
      /\ shown' = Append(shown, [job |-> job, got |-> <<>>])
      /\ UNCHANGED <<asked, queue, submitted>>
  BY DEF WorkerEof, ClientAtEof, WorkerSame, peerVars, askVars, HeldInv, HoldInv
<1>2. Sent' = Sent /\ Sent \in Int
  BY <1>1, HeldTypes DEF Sent, Taken, Typed
<1>3. /\ Returned(net[rconn]).up = net[rconn].up
      /\ Returned(net[rconn]).down = <<>>
  BY <1>1, Ends, HeldTypes DEF Returned, Typed
<1>4. \A c \in Conn : net'[c].up = net[c].up /\ net'[c].down = net[c].down
  BY <1>1, <1>3, HeldTypes DEF Typed, Nets
<1>5. RequestOrder' /\ AnswerOrder' /\ \A r : Past(r) => Past(r)'
  BY <1>1, <1>2, <1>4, OrderLeft
<1>6. /\ Len(shown') = Len(shown) + 1
      /\ \A i \in 1 .. Len(shown) : shown'[i] = shown[i]
      /\ shown'[Len(shown) + 1] = [job |-> job, got |-> <<>>]
  BY <1>1, HeldTypes, AppendProperties DEF Typed
<1>7. 1 .. Len(shown'[Len(shown) + 1].got) = {}
  BY <1>6
<1>8. \A i \in 1 .. Len(shown) : \A a \in 1 .. Len(shown[i].got) :
        \A d \in Conn : \A j \in 1 .. Len(net'[d].down) :
          Newest(shown[i].got[a]) <= Newest(net'[d].down[j])
  BY <1>4 DEF OrderInv, ShownOrder
<1>9. ShownOrder'
  BY <1>5, <1>6, <1>7, <1>8, ShownMore
<1> QED
  BY <1>5, <1>9 DEF OrderInv

\* The peer reads the oldest requests there are; on an earlier connection there are none,
\* as the peer is done with those.
LEMMA OrderOfRecv ==
  ASSUME HeldInv, OrderInv, HeldInv', NEW c \in Conn, PeerRecv(c)
  PROVE  OrderInv'
<1> DEFINE up == net[c].up
<1>1. PICK n \in 1 .. Len(up) : asked' = First(up, n)
                                /\ net' = [net EXCEPT ![c] = ServerTook(net[c], n)]
  BY DEF PeerRecv
<1>2. /\ net[c].server = "open" /\ asked = <<>>
      /\ UNCHANGED <<shown, worker, queue, submitted>>
  BY DEF PeerRecv, PeerSame, threadVars
<1>3. up \in Seq(Job) /\ Len(up) \in Nat /\ n \in 0 .. Len(up) /\ n \in Int
  BY <1>1, HeldTypes, LenProperties DEF Typed
<1>4. /\ First(up, n) \in Seq(Job) /\ Len(First(up, n)) = n
      /\ \A i \in 1 .. n : First(up, n)[i] = up[i]
      /\ Len(SubSeq(up, n + 1, Len(up))) = Len(up) - n
      /\ \A i \in 1 .. Len(up) - n : SubSeq(up, n + 1, Len(up))[i] = up[n + i]
  BY <1>3, SplitTypes
<1>5. /\ \A d \in Conn : net'[d].down = net[d].down /\ (d # c => net'[d].up = net[d].up)
      /\ net'[c].up = SubSeq(up, n + 1, Len(up))
  <2>1. /\ ServerTook(net[c], n).down = net[c].down
        /\ ServerTook(net[c], n).up = SubSeq(up, n + 1, Len(up))
    BY HeldTypes DEF Typed, ServerTook, Connection
  <2> QED
    BY <1>1, <2>1, HeldTypes DEF Typed, Nets
<1>6. \A d \in Conn : d < c => net[d].up = <<>>
  BY <1>2 DEF HeldInv, LifeInv, Succession, Life
<1> DEFINE Now(d, j) == IF d = c THEN n + j ELSE j
<1>7. \A d \in Conn : \A j \in 1 .. Len(net'[d].up) :
        Now(d, j) \in 1 .. Len(net[d].up) /\ net'[d].up[j] = net[d].up[Now(d, j)]
  <2>1. ASSUME NEW j \in 1 .. Len(net'[c].up)
        PROVE  n + j \in 1 .. Len(up) /\ net'[c].up[j] = up[n + j]
    <3>1. j \in 1 .. Len(up) - n
      BY <1>4, <1>5
    <3> QED
      BY <1>3, <1>4, <1>5, <3>1
  <2>2. ASSUME NEW d \in Conn, NEW j \in 1 .. Len(net'[d].up), d # c
        PROVE  j \in 1 .. Len(net[d].up) /\ net'[d].up[j] = net[d].up[j]
    BY <1>5, <2>2
  <2> QED
    BY <2>1, <2>2
<1>8. Sent' = Sent
  BY <1>2 DEF Sent, Taken
<1>9. \A d, b \in Conn : \A i \in 1 .. Len(net[d].up), j \in 1 .. Len(net[b].up) :
        d < b \/ (d = b /\ i < j) => net[d].up[i] < net[b].up[j]
  BY DEF OrderInv, RequestOrder
<1>10. ASSUME NEW d \in Conn, NEW i \in 1 .. Len(net'[d].up)
       PROVE  /\ net'[d].up[i] <= Sent'
              /\ \A b \in Conn : \A j \in 1 .. Len(net'[b].up) :
                   d < b \/ (d = b /\ i < j) => net'[d].up[i] < net'[b].up[j]
  <2>1. Now(d, i) \in 1 .. Len(net[d].up) /\ net'[d].up[i] = net[d].up[Now(d, i)]
    BY <1>7
  <2>2. net'[d].up[i] <= Sent'
    BY <1>8, <2>1 DEF OrderInv, RequestOrder
  <2>3. ASSUME NEW b \in Conn, NEW j \in 1 .. Len(net'[b].up), d < b \/ (d = b /\ i < j)
        PROVE  net'[d].up[i] < net'[b].up[j]
    <3>1. Now(b, j) \in 1 .. Len(net[b].up) /\ net'[b].up[j] = net[b].up[Now(b, j)]
      BY <1>7
    <3>2. d < b \/ (d = b /\ Now(d, i) < Now(b, j))
      <4>1. i \in Int /\ j \in Int
        OBVIOUS
      <4> QED
        BY <1>3, <2>3, <4>1
    <3> HIDE DEF Now
    <3> QED
      BY <1>9, <2>1, <3>1, <3>2
  <2> QED
    BY <2>2, <2>3
<1>11. ASSUME NEW i \in 1 .. Len(asked')
       PROVE  /\ asked'[i] <= Sent'
              /\ \A j \in 1 .. Len(asked') : i < j => asked'[i] < asked'[j]
              /\ \A d \in Conn : \A j \in 1 .. Len(net'[d].up) : asked'[i] < net'[d].up[j]
  <2>1. i \in 1 .. n /\ i \in 1 .. Len(up) /\ asked'[i] = up[i] /\ i \in Int
    BY <1>1, <1>3, <1>4
  <2>2. asked'[i] <= Sent'
    BY <1>8, <2>1 DEF OrderInv, RequestOrder
  <2>3. ASSUME NEW j \in 1 .. Len(asked'), i < j PROVE asked'[i] < asked'[j]
    <3>1. j \in 1 .. Len(up) /\ asked'[j] = up[j]
      BY <1>1, <1>3, <1>4
    <3> QED
      BY <1>9, <2>1, <2>3, <3>1
  <2>4. ASSUME NEW d \in Conn, NEW j \in 1 .. Len(net'[d].up)
        PROVE  asked'[i] < net'[d].up[j]
    <3>1. Now(d, j) \in 1 .. Len(net[d].up) /\ net'[d].up[j] = net[d].up[Now(d, j)]
      BY <1>7
    <3>2. c < d \/ (c = d /\ i < Now(d, j))
      <4>1. d < c \/ d = c \/ c < d
        BY DEF Conn
      <4>2. ~ d < c
        <5>1. net[d].up # <<>>
          BY <3>1, EmptySeq
        <5> QED
          BY <1>6, <5>1
      <4>3. j \in Int /\ j > 0
        OBVIOUS
      <4> QED
        BY <1>3, <2>1, <4>1, <4>2, <4>3
    <3> HIDE DEF Now
    <3> QED
      BY <1>9, <2>1, <3>1, <3>2
  <2> QED
    BY <2>2, <2>3, <2>4
<1> HIDE DEF Now
<1>12. RequestOrder'
  BY <1>10, <1>11 DEF RequestOrder
<1>13. ASSUME NEW r, Past(r) PROVE Past(r)'
  <2>1. asked' # <<>> => r <= asked'[Len(asked')]
    <3>1. Len(asked') = n /\ asked'[n] = up[n] /\ n \in 1 .. Len(net[c].up)
      <4>1. n \in 1 .. Len(up) /\ n \in 1 .. n
        BY <1>1, <1>3
      <4>2. asked' = First(up, n)
        BY <1>1
      <4>3. Len(First(up, n)) = n /\ First(up, n)[n] = up[n]
        BY <1>4, <4>1
      <4> QED
        BY <4>1, <4>2, <4>3
    <3>2. r < up[n] /\ up[n] \in Int /\ r \in Int
      BY <1>13, <3>1, HeldTypes DEF Past, Typed, Job
    <3> QED
      BY <3>1, <3>2
  <2>2. \A d \in Conn : \A j \in 1 .. Len(net'[d].up) : r < net'[d].up[j]
    BY <1>7, <1>13 DEF Past
  <2> QED
    BY <1>8, <1>13, <2>1, <2>2 DEF Past
<1>14. \A r : Past(r) => Past(r)'
  BY <1>13
<1>15. AnswerOrder'
  BY <1>5, <1>14 DEF OrderInv, AnswerOrder
<1>16. ShownOrder'
  <2>1. shown' = shown /\ \A d \in Conn : net'[d].down = net[d].down
    BY <1>2, <1>5
  <2> QED
    BY <1>14, <2>1 DEF OrderInv, ShownOrder
<1> QED
  BY <1>12, <1>15, <1>16 DEF OrderInv

\* The answer that is sent is for what the peer works on: for later requests than any
\* other answer, and no answer travels on a later connection.
LEMMA OrderOfAnswer ==
  ASSUME HeldInv, OrderInv, HeldInv', NEW c \in Conn, PeerSends(c)
  PROVE  OrderInv'
<1> DEFINE down == net[c].down
           last == asked[Len(asked)]
           reply == Reply(asked)
<1>1. /\ net[c].server = "open" /\ asked # <<>> /\ asked' \in {asked, <<>>}
      /\ net' = [net EXCEPT ![c] = ServerSent(net[c], reply)]
      /\ shown' = shown /\ UNCHANGED <<worker, queue, submitted>>
  BY DEF PeerSends, PeerSame, threadVars
<1>2. /\ asked \in Seq(Job) /\ Len(asked) \in 1 .. Len(asked) /\ last \in Job
      /\ reply \in Seq(Answer) /\ Len(reply) \in Nat
      /\ \A i \in 1 .. Len(reply) : Newest(reply[i]) = last
  <2>1. asked \in Seq(Job) /\ Len(asked) \in 1 .. Len(asked)
    BY <1>1, HeldTypes, EmptySeq, LenProperties DEF Typed
  <2>2. last \in Job
    BY <2>1, ElementOfSeq
  <2>3. reply \in Seq(Answer)
    BY <2>1, ReplyTypes
  <2>4. \A i \in 1 .. Len(reply) : reply[i].for = asked
    BY DEF Reply
  <2> QED
    BY <2>1, <2>2, <2>3, <2>4, LenProperties DEF Newest
<1> HIDE DEF reply
<1>3. /\ \A d \in Conn : net'[d].up = net[d].up /\ (d # c => net'[d].down = net[d].down)
      /\ net'[c].down \in {down, down \o reply}
  <2>1. /\ ServerSent(net[c], reply).up = net[c].up
        /\ ServerSent(net[c], reply).down \in {down, down \o reply}
    BY HeldTypes DEF Typed, ServerSent, Connection
  <2> QED
    BY <1>1, <2>1, HeldTypes DEF Typed, Nets
<1>4. \A d \in Conn : c < d => net[d].down = <<>>
  BY <1>1 DEF HeldInv, LifeInv, Succession, Life
<1>5. Sent' = Sent /\ Sent \in Int
  BY <1>1, HeldTypes DEF Sent, Taken, Typed
<1>6. /\ last <= Sent
      /\ \A d \in Conn : \A j \in 1 .. Len(net[d].up) : last < net[d].up[j]
  BY <1>2 DEF OrderInv, RequestOrder
<1>7. Past(last)
  BY <1>2, <1>6, HeldTypes DEF Past, Typed, Job
<1>8. \A r : Past(r) => r \in Job /\ r <= last
  BY <1>1 DEF Past
<1> HIDE DEF last
<1>9. \A r : Past(r) => Past(r)'
  BY <1>1, <1>3, <1>5 DEF Past
<1>10. RequestOrder'
  <2>1. \A i \in 1 .. Len(asked') : asked' = asked
    BY <1>1
  <2>2. \A d \in Conn : net'[d].up = net[d].up
    BY <1>3
  <2>3. \A d \in Conn : \A i \in 1 .. Len(net'[d].up) :
         /\ net'[d].up[i] <= Sent'
         /\ \A b \in Conn : \A j \in 1 .. Len(net'[b].up) :
              d < b \/ (d = b /\ i < j) => net'[d].up[i] < net'[b].up[j]
    BY <1>5, <2>2 DEF OrderInv, RequestOrder
  <2>4. \A i \in 1 .. Len(asked') :
         /\ asked'[i] <= Sent'
         /\ \A j \in 1 .. Len(asked') : i < j => asked'[i] < asked'[j]
         /\ \A d \in Conn : \A j \in 1 .. Len(net'[d].up) : asked'[i] < net'[d].up[j]
    BY <1>5, <2>1, <2>2 DEF OrderInv, RequestOrder
  <2> QED
    BY <2>3, <2>4 DEF RequestOrder
<1>11. \A d \in Conn : \A j \in 1 .. Len(net'[d].down) :
         \/ j \in 1 .. Len(net[d].down) /\ net'[d].down[j] = net[d].down[j]
         \/ d = c /\ j \in Int /\ j > Len(down) /\ Newest(net'[d].down[j]) = last
  <2>1. down \in Seq(Answer) /\ Len(down) \in Nat
    BY HeldTypes, LenProperties DEF Typed
  <2>2. /\ Len(down \o reply) = Len(down) + Len(reply)
        /\ \A j \in 1 .. Len(down) + Len(reply) :
             (down \o reply)[j] = IF j <= Len(down) THEN down[j] ELSE reply[j - Len(down)]
    BY <1>2, <2>1, ConcatProperties
  <2>3. ASSUME NEW j \in 1 .. Len(down \o reply), ~ j \in 1 .. Len(down)
        PROVE  j \in Int /\ j > Len(down) /\ Newest((down \o reply)[j]) = last
    <3>1. j > Len(down) /\ j - Len(down) \in 1 .. Len(reply)
      BY <1>2, <2>1, <2>2, <2>3
    <3>2. j \in 1 .. Len(down) + Len(reply)
      BY <2>2
    <3>3. (down \o reply)[j] = reply[j - Len(down)] /\ j \in Int
      BY <2>1, <2>2, <3>1, <3>2
    <3>4. \A i \in 1 .. Len(reply) : Newest(reply[i]) = last
      BY <1>2
    <3> QED
      BY <3>1, <3>3, <3>4, Zenon
  <2>4. \A j \in 1 .. Len(down) : j \in 1 .. Len(down \o reply) => (down \o reply)[j] = down[j]
    BY <1>2, <2>1, <2>2
  <2> QED
    BY <1>3, <2>3, <2>4
<1>12. Len(down) \in Nat
  BY HeldTypes, LenProperties DEF Typed
<1>13. ASSUME NEW d \in Conn, NEW i \in 1 .. Len(net'[d].down)
       PROVE  /\ Past(Newest(net'[d].down[i]))
              /\ \A b \in Conn : \A j \in 1 .. Len(net'[b].down) :
                   d < b \/ (d = b /\ i < j) =>
                     Newest(net'[d].down[i]) <= Newest(net'[b].down[j])
  <2>1. CASE i \in 1 .. Len(net[d].down) /\ net'[d].down[i] = net[d].down[i]
    <3>1. Past(Newest(net'[d].down[i])) /\ Newest(net'[d].down[i]) <= last
      BY <1>8, <2>1 DEF OrderInv, AnswerOrder
    <3>2. ASSUME NEW b \in Conn, NEW j \in 1 .. Len(net'[b].down), d < b \/ (d = b /\ i < j)
          PROVE  Newest(net'[d].down[i]) <= Newest(net'[b].down[j])
      <4>1. CASE j \in 1 .. Len(net[b].down) /\ net'[b].down[j] = net[b].down[j]
        BY <2>1, <3>2, <4>1 DEF OrderInv, AnswerOrder
      <4>2. CASE Newest(net'[b].down[j]) = last
        BY <3>1, <4>2
      <4> QED
        BY <1>11, <4>1, <4>2
    <3> QED
      BY <3>1, <3>2
  <2>2. CASE d = c /\ i \in Int /\ i > Len(down) /\ Newest(net'[d].down[i]) = last
    <3>1. ASSUME NEW b \in Conn, NEW j \in 1 .. Len(net'[b].down), d < b \/ (d = b /\ i < j)
          PROVE  Newest(net'[d].down[i]) <= Newest(net'[b].down[j])
      <4>1. CASE Newest(net'[b].down[j]) = last
        BY <1>2, <2>2, <4>1 DEF Job
      <4>2. CASE j \in 1 .. Len(net[b].down)
        <5>1. net[b].down # <<>>
          BY <4>2, EmptySeq
        <5>2. b = d /\ i < j
          BY <1>4, <2>2, <3>1, <5>1
        <5> QED
          BY <1>12, <2>2, <4>2, <5>2
      <4> QED
        BY <1>11, <4>1, <4>2
    <3> QED
      BY <1>7, <2>2, <3>1
  <2> QED
    BY <1>11, <2>1, <2>2
<1>14. AnswerOrder'
  BY <1>9, <1>13 DEF AnswerOrder
<1>15. ShownOrder'
  <2>1. ASSUME NEW i \in 1 .. Len(shown), NEW a \in 1 .. Len(shown[i].got)
        PROVE  /\ Past(Newest(shown[i].got[a]))
               /\ \A d \in Conn : \A j \in 1 .. Len(net'[d].down) :
                    Newest(shown[i].got[a]) <= Newest(net'[d].down[j])
    <3>1. Past(Newest(shown[i].got[a])) /\ Newest(shown[i].got[a]) <= last
      BY <1>8 DEF OrderInv, ShownOrder
    <3>2. ASSUME NEW d \in Conn, NEW j \in 1 .. Len(net'[d].down)
          PROVE  Newest(shown[i].got[a]) <= Newest(net'[d].down[j])
      <4>1. CASE j \in 1 .. Len(net[d].down) /\ net'[d].down[j] = net[d].down[j]
        BY <4>1 DEF OrderInv, ShownOrder
      <4>2. CASE Newest(net'[d].down[j]) = last
        BY <3>1, <4>2
      <4> QED
        BY <1>11, <4>1, <4>2
    <3> QED
      BY <3>1, <3>2
  <2>2. ASSUME NEW i \in 1 .. Len(shown), NEW a \in 1 .. Len(shown[i].got)
        PROVE  /\ Past(Newest(shown[i].got[a]))' /\ Newest(shown[i].got[a]) <= shown[i].job
               /\ \A j \in i + 1 .. Len(shown) : \A b \in 1 .. Len(shown[j].got) :
                    Newest(shown[i].got[a]) <= Newest(shown[j].got[b])
    BY <1>1, <1>9, <2>1 DEF OrderInv, ShownOrder
  <2> QED
    BY <1>1, <2>1, <2>2 DEF ShownOrder
<1> QED
  BY <1>10, <1>14, <1>15 DEF OrderInv

\* The steps of the client.
LEMMA OrderOfClient ==
  ASSUME HeldInv, OrderInv, HeldInv', ClientStep
  PROVE  OrderInv'
<1>1. /\ net \in Nets /\ net' \in Nets /\ \A c \in Conn : net[c] \in Connection(Job, Answer)
  BY HeldTypes, HeldTypesNext DEF Typed
<1>2. Sent \in Int /\ Taken \in Int /\ Taken' \in Int
  BY HeldTypes, HeldTypesNext DEF Typed
<1>3. ASSUME UNCHANGED <<asked, shown>>, Sent <= Sent',
             \A c \in Conn : net'[c].up \in {net[c].up, <<>>}
                             /\ net'[c].down \in {net[c].down, <<>>}
      PROVE  OrderInv'
  BY <1>3, OrderKept
<1>4. ASSUME Taken' = Taken,
             worker' \in {"took", "send"} => worker \in {"took", "send"}
      PROVE  Sent <= Sent'
  BY <1>2, <1>4 DEF Sent
<1>5. \A c \in Conn : NetAfterClose(clientSocket)[c].up = net[c].up
                      /\ NetAfterClose(clientSocket)[c].down \in {net[c].down, <<>>}
  BY <1>1, CloseHere, Ends
<1>6. CASE GuiStep \/ UserStep
  <2>1. UNCHANGED <<asked, shown>>
    BY <1>6 DEF GuiStep, UserStep, StartSocket, StartSocketFails, StartConnect, SocketSend,
       SocketSendNotify, TestSocketClose, TestSocketNew, TestSocketFails, TestSocketConnect,
       StopClearFlag, StopNotify, StopJoin, StopClose, GuiSame, peerVars, askVars
  <2>2. worker' \in {"took", "send"} <=> worker \in {"took", "send"}
    <3>1. gui \in {"startSocket", "startConnect"} => worker = "unborn"
      BY DEF HeldInv, HoldInv
    <3> QED
      BY <1>6, <3>1 DEF GuiStep, UserStep, StartSocket, StartSocketFails, StartConnect, SocketSend,
         SocketSendNotify, TestSocketClose, TestSocketNew, TestSocketFails, TestSocketConnect,
         StopClearFlag, StopNotify, StopJoin, StopClose, Woken
  <2>3. Taken' = Taken
    <3>1. CASE SocketSend
      <4>1. queue \in Seq(Job) /\ submitted \in Nat /\ submitted' = submitted + 1
            /\ queue' = Append(queue, submitted') /\ queue' \in Seq(Job)
        BY <3>1 DEF SocketSend, HeldInv, TypeInv, QueueInv
      <4>2. Len(queue') = Len(queue) + 1 /\ Len(queue) \in Nat
        BY <4>1, LenProperties
      <4> QED
        BY <4>1, <4>2 DEF Taken
    <3>2. CASE ~SocketSend
      BY <1>6, <3>2 DEF GuiStep, UserStep, StartSocket, StartSocketFails, StartConnect,
         SocketSendNotify, TestSocketClose, TestSocketNew, TestSocketFails, TestSocketConnect,
         StopClearFlag, StopNotify, StopJoin, StopClose, GuiSame, Taken
    <3> QED
      BY <3>1, <3>2
  <2>4. \A c \in Conn : net'[c].up \in {net[c].up, <<>>} /\ net'[c].down \in {net[c].down, <<>>}
    <3>1. CASE NewSocket
      <4>1. net' = [net EXCEPT ![Here'] = [Unused EXCEPT !.client = "new"]]
        BY <3>1, NewHere
      <4> QED
        BY <1>1, <4>1 DEF Unused, Nets
    <3>2. CASE ConnectSocket
      BY <1>1, <1>5, <3>2, Ends DEF ConnectSocket, Nets
    <3>3. CASE UNCHANGED net \/ net' = NetAfterClose(clientSocket)
      BY <1>5, <3>3
    <3> QED
      BY <1>6, <3>1, <3>2, <3>3 DEF GuiStep, UserStep, StartSocket, StartSocketFails, StartConnect,
         SocketSend, SocketSendNotify, TestSocketClose, TestSocketNew, TestSocketFails,
         TestSocketConnect, StopClearFlag, StopNotify, StopJoin, StopClose
  <2>5. Sent <= Sent'
    BY <1>4, <2>2, <2>3
  <2> QED
    BY <1>3, <2>1, <2>4, <2>5
<1>7. CASE WorkerLoop \/ WorkerEmpty \/ WorkerSleep \/ WorkerSpurious \/ WorkerBreak
           \/ WorkerCall \/ WorkerSendError \/ WorkerRecv
  <2>1. /\ UNCHANGED <<asked, shown, net, queue, submitted>>
        /\ worker' \in {"took", "send"} => worker \in {"took", "send"}
    BY <1>7 DEF WorkerLoop, WorkerEmpty, WorkerSleep, WorkerSpurious, WorkerBreak, WorkerCall,
       WorkerSendError, WorkerRecv, WorkerSame, peerVars, askVars
  <2>2. Sent <= Sent'
    BY <1>4, <2>1 DEF Taken
  <2> QED
    BY <1>3, <2>1, <2>2
<1>8. CASE WorkerTake
  <2>1. /\ UNCHANGED <<asked, shown, net>> /\ worker = "lock" /\ worker' = "took"
        /\ queue # <<>> /\ queue' = Tail(queue) /\ submitted' = submitted
        /\ queue \in Seq(Job) /\ submitted \in Nat
    BY <1>8 DEF WorkerTake, WorkerSame, peerVars, askVars, HeldInv, TypeInv, QueueInv
  <2>2. Len(queue') = Len(queue) - 1 /\ Len(queue) \in Nat
    BY <2>1, LenProperties, HeadTailProperties
  <2>3. Sent' = Sent
    BY <2>1, <2>2 DEF Sent, Taken
  <2> QED
    BY <1>2, <1>3, <2>1, <2>3
<1>9. CASE WorkerSigpipe
  <2>1. UNCHANGED <<asked, shown, queue, submitted>> /\ worker = "send" /\ worker' = "killed"
    BY <1>9 DEF WorkerSigpipe, peerVars, askVars
  <2>2. \A c \in Conn : net'[c].up = net[c].up /\ net'[c].down \in {net[c].down, <<>>}
    BY <1>1, <1>9, Ends DEF WorkerSigpipe
  <2>3. Sent <= Sent'
    BY <1>4, <2>1 DEF Taken
  <2> QED
    BY <1>3, <2>1, <2>2, <2>3
<1>10. CASE WorkerRecvError
  <2>1. /\ UNCHANGED <<asked, shown, queue, submitted>> /\ worker = "receiving" /\ worker' = "loop"
        /\ net' = [net EXCEPT ![rconn] = Returned(net[rconn])] /\ rconn \in Conn
    BY <1>10 DEF WorkerRecvError, WorkerSame, peerVars, askVars, HeldInv, HoldInv
  <2>2. Returned(net[rconn]).up = net[rconn].up
        /\ Returned(net[rconn]).down \in {net[rconn].down, <<>>}
    BY <1>1, <2>1, Ends DEF Returned
  <2>3. \A c \in Conn : net'[c].up = net[c].up /\ net'[c].down \in {net[c].down, <<>>}
    BY <1>1, <2>1, <2>2 DEF Nets
  <2>4. Sent <= Sent'
    BY <1>4, <2>1 DEF Taken
  <2> QED
    BY <1>3, <2>1, <2>3, <2>4
<1> QED
  BY <1>6, <1>7, <1>8, <1>9, <1>10, OrderOfSend, OrderOfReceive, OrderOfEof
  DEF ClientStep, WorkerStep

\* The steps of the peer.
LEMMA OrderOfPeer ==
  ASSUME HeldInv, OrderInv, HeldInv', PeerStep
  PROVE  OrderInv'
<1>1. \A c \in Conn : net[c] \in Connection(Job, Answer)
  BY HeldTypes DEF Typed
<1>2. UNCHANGED <<shown, queue, submitted, worker>>
  <2>1. PeerSame
    BY Zenon DEF PeerStep, PeerAccept, PeerRecv, PeerAnswer, PeerRepeat, PeerSends, PeerDone,
       PeerClose, PeerCrash, PeerRestart
  <2> QED
    BY <2>1 DEF PeerSame, threadVars
<1>3. Sent <= Sent'
  <2>1. Sent' = Sent /\ Sent \in Int
    BY <1>2, HeldTypes DEF Sent, Taken, Typed
  <2> QED
    BY <2>1
<1>4. ASSUME asked' \in {asked, <<>>},
             \A c \in Conn : net'[c].up \in {net[c].up, <<>>} /\ net'[c].down = net[c].down
      PROVE  OrderInv'
  BY <1>2, <1>3, <1>4, OrderKept
<1>5. ASSUME NEW c \in Conn, PeerAccept(c) PROVE OrderInv'
  <2>1. \A d \in Conn : net'[d].up = net[d].up /\ net'[d].down = net[d].down
    BY <1>1, <1>5 DEF PeerAccept, HeldInv, TypeInv, TypeOK, Connection
  <2> QED
    BY <1>4, <1>5, <2>1 DEF PeerAccept, peerVars, askVars
<1>6. ASSUME NEW c \in Conn, PeerClose(c) PROVE OrderInv'
  <2>1. \A d \in Conn : net'[d].up \in {net[d].up, <<>>} /\ net'[d].down = net[d].down
    BY <1>1, <1>6, Ends DEF PeerClose, HeldInv, TypeInv, TypeOK
  <2> QED
    BY <1>4, <1>6, <2>1 DEF PeerClose
<1>7. CASE PeerCrash
  <2>1. \A d \in Conn : net'[d].up \in {net[d].up, <<>>} /\ net'[d].down = net[d].down
    BY <1>1, <1>7, Ends DEF PeerCrash
  <2> QED
    BY <1>4, <1>7, <2>1 DEF PeerCrash
<1>8. CASE PeerDone \/ PeerRestart
  BY <1>4, <1>8 DEF PeerDone, PeerRestart, askVars
<1> QED
  BY <1>5, <1>6, <1>7, <1>8, OrderOfRecv, OrderOfAnswer DEF PeerStep, PeerAnswer, PeerRepeat

\* Nothing travels at the start.
LEMMA OrderInit == Init => OrderInv
<1> SUFFICES ASSUME Init PROVE OrderInv
  OBVIOUS
<1>1. \A c \in Conn : net[c].up = <<>> /\ net[c].down = <<>>
  BY DEF Init, Unused
<1>2. asked = <<>> /\ shown = <<>> /\ Len(<<>>) = 0
  BY DEF Init
<1> QED
  BY <1>1, <1>2 DEF OrderInv, RequestOrder, AnswerOrder, ShownOrder

\* Every step keeps the order.
LEMMA OrderStep == HeldInv /\ HeldInv' /\ OrderInv /\ [Next]_vars => OrderInv'
<1> SUFFICES ASSUME HeldInv, HeldInv', OrderInv, [Next]_vars PROVE OrderInv'
  OBVIOUS
<1>1. CASE UNCHANGED vars
  <2>1. /\ UNCHANGED <<net, asked, shown>> /\ Sent' = Sent
    BY <1>1 DEF vars, threadVars, peerVars, askVars, Sent, Taken
  <2>2. Sent <= Sent'
    BY <2>1, HeldTypes DEF Typed
  <2> QED
    BY <2>1, <2>2, OrderKept
<1> QED
  BY <1>1, OrderOfClient, OrderOfPeer DEF Next

\* It holds.
LEMMA Order == Spec => []OrderInv
BY OrderInit, OrderStep, Held, PTL DEF Spec

\* Whatever was lost, delayed, repeated or left in a buffer, through however many
\* connections and lives of the peer: what is shown for a job is never the answer to a
\* later one, and no answer is shown after the answer to a later job.
THEOREM AnswersInOrder == Spec => []ShownInOrder
<1>1. HeldInv /\ OrderInv => ShownInOrder
  <2> SUFFICES ASSUME HeldInv, OrderInv PROVE ShownInOrder
    OBVIOUS
  <2>1. DOMAIN shown = 1 .. Len(shown) /\ Len(shown) \in Nat
    BY HeldTypes, LenProperties DEF Typed
  <2>2. \A i \in 1 .. Len(shown) : DOMAIN shown[i].got = 1 .. Len(shown[i].got)
    BY HeldTypes, LenProperties DEF Typed
  <2>3. \A i \in 1 .. Len(shown) : i + 1 .. Len(shown) \subseteq 1 .. Len(shown)
    BY <2>1
  <2> QED
    BY <2>1, <2>2, <2>3 DEF OrderInv, ShownOrder, ShownInOrder
<1> QED
  BY <1>1, Held, Order, PTL

-----------------------------------------------------------------------------
(* What a step of the client does with the connections, for those who share them *)

Sends == worker = "send" /\ worker' = "sent"

\* socket(), connect(), close(), send() and recv(), and what holds when they are called.
Makes(c)    == net[c] = Unused /\ net' = [net EXCEPT ![c] = [Unused EXCEPT !.client = "new"]]
Connects(c) == /\ serverUp /\ net[c].client = "new" /\ \A d \in Conn : c < d => net[d] = Unused
               /\ net' = [net EXCEPT ![c] = Connected(net[c])]
Drops(c)    == net[c].client \in {"new", "open"} /\ net' = [net EXCEPT ![c] = ClientClosed(net[c])]
SendsOn(c)  == /\ net[c].client = "open" /\ c = Behind(jobFd) /\ job \in Job /\ job = Taken
               /\ net' = [net EXCEPT ![c] = ClientSent(net[c], job)]
Reads(c)    == /\ net[c].client = "open"
               /\ \E n \in 1 .. Len(net[c].down) :
                    \/ net' = [net EXCEPT ![c] = Rest(net[c], n)]
                    \/ net' = [net EXCEPT ![c] = ClientClosed(Rest(net[c], n))]

OneOperation ==
  \/ ~Sends /\ net' = net
  \/ ~Sends /\ \E c \in Conn : Makes(c) \/ Connects(c) \/ Drops(c) \/ Reads(c)
  \/ Sends /\ \E c \in Conn : SendsOn(c)

\* A step of the client is one of these, and none of them is the peer's.
LEMMA ClientOnNet ==
  ASSUME HeldInv, ClientStep
  PROVE  OneOperation /\ UNCHANGED peerVars
<1>1. /\ net \in Nets /\ \A c \in Conn : net[c] \in Connection(Job, Answer)
      /\ DOMAIN net = Conn
  BY HeldTypes DEF Typed, Nets
<1>2. ASSUME net' = NetAfterClose(clientSocket), ~Sends
      PROVE  OneOperation
  <2>1. CASE net' = net
    BY <1>2, <2>1 DEF OneOperation
  <2>2. CASE net' # net
    <3>1. Here \in Conn /\ net' = [net EXCEPT ![Here] = ClientClosed(net[Here])]
      BY <1>2, <2>2 DEF NetAfterClose, Here, Behind, HeldInv, TypeInv, TypeOK
    <3>2. net[Here].client \in {"new", "open"}
      BY <3>1 DEF HeldInv, HoldInv
    <3> QED
      BY <1>2, <3>1, <3>2 DEF OneOperation, Drops
  <2> QED
    BY <2>1, <2>2
<1>3. ASSUME NewSocket, ~Sends PROVE OneOperation
  BY <1>3, NewHere DEF OneOperation, Makes
<1>4. ASSUME ConnectSocket, ~Sends, gui \in {"startConnect", "testConnect"} PROVE OneOperation
  <2>1. CASE serverUp /\ net' = [net EXCEPT ![Here] = Connected(net[Here])]
    <3>1. Here \in Conn /\ net[Here].client = "new" /\ \A d \in Conn : Here < d => net[d] = Unused
      BY <1>4 DEF HeldInv, HoldInv
    <3> QED
      BY <1>4, <2>1, <3>1 DEF OneOperation, Connects
  <2> QED
    BY <1>2, <1>4, <2>1 DEF ConnectSocket, Here
<1>5. CASE GuiStep \/ UserStep
  <2>1. UNCHANGED peerVars
    BY <1>5 DEF GuiStep, UserStep, StartSocket, StartSocketFails, StartConnect, SocketSend,
       SocketSendNotify, TestSocketClose, TestSocketNew, TestSocketFails, TestSocketConnect,
       StopClearFlag, StopNotify, StopJoin, StopClose, GuiSame
  <2>2. ~Sends
    BY <1>5 DEF GuiStep, UserStep, StartSocket, StartSocketFails, StartConnect, SocketSend,
       SocketSendNotify, TestSocketClose, TestSocketNew, TestSocketFails, TestSocketConnect,
       StopClearFlag, StopNotify, StopJoin, StopClose, Woken, Sends
  <2>3. CASE NewSocket
    BY <1>3, <2>1, <2>2, <2>3
  <2>4. CASE ConnectSocket /\ gui \in {"startConnect", "testConnect"}
    BY <1>4, <2>1, <2>2, <2>4
  <2>5. CASE net' = NetAfterClose(clientSocket)
    BY <1>2, <2>1, <2>2, <2>5
  <2>6. CASE net' = net
    BY <2>1, <2>2, <2>6 DEF OneOperation
  <2> QED
    BY <1>5, <2>1, <2>3, <2>4, <2>5, <2>6 DEF GuiStep, UserStep, StartSocket, StartSocketFails,
       StartConnect, SocketSend, SocketSendNotify, TestSocketClose, TestSocketNew, TestSocketFails,
       TestSocketConnect, StopClearFlag, StopNotify, StopJoin, StopClose
<1>6. CASE WorkerLoop \/ WorkerEmpty \/ WorkerSleep \/ WorkerSpurious \/ WorkerBreak \/ WorkerTake
           \/ WorkerCall \/ WorkerSendError \/ WorkerRecv
  BY <1>6 DEF WorkerLoop, WorkerEmpty, WorkerSleep, WorkerSpurious, WorkerBreak, WorkerTake,
     WorkerCall, WorkerSendError, WorkerRecv, WorkerSame, OneOperation, Sends
<1>7. CASE WorkerSend
  <2>1. /\ Sends /\ Executing /\ UNCHANGED peerVars
        /\ Behind(jobFd) \in Conn /\ net[Behind(jobFd)].client = "open"
        /\ net' = [net EXCEPT ![Behind(jobFd)] = ClientSent(net[Behind(jobFd)], job)]
    BY <1>7 DEF WorkerSend, WorkerSame, Sends, Executing, Behind, HeldInv, TypeInv, TypeOK
  <2>2. job \in Job /\ job = Taken
    BY <2>1, HeldTypes DEF Typed
  <2> QED
    BY <2>1, <2>2 DEF OneOperation, SendsOn
<1>8. CASE WorkerSigpipe
  <2>1. ~Sends /\ UNCHANGED peerVars /\ worker = "send" /\ DOMAIN net' = Conn
        /\ \A d \in Conn : net'[d] = IF net[d].client \in {"new", "open"}
                                     THEN ClientClosed(net[d]) ELSE net[d]
    BY <1>8 DEF WorkerSigpipe, Sends
  <2>2. net' = [d \in Conn |-> IF net[d].client \in {"new", "open"}
                               THEN ClientClosed(net[d]) ELSE net[d]]
    BY <1>8 DEF WorkerSigpipe
  <2>3. CASE Here \in Conn
    <3>1. net[Here].client \in {"new", "open"}
      BY <2>3 DEF HeldInv, HoldInv
    <3>2. \A d \in Conn : d # Here => net[d].client \notin {"new", "open"}
      BY <2>1 DEF HeldInv, HoldInv
    <3>3. net' = [net EXCEPT ![Here] = ClientClosed(net[Here])]
      BY <1>1, <2>2, <2>3, <3>1, <3>2
    <3> QED
      BY <2>1, <2>3, <3>1, <3>3 DEF OneOperation, Drops
  <2>4. CASE Here \notin Conn
    <3>1. \A d \in Conn : net[d].client \notin {"new", "open"}
      BY <2>1, <2>4 DEF HeldInv, HoldInv
    <3>2. net' = net
      BY <1>1, <2>2, <3>1, Zenon DEF Nets
    <3> QED
      BY <2>1, <3>2 DEF OneOperation
  <2> QED
    BY <2>3, <2>4
<1>9. CASE WorkerReceive \/ WorkerEof \/ WorkerRecvError
  <2>1. /\ rconn \in Conn /\ net[rconn].client = "open" /\ ~Sends /\ UNCHANGED peerVars
    BY <1>9 DEF WorkerReceive, WorkerEof, WorkerRecvError, HeldInv, HoldInv, WorkerSame, Sends
  <2>2. CASE WorkerReceive
    <3>1. PICK n \in 1 .. Len(net[rconn].down) :
            net' = [net EXCEPT ![rconn] = Returned(Rest(net[rconn], n))]
      BY <2>2 DEF WorkerReceive
    <3>2. Reads(rconn)
      BY <2>1, <3>1 DEF Reads, Returned
    <3> QED
      BY <2>1, <3>2 DEF OneOperation
  <2>3. CASE WorkerEof \/ WorkerRecvError
    <3>1. net' = [net EXCEPT ![rconn] = Returned(net[rconn])]
      BY <2>3 DEF WorkerEof, WorkerRecvError
    <3>2. net' = net \/ Drops(rconn)
      <4>1. CASE Returned(net[rconn]) = net[rconn]
        BY <1>1, <3>1, <4>1, Zenon DEF Nets
      <4>2. CASE Returned(net[rconn]) = ClientClosed(net[rconn])
        BY <2>1, <3>1, <4>2 DEF Drops
      <4> QED
        BY <4>1, <4>2 DEF Returned
    <3> QED
      BY <2>1, <3>2 DEF OneOperation
  <2> QED
    BY <1>9, <2>1, <2>2, <2>3
<1> QED
  BY <1>5, <1>6, <1>7, <1>8, <1>9 DEF ClientStep, WorkerStep

\* Once sent, always sent; and a job is sent after all the earlier ones.
LEMMA SentRises ==
  ASSUME HeldInv, HeldInv', ClientStep
  PROVE  Sent <= Sent' /\ (Sends => Sent < job /\ Sent' = job)
<1>1. Sent \in Int /\ Taken \in Int /\ Sent' \in Int /\ Taken' \in Int
  BY HeldTypes, HeldTypesNext DEF Typed
<1>2. ASSUME Taken' = Taken, worker' \in {"took", "send"} => worker \in {"took", "send"}, ~Sends
      PROVE  Sent <= Sent' /\ (Sends => Sent < job /\ Sent' = job)
  BY <1>1, <1>2 DEF Sent
<1>3. CASE GuiStep \/ UserStep
  <2>1. worker' \in {"took", "send"} <=> worker \in {"took", "send"}
    <3>1. gui \in {"startSocket", "startConnect"} => worker = "unborn"
      BY DEF HeldInv, HoldInv
    <3> QED
      BY <1>3, <3>1 DEF GuiStep, UserStep, StartSocket, StartSocketFails, StartConnect, SocketSend,
         SocketSendNotify, TestSocketClose, TestSocketNew, TestSocketFails, TestSocketConnect,
         StopClearFlag, StopNotify, StopJoin, StopClose, Woken
  <2>2. ~Sends
    BY <1>3 DEF GuiStep, UserStep, StartSocket, StartSocketFails, StartConnect, SocketSend,
       SocketSendNotify, TestSocketClose, TestSocketNew, TestSocketFails, TestSocketConnect,
       StopClearFlag, StopNotify, StopJoin, StopClose, Woken, Sends
  <2>3. Taken' = Taken
    <3>1. CASE SocketSend
      <4>1. queue \in Seq(Job) /\ submitted \in Nat /\ submitted' = submitted + 1
            /\ queue' = Append(queue, submitted') /\ queue' \in Seq(Job)
        BY <3>1 DEF SocketSend, HeldInv, TypeInv, QueueInv
      <4>2. Len(queue') = Len(queue) + 1 /\ Len(queue) \in Nat
        BY <4>1, LenProperties
      <4> QED
        BY <4>1, <4>2 DEF Taken
    <3>2. CASE ~SocketSend
      BY <1>3, <3>2 DEF GuiStep, UserStep, StartSocket, StartSocketFails, StartConnect,
         SocketSendNotify, TestSocketClose, TestSocketNew, TestSocketFails, TestSocketConnect,
         StopClearFlag, StopNotify, StopJoin, StopClose, GuiSame, Taken
    <3> QED
      BY <3>1, <3>2
  <2> QED
    BY <1>2, <2>1, <2>2, <2>3
<1>4. CASE WorkerLoop \/ WorkerEmpty \/ WorkerSleep \/ WorkerSpurious \/ WorkerBreak \/ WorkerCall
           \/ WorkerSendError \/ WorkerRecv \/ WorkerReceive \/ WorkerEof \/ WorkerRecvError
           \/ WorkerSigpipe
  <2>1. /\ UNCHANGED <<queue, submitted>> /\ ~Sends
        /\ worker' \in {"took", "send"} => worker \in {"took", "send"}
    BY <1>4 DEF WorkerLoop, WorkerEmpty, WorkerSleep, WorkerSpurious, WorkerBreak, WorkerCall,
       WorkerSendError, WorkerRecv, WorkerReceive, WorkerEof, WorkerRecvError, WorkerSigpipe,
       WorkerSame, Sends
  <2> QED
    BY <1>2, <2>1 DEF Taken
<1>5. CASE WorkerTake
  <2>1. /\ worker = "lock" /\ worker' = "took" /\ ~Sends
        /\ queue # <<>> /\ queue' = Tail(queue) /\ submitted' = submitted
        /\ queue \in Seq(Job) /\ submitted \in Nat
    BY <1>5 DEF WorkerTake, WorkerSame, HeldInv, TypeInv, QueueInv, Sends
  <2>2. Len(queue') = Len(queue) - 1 /\ Len(queue) \in Nat
    BY <2>1, LenProperties, HeadTailProperties
  <2>3. Sent' = Sent
    BY <2>1, <2>2 DEF Sent, Taken
  <2> QED
    BY <1>1, <2>1, <2>3
<1>6. CASE WorkerSend
  <2>1. worker = "send" /\ worker' = "sent" /\ Executing /\ UNCHANGED <<queue, submitted>>
    BY <1>6 DEF WorkerSend, WorkerSame, Executing
  <2>2. job = Taken /\ Taken' = Taken
    BY <2>1, HeldTypes DEF Typed, Taken
  <2> QED
    BY <1>1, <2>1, <2>2 DEF Sent
<1> QED
  BY <1>3, <1>4, <1>5, <1>6 DEF ClientStep, WorkerStep

-----------------------------------------------------------------------------
(* While it is calm: one request at a time *)

\* Nothing was lost on a connection, and the peer keeps it open.
Sound(k) ==
  /\ ~k.clientRst
  /\ k.client = "open" => k.server \in {"backlog", "open"} /\ ~k.serverRst

\* The job's request travels, or the peer works on it, or its answer travels.
OneRequest ==
  /\ Here \in Conn /\ net[Here].client = "open" /\ (worker = "receiving" => rconn = Here)
  /\ net[Here].down \in {<<>>, Reply(<<job>>)}
  /\ \A c \in Conn : net[c].up # <<>> =>
       c = Here /\ net[c].up = <<job>> /\ net[c].down = <<>>
  /\ asked # <<>> /\ ~replied =>
       asked = <<job>> /\ net[Here].down = <<>> /\ \A c \in Conn : net[c].up = <<>>

\* Nothing travels, and the peer has answered what it works on.
NoRequest ==
  /\ \A c \in Conn : net[c].up = <<>> /\ net[c].down = <<>>
  /\ asked # <<>> => replied

Waits == worker \in {"sent", "receiving"}

Undisturbed ==
  /\ gui \notin {"testSocket", "testConnect"}
  /\ \A c \in Conn : Sound(net[c])
  /\ Len(asked) <= 1
  /\ Waits => OneRequest
  /\ ~Waits => NoRequest

\* After the worker was joined it is not back.
JoinInv == gui \in {"close", "stopped"} => worker = "done"

CalmInv == (calm => Undisturbed) /\ PairedWhileCalm

\* stop() goes on only when the worker has ended.
LEMMA Joined == Spec => []JoinInv
<1>1. Init => JoinInv
  BY DEF Init, JoinInv
<1>2. HeldInv /\ JoinInv /\ [Next]_vars => JoinInv'
  <2> SUFFICES ASSUME HeldInv, JoinInv, [Next]_vars PROVE JoinInv'
    OBVIOUS
  <2> USE DEF JoinInv
  <2>1. CASE GuiStep \/ UserStep
    BY <2>1 DEF GuiStep, UserStep, StartSocket, StartSocketFails, StartConnect, SocketSend,
       SocketSendNotify, TestSocketClose, TestSocketNew, TestSocketFails, TestSocketConnect,
       StopClearFlag, StopNotify, StopJoin, StopClose
  <2>2. CASE WorkerStep \/ WorkerSpurious
    BY <2>2 DEF WorkerStep, WorkerLoop, WorkerEmpty, WorkerSleep, WorkerSpurious, WorkerBreak,
       WorkerTake, WorkerCall, WorkerSend, WorkerSendError, WorkerSigpipe, WorkerRecv,
       WorkerReceive, WorkerEof, WorkerRecvError, WorkerSame
  <2>3. CASE PeerStep
    <3>1. PeerSame
      BY <2>3, Zenon DEF PeerStep, PeerAccept, PeerRecv, PeerAnswer, PeerRepeat, PeerSends,
         PeerDone, PeerClose, PeerCrash, PeerRestart
    <3> QED
      BY <3>1 DEF PeerSame, threadVars
  <2>4. CASE UNCHANGED vars
    BY <2>4 DEF vars, threadVars
  <2> QED
    BY <2>1, <2>2, <2>3, <2>4 DEF Next, ClientStep
<1> QED
  BY <1>1, <1>2, Held, PTL DEF Spec

\* While it is calm and the worker waits, only Here can carry anything.
LEMMA OnlyHere ==
  ASSUME HeldInv, OneRequest
  PROVE  \A c \in Conn : c # Here => net[c].client # "open" /\ net[c].down = <<>>
                                     /\ net[c].up = <<>>
<1>1. \A c \in Conn : c # Here => net[c].client # "open"
  BY DEF HeldInv, HoldInv, OneRequest
<1>2. \A c \in Conn : net[c].down # <<>> => net[c].client = "open"
  BY DEF HeldInv, LifeInv, Life
<1> QED
  BY <1>1, <1>2 DEF OneRequest

\* The answer that fits into one buffer, and the one that does not.
LEMMA ReplyIs ==
  ASSUME NEW n \in Job
  PROVE  \/ Reply(<<n>>) = << [for |-> <<n>>, more |-> FALSE] >>
         \/ Reply(<<n>>) = << [for |-> <<n>>, more |-> TRUE], [for |-> <<n>>, more |-> FALSE] >>
BY DEF Reply

\* What disturbed the exchange stays disturbed.
LEMMA CalmFalls == [Next]_vars /\ calm' => calm
<1> SUFFICES ASSUME [Next]_vars, calm' PROVE calm
  OBVIOUS
<1>1. CASE GuiStep \/ UserStep
  BY <1>1 DEF GuiStep, UserStep, StartSocket, StartSocketFails, StartConnect, SocketSend,
     SocketSendNotify, TestSocketClose, TestSocketNew, TestSocketFails, TestSocketConnect,
     StopClearFlag, StopNotify, StopJoin, StopClose, GuiSame, peerVars, askVars
<1>2. CASE WorkerStep \/ WorkerSpurious
  BY <1>2, Zenon DEF WorkerStep, WorkerLoop, WorkerEmpty, WorkerSleep, WorkerSpurious, WorkerBreak,
     WorkerTake, WorkerCall, WorkerSend, WorkerSendError, WorkerSigpipe, WorkerRecv, WorkerReceive,
     WorkerEof, WorkerRecvError, WorkerSame, peerVars, askVars
<1>3. CASE PeerStep
  BY <1>3, Zenon DEF PeerStep, PeerAccept, PeerRecv, PeerAnswer, PeerRepeat, PeerSends, PeerDone,
     PeerClose, PeerCrash, PeerRestart, PeerSame, askVars
<1>4. CASE UNCHANGED vars
  BY <1>4 DEF vars, peerVars, askVars
<1> QED
  BY <1>1, <1>2, <1>3, <1>4 DEF Next, ClientStep

\* The GTK thread: a check of the connection ends the calm, anything else leaves what
\* travels alone.
LEMMA CalmOfGui ==
  ASSUME HeldInv, JoinInv, CalmInv, HeldInv', GuiStep \/ UserStep
  PROVE  CalmInv'
<1>1. /\ net \in Nets /\ \A c \in Conn : net[c] \in Connection(Job, Answer)
      /\ asked \in Seq(Job)
  BY HeldTypes DEF Typed
<1>2. UNCHANGED <<asked, replied, shown, job, rconn>> /\ (calm' => calm)
  BY DEF GuiStep, UserStep, StartSocket, StartSocketFails, StartConnect, SocketSend,
     SocketSendNotify, TestSocketClose, TestSocketNew, TestSocketFails, TestSocketConnect,
     StopClearFlag, StopNotify, StopJoin, StopClose, GuiSame, peerVars, askVars
<1>3. PairedWhileCalm'
  BY <1>2 DEF CalmInv, PairedWhileCalm
<1>4. SUFFICES ASSUME calm' PROVE Undisturbed'
  BY <1>3 DEF CalmInv
<1>5. calm /\ Undisturbed
  BY <1>2, <1>4 DEF CalmInv
<1>6. /\ \/ SocketSend \/ SocketSendNotify \/ StopClearFlag \/ StopNotify \/ StopJoin
         \/ StartSocketFails \/ StartSocket \/ StartConnect \/ StopClose
      /\ gui' \notin {"testSocket", "testConnect"}
  BY <1>4, <1>5 DEF GuiStep, UserStep, TestSocketClose, TestSocketNew, TestSocketFails,
     TestSocketConnect, StartSocket, StartSocketFails, StartConnect, SocketSend,
     SocketSendNotify, StopClearFlag, StopNotify, StopJoin, StopClose, Undisturbed
<1>7. (worker \in {"sent", "receiving"} <=> worker' \in {"sent", "receiving"})
      /\ (worker' = "receiving" => worker = "receiving")
  <2>1. gui \in {"startSocket", "startConnect"} => worker = "unborn"
    BY DEF HeldInv, HoldInv
  <2> QED
    BY <1>6, <2>1 DEF StartSocket, StartSocketFails, StartConnect, SocketSend, SocketSendNotify,
       StopClearFlag, StopNotify, StopJoin, StopClose, Woken
<1>8. CASE SocketSend \/ SocketSendNotify \/ StopClearFlag \/ StopNotify \/ StopJoin
           \/ StartSocketFails
  <2>1. UNCHANGED net /\ Here' = Here
    BY <1>8 DEF SocketSend, SocketSendNotify, StopClearFlag, StopNotify, StopJoin,
       StartSocketFails, fdVars, Here, Behind
  <2> QED
    BY <1>2, <1>5, <1>6, <1>7, <2>1 DEF Undisturbed, OneRequest, NoRequest, Waits
<1>9. ASSUME ~Waits,
             \A c \in Conn : /\ Sound(net'[c]) /\ net'[c].up = net[c].up
                             /\ net'[c].down \in {net[c].down, <<>>}
      PROVE  Undisturbed'
  BY <1>2, <1>5, <1>6, <1>7, <1>9 DEF Undisturbed, NoRequest, Waits
<1>10. CASE StartSocket
  <2>1. ~Waits /\ NewSocket
    BY <1>10 DEF StartSocket, Waits, HeldInv, HoldInv
  <2>2. /\ Here' \in Conn /\ net[Here'] = Unused
        /\ net' = [net EXCEPT ![Here'] = [Unused EXCEPT !.client = "new"]]
    BY <2>1, NewHere
  <2>3. ASSUME NEW c \in Conn
        PROVE  /\ Sound(net'[c]) /\ net'[c].up = net[c].up
               /\ net'[c].down \in {net[c].down, <<>>}
    BY <1>1, <1>5, <2>2 DEF Nets, Unused, Sound, Undisturbed
  <2> QED
    BY <1>9, <2>1, <2>3
<1>11. \A c \in Conn : Sound(ClientClosed(net[c]))
  BY <1>1, <1>5, Ends DEF Sound, Undisturbed
<1>12. \A c \in Conn : /\ Sound(NetAfterClose(clientSocket)[c])
                       /\ NetAfterClose(clientSocket)[c].up = net[c].up
                       /\ NetAfterClose(clientSocket)[c].down \in {net[c].down, <<>>}
  BY <1>1, <1>5, <1>11, CloseHere, Ends DEF Undisturbed
<1>13. CASE StartConnect
  <2>1. ~Waits /\ Here \in Conn /\ net[Here].client = "new"
    BY <1>13 DEF StartConnect, Waits, HeldInv, HoldInv
  <2>2. Sound(Connected(net[Here]))
    <3>1. net[Here] = [Unused EXCEPT !.client = "new"]
      BY <2>1 DEF HeldInv, LifeInv, Life
    <3> QED
      BY <3>1 DEF Connected, Unused, Sound
  <2>3. \A c \in Conn : /\ Sound(net'[c]) /\ net'[c].up = net[c].up
                        /\ net'[c].down \in {net[c].down, <<>>}
    <3>1. CASE net' = NetAfterClose(clientSocket)
      BY <1>12, <3>1
    <3>2. CASE net' = [net EXCEPT ![Here] = Connected(net[Here])]
      BY <1>1, <1>5, <2>1, <2>2, <3>2, Ends DEF Nets, Undisturbed
    <3> QED
      BY <1>13, <3>1, <3>2 DEF StartConnect, ConnectSocket, Here
  <2> QED
    BY <1>9, <2>1, <2>3
<1>14. CASE StopClose
  <2>1. ~Waits /\ net' = NetAfterClose(clientSocket)
    BY <1>14 DEF StopClose, JoinInv, Waits
  <2> QED
    BY <1>9, <1>12, <2>1
<1> QED
  BY <1>6, <1>8, <1>10, <1>13, <1>14

\* The worker sends one request when nothing else travels, and what it receives in the
\* calm is one whole answer, to that request.
LEMMA CalmOfWorker ==
  ASSUME HeldInv, CalmInv, HeldInv', WorkerStep \/ WorkerSpurious
  PROVE  CalmInv'
<1>1. /\ net \in Nets /\ \A c \in Conn : net[c] \in Connection(Job, Answer)
      /\ asked \in Seq(Job) /\ shown \in Seq(Emission)
      /\ (Executing => job \in Job)
  BY HeldTypes DEF Typed
<1>2. UNCHANGED <<asked, replied>> /\ (calm' => calm)
  <2>1. CASE WorkerReceive
    BY <2>1, Zenon DEF WorkerReceive, WorkerSame, peerVars, askVars
  <2>2. CASE ~WorkerReceive
   BY <2>2 DEF WorkerStep, WorkerLoop, WorkerEmpty, WorkerSleep, WorkerSpurious, WorkerBreak,
     WorkerTake, WorkerCall, WorkerSend, WorkerSendError, WorkerSigpipe, WorkerRecv,
      WorkerEof, WorkerRecvError, WorkerSame, peerVars, askVars
  <2> QED
    BY <2>1, <2>2
<1>3. CASE ~calm'
  BY <1>3 DEF CalmInv, PairedWhileCalm
<1>4. CASE calm'
  <2>1. calm /\ Undisturbed /\ PairedWhileCalm
    BY <1>2, <1>4 DEF CalmInv
  <2>2. ASSUME shown' = shown, Undisturbed' PROVE CalmInv'
    BY <1>4, <2>1, <2>2 DEF CalmInv, PairedWhileCalm
  <2>3. CASE \/ WorkerLoop \/ WorkerEmpty \/ WorkerSleep \/ WorkerSpurious \/ WorkerBreak
             \/ WorkerTake \/ WorkerCall \/ WorkerSendError
    <3>1. /\ UNCHANGED <<gui, net, shown>> /\ ~Waits /\ ~Waits'
      BY <2>3 DEF WorkerLoop, WorkerEmpty, WorkerSleep, WorkerSpurious, WorkerBreak, WorkerTake,
         WorkerCall, WorkerSendError, WorkerSame, Waits
    <3> QED
      BY <1>2, <2>1, <2>2, <3>1 DEF Undisturbed, NoRequest
  <2>4. CASE WorkerSend
    <3>1. PICK c \in Conn : /\ c = Behind(jobFd) /\ net[c].client = "open"
                            /\ net' = [net EXCEPT ![c] = ClientSent(net[c], job)]
      BY <2>4 DEF WorkerSend, Behind, HeldInv, TypeInv, TypeOK
    <3>2. /\ worker = "send" /\ worker' = "sent" /\ job' = job /\ shown' = shown /\ gui' = gui
          /\ Here' = Here /\ UNCHANGED <<queue, submitted>>
      BY <2>4 DEF WorkerSend, WorkerSame, fdVars, Here, Behind
    <3>3. c = Here /\ job \in Job
      BY <1>1, <3>1, <3>2 DEF HeldInv, HoldInv, Executing
    <3>4. NoRequest /\ Sound(net[c]) /\ net[c].up = <<>> /\ net[c].down = <<>>
      BY <2>1, <3>1, <3>2 DEF Undisturbed, Waits, NoRequest
    <3>5. Append(<<>>, job) = <<job>>
      OBVIOUS
    <3>6. /\ net'[c].client = "open" /\ net'[c].up = <<job>> /\ net'[c].down = <<>>
          /\ Sound(net'[c])
      BY <1>1, <3>1, <3>3, <3>4, <3>5, Ends DEF Nets, Sound
    <3>7. \A d \in Conn : d # c => net'[d] = net[d]
      BY <1>1, <3>1 DEF Nets
    <3>8. OneRequest'
      BY <1>2, <3>2, <3>3, <3>4, <3>6, <3>7 DEF OneRequest, NoRequest
    <3>9. Waits'
      BY <3>2 DEF Waits
    <3>10. \A d \in Conn : Sound(net'[d])
      BY <2>1, <3>6, <3>7 DEF Undisturbed
    <3> QED
      BY <1>2, <2>1, <2>2, <3>2, <3>8, <3>9, <3>10 DEF Undisturbed
  <2>5. CASE WorkerSigpipe
    <3>1. /\ ~Waits /\ ~Waits' /\ shown' = shown /\ gui' = "killed"
          /\ \A c \in Conn : net'[c] = IF net[c].client \in {"new", "open"}
                                       THEN ClientClosed(net[c]) ELSE net[c]
      BY <2>5 DEF WorkerSigpipe, Waits
    <3>2. \A c \in Conn : Sound(ClientClosed(net[c]))
      BY <1>1, <2>1, Ends DEF Sound, Undisturbed
    <3>3. \A c \in Conn : Sound(net'[c]) /\ net'[c].up = <<>> /\ net'[c].down = <<>>
      BY <1>1, <2>1, <3>1, <3>2, Ends DEF Undisturbed, NoRequest
    <3> QED
      BY <1>2, <2>1, <2>2, <3>1, <3>3 DEF Undisturbed, NoRequest
  <2>6. CASE WorkerRecv
    <3>1. /\ UNCHANGED <<gui, net, shown, job>> /\ Here' = Here /\ Waits
          /\ IF Here # NoConn /\ net[Here].client = "open"
             THEN worker' = "receiving" /\ rconn' = Here ELSE worker' = "loop"
      BY <2>6 DEF WorkerRecv, WorkerSame, fdVars, Here, Behind, Waits
    <3>2. OneRequest /\ Here # NoConn /\ net[Here].client = "open"
      BY <2>1, <3>1, ClientBounds DEF Undisturbed, OneRequest
    <3>3. OneRequest' /\ Waits'
      BY <1>2, <3>1, <3>2 DEF OneRequest, Waits
    <3> QED
      BY <1>2, <2>1, <2>2, <3>1, <3>3 DEF Undisturbed
  <2>7. CASE WorkerReceive
    <3>1. PICK n \in 1 .. Len(net[rconn].down) :
            /\ \A i \in 1 .. n - 1 : ~First(net[rconn].down, n)[i].more
            /\ net' = [net EXCEPT ![rconn] = Returned(Rest(net[rconn], n))]
            /\ shown' = Append(shown, [job |-> job, got |-> First(net[rconn].down, n)])
            /\ ~First(net[rconn].down, n)[n].more
      BY <1>4, <2>7 DEF WorkerReceive
    <3>2. /\ worker = "receiving" /\ worker' = "loop" /\ UNCHANGED gui
      BY <2>7 DEF WorkerReceive, WorkerSame
    <3>3. OneRequest /\ rconn = Here /\ Here \in Conn /\ job \in Job
      BY <1>1, <2>1, <3>2 DEF Undisturbed, OneRequest, Waits, Executing
    <3> DEFINE down == net[Here].down
               whole == [for |-> <<job>>, more |-> FALSE]
    <3>4. down \in Seq(Answer) /\ n \in 0 .. Len(down) /\ Len(down) \in Nat /\ down # <<>>
      BY <1>1, <3>1, <3>3, HeldTypes, LenProperties, EmptySeq DEF Typed
    <3>5. /\ First(down, n) \in Seq(Answer) /\ Len(First(down, n)) = n
          /\ \A i \in 1 .. n : First(down, n)[i] = down[i]
          /\ SubSeq(down, n + 1, Len(down)) \in Seq(Answer)
          /\ Len(SubSeq(down, n + 1, Len(down))) = Len(down) - n
      BY <3>4, SplitTypes
    <3>6. down = <<whole>> /\ n = 1
      <4>1. down = Reply(<<job>>)
        BY <3>3, <3>4 DEF OneRequest
      <4>2. CASE down = << [for |-> <<job>>, more |-> TRUE], whole >>
        <5>1. Len(down) = 2 /\ down[1].more
          BY <4>2
        <5>2. n = 1 \/ n = 2
          BY <3>1, <3>3, <5>1
        <5>3. ~down[1].more
          BY <3>1, <3>3, <3>5, <5>2
        <5> QED
          BY <5>1, <5>3
      <4>3. CASE down = <<whole>>
        BY <3>1, <3>3, <4>3
      <4> QED
        BY <3>3, <4>1, <4>2, <4>3, ReplyIs
    <3>7. First(down, n) = <<whole>>
      <4>1. Len(First(down, n)) = 1 /\ First(down, n)[1] = whole
        BY <3>5, <3>6
      <4> QED
        BY <3>5, <4>1
    <3>8. SubSeq(down, n + 1, Len(down)) = <<>>
      BY <3>5, <3>6, EmptySeq
    <3>9. Returned(Rest(net[Here], n)) = Rest(net[Here], n)
      BY <3>3, ClientBounds DEF Returned, Here, Behind
    <3>10. /\ net'[Here].down = <<>> /\ net'[Here].up = net[Here].up /\ Sound(net'[Here])
           /\ \A d \in Conn : d # Here => net'[d] = net[d]
      <4>1. /\ Rest(net[Here], n).down = <<>> /\ Rest(net[Here], n).up = net[Here].up
            /\ Sound(Rest(net[Here], n))
        BY <1>1, <2>1, <3>3, <3>8 DEF Rest, Connection, Sound, Undisturbed
      <4> QED
        BY <1>1, <3>1, <3>3, <3>9, <4>1 DEF Nets
    <3>11. \A c \in Conn : net'[c].up = <<>> /\ net'[c].down = <<>> /\ Sound(net'[c])
      <4>1. net[Here].up = <<>>
        BY <3>3, <3>4 DEF OneRequest
      <4> QED
        BY <2>1, <3>3, <3>10, <4>1, OnlyHere DEF Undisturbed
    <3>12. asked # <<>> => replied
      BY <3>3, <3>4 DEF OneRequest
    <3>13. Undisturbed'
      BY <1>2, <2>1, <3>2, <3>11, <3>12 DEF Undisturbed, NoRequest, Waits
    <3>14. PairedWhileCalm'
      <4>1. /\ shown \in Seq(Emission) /\ Len(shown) \in Nat /\ DOMAIN shown = 1 .. Len(shown)
            /\ DOMAIN shown' = 1 .. Len(shown) + 1
            /\ \A i \in 1 .. Len(shown) : shown'[i] = shown[i]
            /\ shown'[Len(shown) + 1] = [job |-> job, got |-> <<whole>>]
        BY <1>1, <3>1, <3>3, <3>7, AppendProperties, LenProperties
      <4>2. ASSUME NEW i \in 1 .. Len(shown) + 1
            PROVE  shown'[i].got = << [for |-> << shown'[i].job >>, more |-> FALSE] >>
        <5>1. CASE i = Len(shown) + 1
          <6>1. shown'[i] = [job |-> job, got |-> <<whole>>]
            BY <4>1, <5>1
          <6> HIDE DEF whole
          <6>2. shown'[i].got = <<whole>> /\ shown'[i].job = job
            BY <6>1
          <6> USE DEF whole
          <6> QED
            BY <6>2, Zenon
        <5>2. CASE i \in 1 .. Len(shown)
          <6>1. shown'[i] = shown[i] /\ i \in DOMAIN shown
            BY <4>1, <5>2
          <6>2. shown[i].got = << [for |-> << shown[i].job >>, more |-> FALSE] >>
            BY <2>1, <6>1 DEF PairedWhileCalm
          <6> QED
            BY <6>1, <6>2
        <5> QED
          BY <4>1, <5>1, <5>2
      <4> QED
        BY <4>1, <4>2 DEF PairedWhileCalm
    <3> QED
      BY <3>13, <3>14 DEF CalmInv
  <2>8. CASE WorkerEof
    <3>1. Waits /\ worker = "receiving" /\ net[rconn].server = "closed"
      BY <2>8 DEF WorkerEof, ClientAtEof, Waits
    <3>2. rconn = Here /\ Here \in Conn /\ net[Here].client = "open"
      BY <2>1, <3>1 DEF Undisturbed, OneRequest
    <3> QED
      BY <2>1, <3>1, <3>2 DEF Undisturbed, Sound
  <2>9. CASE WorkerRecvError
    BY <1>4, <2>9 DEF WorkerRecvError
  <2> QED
    BY <2>3, <2>4, <2>5, <2>6, <2>7, <2>8, <2>9 DEF WorkerStep
<1> QED
  BY <1>3, <1>4

\* The peer reads the one request there is, and answers it once.
LEMMA CalmOfPeer ==
  ASSUME HeldInv, CalmInv, HeldInv', PeerStep
  PROVE  CalmInv'
<1>1. /\ net \in Nets /\ \A c \in Conn : net[c] \in Connection(Job, Answer)
      /\ asked \in Seq(Job) /\ (Executing => job \in Job)
  BY HeldTypes DEF Typed
<1>2. PeerSame
  BY Zenon DEF PeerStep, PeerAccept, PeerRecv, PeerAnswer, PeerRepeat, PeerSends, PeerDone,
     PeerClose, PeerCrash, PeerRestart
<1>3. UNCHANGED <<gui, worker, job, rconn, shown>> /\ Here' = Here
  BY <1>2 DEF PeerSame, threadVars, fdVars, Here, Behind
<1>4. calm' => calm
  BY Zenon DEF PeerStep, PeerAccept, PeerRecv, PeerAnswer, PeerRepeat, PeerSends, PeerDone,
     PeerClose, PeerCrash, PeerRestart
<1>5. PairedWhileCalm'
  BY <1>3, <1>4 DEF CalmInv, PairedWhileCalm
<1>6. SUFFICES ASSUME calm' PROVE Undisturbed'
  BY <1>5 DEF CalmInv
<1>7. calm /\ Undisturbed
  BY <1>4, <1>6 DEF CalmInv
<1>8. gui' \notin {"testSocket", "testConnect"} /\ (Waits' <=> Waits)
  BY <1>3, <1>7 DEF Undisturbed, Waits
<1>9. Len(<<>>) = 0 /\ Len(<<job>>) = 1
  OBVIOUS
\* What a step may do that leaves all data alone.
<1>10. ASSUME \A c \in Conn : /\ Sound(net'[c]) /\ net'[c].client = net[c].client
                              /\ net'[c].up = net[c].up /\ net'[c].down = net[c].down,
              asked' = <<>> \/ UNCHANGED askVars
       PROVE  Undisturbed'
  <2>1. Waits => OneRequest'
    <3>1. ASSUME Waits PROVE OneRequest'
      <4>1. OneRequest /\ Here \in Conn
        BY <1>7, <3>1 DEF Undisturbed, OneRequest
      <4>2. /\ Here' \in Conn /\ net'[Here'].client = "open" /\ (worker' = "receiving" => rconn' = Here')
            /\ net'[Here'].down \in {<<>>, Reply(<<job'>>)}
        BY <1>3, <1>10, <4>1 DEF OneRequest, Reply
      <4>3. \A c \in Conn : net'[c].up # <<>> =>
              c = Here' /\ net'[c].up = <<job'>> /\ net'[c].down = <<>>
        BY <1>3, <1>10, <4>1 DEF OneRequest
      <4>4. asked' # <<>> /\ ~replied' =>
              asked' = <<job'>> /\ net'[Here'].down = <<>> /\ \A c \in Conn : net'[c].up = <<>>
        BY <1>3, <1>10, <4>1 DEF OneRequest, askVars
      <4> QED
        BY <4>2, <4>3, <4>4 DEF OneRequest
    <3> QED
      BY <3>1
  <2>2. ~Waits => NoRequest'
    BY <1>7, <1>10 DEF Undisturbed, NoRequest, askVars
  <2>3. Len(asked') <= 1
    BY <1>7, <1>9, <1>10 DEF Undisturbed, askVars
  <2> QED
    BY <1>8, <1>10, <2>1, <2>2, <2>3 DEF Undisturbed
<1>11. ASSUME NEW c \in Conn, PeerAccept(c) PROVE Undisturbed'
  <2>1. net' = [net EXCEPT ![c] = [net[c] EXCEPT !.server = "open"]] /\ UNCHANGED askVars
    BY <1>11 DEF PeerAccept, peerVars
  <2>2. \A d \in Conn : /\ Sound(net'[d]) /\ net'[d].client = net[d].client
                        /\ net'[d].up = net[d].up /\ net'[d].down = net[d].down
    BY <1>1, <1>7, <2>1 DEF Nets, Connection, Sound, Undisturbed
  <2> QED
    BY <1>10, <2>1, <2>2
<1>12. ASSUME NEW c \in Conn, PeerRecv(c) PROVE Undisturbed'
  <2>1. PICK n \in 1 .. Len(net[c].up) : asked' = First(net[c].up, n)
                                         /\ net' = [net EXCEPT ![c] = ServerTook(net[c], n)]
    BY <1>12 DEF PeerRecv
  <2>2. net[c].up # <<>>
    BY <2>1, EmptySeq
  <2>3. Waits /\ OneRequest /\ c = Here /\ net[c].up = <<job>> /\ net[c].down = <<>>
    BY <1>7, <2>2 DEF Undisturbed, OneRequest, NoRequest
  <2>4. n = 1 /\ job \in Job
    BY <1>1, <1>9, <2>1, <2>3 DEF Waits, Executing
  <2>5. asked' = <<job>> /\ SubSeq(<<job>>, 2, 1) = <<>>
    <3>1. <<job>> \in Seq(Job) /\ 1 \in 0 .. Len(<<job>>) /\ Len(<<job>>) = 1
      BY <2>4
    <3>2. /\ First(<<job>>, 1) \in Seq(Job) /\ Len(First(<<job>>, 1)) = 1
          /\ \A i \in 1 .. 1 : First(<<job>>, 1)[i] = <<job>>[i]
          /\ SubSeq(<<job>>, 2, 1) \in Seq(Job) /\ Len(SubSeq(<<job>>, 2, 1)) = 0
      <4> DEFINE s == <<job>>
                 one == 1
      <4>1. s \in Seq(Job) /\ one \in 0 .. Len(s)
        BY <3>1
      <4>2. one + 1 = 2 /\ Len(s) = 1 /\ Len(s) - one = 0 /\ one = 1
        OBVIOUS
      <4> HIDE DEF s, one
      <4>3. /\ First(s, one) \in Seq(Job) /\ Len(First(s, one)) = one
            /\ \A i \in 1 .. one : First(s, one)[i] = s[i]
            /\ SubSeq(s, one + 1, Len(s)) \in Seq(Job)
            /\ Len(SubSeq(s, one + 1, Len(s))) = Len(s) - one
        BY <4>1, SplitTypes
      <4>4. /\ First(s, 1) \in Seq(Job) /\ Len(First(s, 1)) = 1
            /\ \A i \in 1 .. 1 : First(s, 1)[i] = s[i]
            /\ SubSeq(s, 2, 1) \in Seq(Job) /\ Len(SubSeq(s, 2, 1)) = 0
        BY <4>2, <4>3
      <4> QED
        BY <4>4 DEF s
    <3>3. First(<<job>>, 1)[1] = job
      BY <3>2
    <3>4. First(<<job>>, 1) = <<job>>
      BY <3>2, <3>3
    <3>5. SubSeq(<<job>>, 2, 1) = <<>>
      BY <3>2, EmptySeq
    <3> QED
      BY <2>1, <2>3, <2>4, <3>4, <3>5
  <2>6. /\ ServerTook(net[c], n).up = <<>> /\ ServerTook(net[c], n).down = <<>>
        /\ ServerTook(net[c], n).client = net[c].client /\ Sound(ServerTook(net[c], n))
    BY <1>1, <1>7, <1>9, <2>3, <2>4, <2>5 DEF ServerTook, Connection, Sound, Undisturbed
  <2>7. \A d \in Conn : /\ net'[d].up = <<>> /\ net'[d].down = <<>> /\ Sound(net'[d])
                        /\ net'[d].client = net[d].client
    BY <1>1, <1>7, <2>1, <2>3, <2>6, OnlyHere DEF Nets, Undisturbed
  <2>8. OneRequest'
    BY <1>3, <2>3, <2>5, <2>7 DEF OneRequest
  <2> QED
    BY <1>8, <1>9, <2>3, <2>5, <2>7, <2>8 DEF Undisturbed
<1>13. ASSUME NEW c \in Conn, PeerAnswer(c) PROVE Undisturbed'
  <2>1. /\ ~replied /\ net[c].server = "open" /\ asked # <<>> /\ asked' \in {asked, <<>>}
        /\ replied' = (asked' # <<>>)
        /\ net' = [net EXCEPT ![c] = ServerSent(net[c], Reply(asked))]
    BY <1>13 DEF PeerAnswer, PeerSends
  <2>2. Waits /\ OneRequest /\ asked = <<job>> /\ Here \in Conn
        /\ net[Here].down = <<>> /\ \A d \in Conn : net[d].up = <<>>
    BY <1>7, <2>1 DEF Undisturbed, OneRequest, NoRequest
  <2>3. Reply(<<job>>) \in Seq(Answer)
    BY <1>1, <2>1, <2>2, ReplyTypes
  <2>4. /\ ServerSent(net[c], Reply(<<job>>)).client = net[c].client
        /\ ServerSent(net[c], Reply(<<job>>)).up = <<>>
        /\ Sound(ServerSent(net[c], Reply(<<job>>)))
        /\ IF net[c].client = "open"
           THEN ServerSent(net[c], Reply(<<job>>)).down = net[c].down \o Reply(<<job>>)
           ELSE ServerSent(net[c], Reply(<<job>>)).down = net[c].down
    BY <1>1, <1>7, <2>2 DEF ServerSent, Connection, Sound, Undisturbed
  <2>5. <<>> \o Reply(<<job>>) = Reply(<<job>>)
    BY <2>3, ConcatEmptySeq
  <2>6. \A d \in Conn : Sound(net'[d]) /\ net'[d].up = <<>> /\ net'[d].client = net[d].client
    BY <1>1, <1>7, <2>1, <2>2, <2>4 DEF Nets, Undisturbed
  <2>7. net'[Here].down \in {<<>>, Reply(<<job>>)}
    BY <1>1, <2>1, <2>2, <2>4, <2>5 DEF Nets
  <2>8. OneRequest'
    <3>1. /\ Here' \in Conn /\ net'[Here'].client = "open" /\ (worker' = "receiving" => rconn' = Here')
      BY <1>3, <2>2, <2>6 DEF OneRequest
    <3>2. net'[Here'].down \in {<<>>, Reply(<<job'>>)}
      BY <1>3, <2>7 DEF Reply
    <3> QED
      BY <2>1, <2>6, <3>1, <3>2 DEF OneRequest
  <2>9. Len(asked') <= 1
    <3>1. asked' = <<job>> \/ asked' = <<>>
      BY <2>1, <2>2
    <3> DEFINE l == Len(asked')
    <3>2. l \in {0, 1}
      BY <1>9, <3>1, Zenon
    <3> HIDE DEF l
    <3>3. l <= 1
      BY <3>2
    <3> QED
      BY <3>3 DEF l
  <2> QED
    BY <1>8, <2>2, <2>6, <2>8, <2>9 DEF Undisturbed
<1>14. ASSUME NEW c \in Conn, PeerClose(c) PROVE Undisturbed'
  <2>1. /\ net[c].up = <<>> /\ net[c].client # "open" /\ asked' = <<>>
        /\ net' = [net EXCEPT ![c] = ServerClosed(net[c])]
    BY <1>7, <1>14 DEF PeerClose, ServerAtEof, ServerAtReset, Undisturbed, Sound
  <2>2. \A d \in Conn : /\ Sound(net'[d]) /\ net'[d].client = net[d].client
                        /\ net'[d].up = net[d].up /\ net'[d].down = net[d].down
    BY <1>1, <1>7, <2>1, Ends DEF Nets, Sound, Undisturbed
  <2> QED
    BY <1>10, <2>1, <2>2
<1>15. CASE PeerDone \/ PeerRestart
  BY <1>7, <1>10, <1>15 DEF PeerDone, PeerRestart, Undisturbed
<1>16. CASE PeerCrash \/ \E c \in Conn : PeerRepeat(c)
  BY <1>6, <1>16 DEF PeerCrash, PeerRepeat
<1> QED
  BY <1>11, <1>12, <1>13, <1>14, <1>15, <1>16 DEF PeerStep

\* The calm lasts until something disturbs it.
LEMMA Calm == Spec => []CalmInv
<1>1. Init => CalmInv
  <2> SUFFICES ASSUME Init PROVE CalmInv
    OBVIOUS
  <2>1. \A c \in Conn : Sound(net[c]) /\ net[c].up = <<>> /\ net[c].down = <<>>
    BY DEF Init, Unused, Sound
  <2>2. /\ asked = <<>> /\ Len(<<>>) = 0 /\ shown = <<>> /\ DOMAIN <<>> = {}
        /\ gui = "startSocket" /\ worker = "unborn"
    BY DEF Init
  <2> QED
    BY <2>1, <2>2 DEF CalmInv, Undisturbed, NoRequest, Waits, PairedWhileCalm
<1>2. HeldInv /\ HeldInv' /\ JoinInv /\ CalmInv /\ [Next]_vars => CalmInv'
  <2> SUFFICES ASSUME HeldInv, HeldInv', JoinInv, CalmInv, [Next]_vars PROVE CalmInv'
    OBVIOUS
  <2>1. CASE UNCHANGED vars
    <3>1. /\ UNCHANGED <<gui, worker, job, rconn, shown, calm, asked, replied, net>>
          /\ Here' = Here
      BY <2>1 DEF vars, threadVars, fdVars, peerVars, askVars, Here, Behind
    <3> QED
      BY <3>1 DEF CalmInv, Undisturbed, OneRequest, NoRequest, Waits, PairedWhileCalm, Reply
  <2> QED
    BY <2>1, CalmOfGui, CalmOfWorker, CalmOfPeer DEF Next, ClientStep
<1> QED
  BY <1>1, <1>2, Held, Joined, PTL DEF Spec

\* As long as nothing shifts answers to later jobs (no recv() that timed out or left a
\* rest in the socket, no check of the connection, no second answer and no death of the
\* peer), what is shown for a job is the whole answer to that job and nothing else: at
\* any time there is at most one request between the two programs.
THEOREM AnswersPaired == Spec => []PairedWhileCalm
<1>1. CalmInv => PairedWhileCalm
  BY DEF CalmInv
<1> QED
  BY <1>1, Calm, PTL
=============================================================================
