------------------------ MODULE NetworkServerProofs ------------------------
(***************************************************************************)
(* Proofs about NetworkServer, for any number of connections, requests,     *)
(* cards and restarts.                                                      *)
(***************************************************************************)
EXTENDS NetworkServer, SequenceTheorems, TLAPS

-----------------------------------------------------------------------------
(* Facts about connections, for any sets of requests and answers *)

\* What is left of a sequence without its first n elements, and those.
LEMMA SplitTypes ==
  ASSUME NEW S, NEW s \in Seq(S), NEW n \in 0 .. Len(s)
  PROVE  /\ First(s, n) \in Seq(S) /\ Len(First(s, n)) = n
         /\ \A i \in 1 .. n : First(s, n)[i] = s[i]
         /\ SubSeq(s, n + 1, Len(s)) \in Seq(S)
         /\ Len(SubSeq(s, n + 1, Len(s))) = Len(s) - n
         /\ \A i \in 1 .. Len(s) - n : SubSeq(s, n + 1, Len(s))[i] = s[n + i]
<1>1. Len(s) \in Nat /\ \A i \in 1 .. Len(s) : s[i] \in S
  BY ElementOfSeq, LenProperties
<1>2. \A i \in 1 .. n : s[i] \in S
  BY <1>1
<1>3. \A i \in (n + 1) .. Len(s) : s[i] \in S
  BY <1>1
<1>4. /\ First(s, n) \in Seq(S) /\ Len(First(s, n)) = n
      /\ \A i \in 1 .. n : First(s, n)[i] = s[i]
  BY <1>1, <1>2, SubSeqProperties, SMT DEF First
<1>5. /\ SubSeq(s, n + 1, Len(s)) \in Seq(S)
      /\ Len(SubSeq(s, n + 1, Len(s))) = Len(s) - n
      /\ \A i \in 1 .. Len(s) - n : SubSeq(s, n + 1, Len(s))[i] = s[n + i]
  BY <1>1, <1>3, SubSeqProperties, SMT
<1> QED
  BY <1>4, <1>5

\* A connection stays one, whatever either side does with it.
LEMMA ConnectionTypes ==
  ASSUME NEW R, NEW A, NEW k \in Connection(R, A)
  PROVE  /\ Connected(k) \in Connection(R, A)
         /\ ClientClosed(k) \in Connection(R, A)
         /\ ServerClosed(k) \in Connection(R, A)
         /\ \A m \in R : ClientSent(k, m) \in Connection(R, A)
         /\ \A s \in Seq(A) : ServerSent(k, s) \in Connection(R, A)
<1> USE DEF Connection, ClientEnd, ServerEnd
<1>1. Connected(k) \in Connection(R, A)
  BY DEF Connected
<1>2. ClientClosed(k) \in Connection(R, A)
  <2> DEFINE reset == k.serverRst \/ (k.client = "open" /\ k.down # <<>>)
  <2>1. reset \in BOOLEAN
    OBVIOUS
  <2>2. ClientClosed(k) = [k EXCEPT !.client = "closed", !.down = <<>>, !.serverRst = reset]
    BY DEF ClientClosed
  <2>3. <<>> \in Seq(A)
    OBVIOUS
  <2> HIDE DEF reset
  <2> QED
    BY <2>1, <2>2, <2>3
<1>3. ServerClosed(k) \in Connection(R, A)
  <2> DEFINE reset == k.clientRst \/ (k.server # "closed" /\ k.up # <<>>)
  <2>1. reset \in BOOLEAN
    OBVIOUS
  <2>2. ServerClosed(k) = [k EXCEPT !.server = "closed", !.up = <<>>, !.clientRst = reset]
    BY DEF ServerClosed
  <2>3. <<>> \in Seq(R)
    OBVIOUS
  <2> HIDE DEF reset
  <2> QED
    BY <2>1, <2>2, <2>3
<1>4. ASSUME NEW m \in R PROVE ClientSent(k, m) \in Connection(R, A)
  <2>1. k.up \in Seq(R)
    OBVIOUS
  <2>2. Append(k.up, m) \in Seq(R)
    BY <2>1, AppendProperties
  <2> QED
    BY <2>2 DEF ClientSent
<1>5. ASSUME NEW s \in Seq(A) PROVE ServerSent(k, s) \in Connection(R, A)
  <2>1. k.down \in Seq(A)
    OBVIOUS
  <2>2. k.down \o s \in Seq(A)
    BY <2>1, ConcatProperties
  <2> QED
    BY <2>2 DEF ServerSent
<1> QED
  BY <1>1, <1>2, <1>3, <1>4, <1>5

\* The same for a recv() of either side.
LEMMA TookTypes ==
  ASSUME NEW R, NEW A, NEW k \in Connection(R, A)
  PROVE  /\ \A n \in 0 .. Len(k.up) :
              ServerTook(k, n) \in Connection(R, A) /\ First(k.up, n) \in Seq(R)
         /\ \A n \in 0 .. Len(k.down) :
              /\ [k EXCEPT !.down = SubSeq(@, n + 1, Len(@))] \in Connection(R, A)
              /\ First(k.down, n) \in Seq(A)
<1>1. k.up \in Seq(R) /\ k.down \in Seq(A)
  BY DEF Connection
<1>2. ASSUME NEW n \in 0 .. Len(k.up)
      PROVE  ServerTook(k, n) \in Connection(R, A) /\ First(k.up, n) \in Seq(R)
  BY <1>1, SplitTypes DEF ServerTook, Connection
<1>3. ASSUME NEW n \in 0 .. Len(k.down)
      PROVE  /\ [k EXCEPT !.down = SubSeq(@, n + 1, Len(@))] \in Connection(R, A)
             /\ First(k.down, n) \in Seq(A)
  BY <1>1, SplitTypes DEF Connection
<1> QED
  BY <1>2, <1>3

-----------------------------------------------------------------------------
\* server_thread_running is set before the thread is created and never cleared
\* while it lives: stop() would clear it, but only after the join.
FlagInv ==
  /\ ServesForever
  /\ thread \notin {"unborn", "gone"} => running
  /\ main \notin {"socket", "gone"} => running
  /\ main \in {"socket", "gone"} => thread \in {"unborn", "gone"}

\* Although main() returns as soon as the service is up, its server thread
\* never leaves its loop, so that the destructor waits for it for ever and the
\* kill -9 behind the join is never reached.
THEOREM NeverStops == Spec => []ServesForever
<1>1. Init => FlagInv
  BY DEF Init, FlagInv, ServesForever
<1>2. FlagInv /\ [Next]_vars => FlagInv'
  <2> SUFFICES ASSUME FlagInv, [Next]_vars PROVE FlagInv'
    OBVIOUS
  <2>1. ASSUME NEW how \in {"exit1", "SIGPIPE", "SIGSEGV"}, EndProcess(how) PROVE FlagInv'
    BY <2>1 DEF EndProcess, FlagInv, ServesForever
  <2>2. CASE InitSocketServer \/ Spawn \/ RunBg \/ RunBgNotify \/ PcdInit
             \/ ConnectSlot \/ Return \/ StopNotify
    BY <2>2 DEF InitSocketServer, Spawn, RunBg, RunBgNotify, PcdInit,
                ConnectSlot, Return, StopNotify, Woken, MainSame, MainKeeps,
                FlagInv, ServesForever
  <2>3. CASE InitSocketFails \/ AcceptFails \/ HandlerCrashes
    BY <2>1, <2>3 DEF InitSocketFails, AcceptFails, HandlerCrashes
  <2>4. CASE StopJoin
    BY <2>4 DEF StopJoin, FlagInv, ServesForever, vars, processVars
  <2>5. CASE TakeStep \/ ThreadSpurious
    BY <2>5 DEF TakeStep, ThreadLoop, ThreadCheck, ThreadSleep, ThreadSpurious,
                QueueSame, FlagInv, ServesForever
  <2>6. ASSUME thread \notin {"unborn", "gone"},
               thread' \in {"accept", "recv", "dispatch", "reader", "again", "close"},
               exit' = exit, UNCHANGED <<main, running>>
        PROVE  FlagInv'
    BY <2>6 DEF FlagInv, ServesForever
  <2>7. ASSUME NEW c \in Conn, Accept(c) PROVE FlagInv'
    BY <2>6, <2>7 DEF Accept, ListenSame, ListenKeeps
  <2>8. CASE Recv \/ RecvEnds \/ CloseClient \/ DispatchCard \/ DispatchLost
             \/ ReaderReturns \/ CardBlank \/ CardUncounted \/ NextCard
    BY <2>6, <2>8 DEF Recv, RecvEnds, CloseClient, DispatchCard, DispatchLost,
                      ReaderReturns, CardBlank, CardUncounted, NextCard, Handled,
                      ListenSame, ListenKeeps
  <2>9. CASE DispatchAnswer \/ CardAnswers
    BY <2>1, <2>6, <2>9 DEF DispatchAnswer, CardAnswers, Send, Sigpipe, Handled,
                            ListenSame, ListenKeeps
  <2>10. CASE ClientStep
    BY <2>10 DEF ClientStep, ClientConnects, ClientSends, ClientReads,
                 ClientCloses, ClientSame, processVars, FlagInv, ServesForever
  <2>11. CASE SystemdRestart
    BY <2>11 DEF SystemdRestart, ProcessStart, FlagInv, ServesForever
  <2>12. CASE UNCHANGED vars
    BY <2>12 DEF vars, processVars, FlagInv, ServesForever
  <2> QED
    BY <2>2, <2>3, <2>4, <2>5, <2>7, <2>8, <2>9, <2>10, <2>11, <2>12
    DEF Next, MainStep, ListenStep, SearchStep, CardStep
<1>3. FlagInv => ServesForever
  BY DEF FlagInv
<1> QED
  BY <1>1, <1>2, <1>3, PTL DEF Spec

-----------------------------------------------------------------------------
\* The states of the server thread in which it serves an accepted connection.
Serving == thread \in {"recv", "dispatch", "reader", "again", "close"}

\* At most one connection is accepted, and only while it is served.
ServedInv ==
  /\ Serving => clientSocket \in Conn
  /\ \A c \in Conn : net[c].server = "open" => Serving /\ c = clientSocket

\* run_bg() is called once, and both threads end with the process.
CountInv ==
  /\ main \in {"socket", "spawn", "push"} => jobs = 0
  /\ main \in {"socket", "spawn"} => thread = "unborn"
  /\ exit # "no" => main = "gone" /\ thread = "gone"

TypeInv == TypeOK /\ ServedInv /\ CountInv

\* What the death of the process leaves of the connections.
LEMMA EndProcessKeeps ==
  ASSUME TypeInv, NEW how \in {"exit1", "SIGPIPE", "SIGKILL", "SIGSEGV"}, EndProcess(how)
  PROVE  TypeInv'
<1> USE DEF TypeInv
<1>1. net' \in [Conn -> Connection(Req, Answer)]
  BY ConnectionTypes DEF EndProcess, TypeOK
<1>2. \A c \in Conn : net'[c].server # "open"
  BY DEF EndProcess, TypeOK, ServerClosed, Connection
<1>3. TypeOK'
  BY <1>1 DEF EndProcess, TypeOK, historyVars, MainAt, ThreadAt
<1>4. ServedInv' /\ CountInv'
  BY <1>2 DEF EndProcess, ServedInv, CountInv, Serving
<1> QED
  BY <1>3, <1>4

\* One connection is changed, and its server end does not become an accepted one.
LEMMA NetChanges ==
  ASSUME TypeOK, NEW c \in Conn, NEW k \in Connection(Req, Answer),
         k.server = "open" => net[c].server = "open",
         net' = [net EXCEPT ![c] = k]
  PROVE  /\ net' \in [Conn -> Connection(Req, Answer)]
         /\ \A d \in Conn : net'[d].server = "open" => net[d].server = "open"
BY DEF TypeOK

\* The buffers of an answer.
LEMMA ReplyTypes ==
  ASSUME NEW reqs \in Seq(Req)
  PROVE  Reply(reqs) \in Seq(Answer)
<1>1. \A b \in BOOLEAN : [for |-> reqs, more |-> b] \in Answer
  BY DEF Answer
<1>2. \A x, y \in Answer : <<x, y>> \in Seq(Answer) /\ <<x>> \in Seq(Answer)
  OBVIOUS
<1> QED
  BY <1>1, <1>2, Zenon DEF Reply

\* send() keeps the types, and the connection's server end.
LEMMA SendKeeps ==
  ASSUME TypeInv, Serving, NEW next \in {"recv", "again"}, Send(next)
  PROVE  /\ net' \in [Conn -> Connection(Req, Answer)]
         /\ \A d \in Conn : net'[d].server = "open" => net[d].server = "open"
         /\ answered' \in SUBSET Req
<1> DEFINE k == ServerSent(net[clientSocket], Reply(chunk))
<1>1. /\ clientSocket \in Conn /\ chunk \in Seq(Req)
      /\ net[clientSocket] \in Connection(Req, Answer)
  BY DEF TypeInv, TypeOK, ServedInv
<1>2. k \in Connection(Req, Answer)
  BY <1>1, ReplyTypes, ConnectionTypes
<1>3. k.server = "open" => net[clientSocket].server = "open"
  BY <1>1 DEF ServerSent, Connection
<1>4. net' = [net EXCEPT ![clientSocket] = k]
  BY DEF Send
<1>5. Requests(chunk) \subseteq Req
  BY <1>1 DEF Requests
<1> HIDE DEF k
<1> QED
  BY <1>1, <1>2, <1>3, <1>4, <1>5, NetChanges DEF Send, TypeInv, TypeOK

\* Every step keeps the types.
LEMMA TypeStep == TypeInv /\ [Next]_vars => TypeInv'
<1> SUFFICES ASSUME TypeInv, [Next]_vars PROVE TypeInv'
  OBVIOUS
<1> USE ServerBounds DEF TypeInv
<1>1. ASSUME net' \in [Conn -> Connection(Req, Answer)],
             \A d \in Conn : net'[d].server = "open" => net[d].server = "open",
             asker' \in [Req -> Conn \cup {NoConn}],
             UNCHANGED <<processVars, exit, restarts, done, dropped, answered>>
      PROVE  TypeInv'
  BY <1>1 DEF TypeOK, ServedInv, CountInv, Serving, processVars
<1>2. ASSUME NEW next \in ThreadAt, Serving, thread' = next,
             Serving' \/ \A d \in Conn : net'[d].server # "open",
             net' \in [Conn -> Connection(Req, Answer)],
             \A d \in Conn : net'[d].server = "open" => net[d].server = "open",
             chunk' \in Seq(Req), cards' \in 0 .. MaxCards,
             done' \subseteq Req, dropped' \subseteq Req, answered' \subseteq Req,
             handlers' \in {"empty", "set", "freed"}, ListenKeeps,
             UNCHANGED <<clientSocket, exit, asker>>
      PROVE  TypeInv'
  BY <1>2 DEF ListenKeeps, TypeOK, ServedInv, CountInv, Serving
<1>3. CASE InitSocketServer \/ Spawn \/ RunBg \/ RunBgNotify \/ PcdInit
           \/ ConnectSlot \/ Return \/ StopNotify
  <2> USE DEF MainSame, MainKeeps, historyVars, MainAt, ThreadAt, TypeOK, ServedInv, CountInv,
              Serving
  <2>1. CASE InitSocketServer \/ Spawn
    BY <2>1 DEF InitSocketServer, Spawn
  <2>2. CASE RunBg \/ PcdInit
    BY <2>2 DEF RunBg, PcdInit
  <2>3. CASE RunBgNotify \/ StopNotify
    BY <2>3 DEF RunBgNotify, StopNotify, Woken
  <2>4. CASE ConnectSlot
    BY <2>4 DEF ConnectSlot
  <2>5. CASE Return
    <3>1. TypeOK'
      BY <2>5 DEF Return
    <3>2. ServedInv'
      BY <2>5 DEF Return
    <3>3. CountInv'
      BY <2>5 DEF Return
    <3> QED
      BY <3>1, <3>2, <3>3 DEF TypeInv
  <2> QED
    BY <1>3, <2>1, <2>2, <2>3, <2>4, <2>5
<1>4. CASE InitSocketFails \/ AcceptFails \/ HandlerCrashes
  BY <1>4, EndProcessKeeps DEF InitSocketFails, AcceptFails, HandlerCrashes
<1>5. CASE StopJoin
  BY <1>5, EndProcessKeeps DEF StopJoin, vars, processVars, historyVars, TypeOK,
     ServedInv, CountInv, Serving
<1>6. CASE TakeStep \/ ThreadSpurious
  BY <1>6 DEF TakeStep, ThreadLoop, ThreadCheck, ThreadSleep, ThreadSpurious, QueueSame,
              historyVars, MainAt, ThreadAt, TypeOK, ServedInv, CountInv, Serving
<1>7. ASSUME NEW c \in Conn, Accept(c) PROVE TypeInv'
  <2>1. /\ net' \in [Conn -> Connection(Req, Answer)]
        /\ \A d \in Conn : net'[d].server = "open" => d = c \/ net[d].server = "open"
    BY <1>7 DEF Accept, TypeOK, Connection, ServerEnd
  <2>2. TypeOK'
    BY <1>7, <2>1 DEF Accept, ListenSame, ListenKeeps, historyVars, ThreadAt, TypeOK
  <2>3. ServedInv' /\ CountInv'
    BY <1>7, <2>1 DEF Accept, ListenSame, ListenKeeps, ServedInv, CountInv, Serving
  <2> QED
    BY <2>2, <2>3
<1>8. CASE Recv
  <2>1. PICK n \in 1 .. Len(net[clientSocket].up) :
          /\ chunk' = First(net[clientSocket].up, n)
          /\ net' = [net EXCEPT ![clientSocket] = ServerTook(@, n)]
    BY <1>8 DEF Recv
  <2>2. clientSocket \in Conn /\ net[clientSocket] \in Connection(Req, Answer)
    BY <1>8 DEF Recv, TypeOK, ServedInv, Serving
  <2>3. n \in 0 .. Len(net[clientSocket].up)
    BY <2>1, <2>2 DEF Connection
  <2>4. /\ ServerTook(net[clientSocket], n) \in Connection(Req, Answer)
        /\ chunk' \in Seq(Req)
    BY <2>1, <2>2, <2>3, TookTypes
  <2>5. ServerTook(net[clientSocket], n).server = net[clientSocket].server
    BY <2>2 DEF ServerTook, Connection
  <2>6. /\ net' \in [Conn -> Connection(Req, Answer)]
        /\ \A d \in Conn : net'[d].server = "open" => net[d].server = "open"
    BY <2>1, <2>2, <2>4, <2>5, NetChanges
  <2> QED
    BY <1>2, <1>8, <2>4, <2>6 DEF Recv, ListenSame, historyVars, Serving, ThreadAt, TypeOK
<1>9. CASE RecvEnds
  BY <1>2, <1>9 DEF RecvEnds, ListenSame, historyVars, Serving, ThreadAt, TypeOK
<1>10. CASE CloseClient
  <2>1. clientSocket \in Conn /\ net[clientSocket] \in Connection(Req, Answer)
    BY <1>10 DEF CloseClient, TypeOK, ServedInv, Serving
  <2>2. ServerClosed(net[clientSocket]) \in Connection(Req, Answer)
    BY <2>1, ConnectionTypes
  <2>3. ServerClosed(net[clientSocket]).server = "closed"
    BY <2>1 DEF ServerClosed, Connection
  <2>4. net' = [net EXCEPT ![clientSocket] = ServerClosed(net[clientSocket])]
    BY <1>10 DEF CloseClient
  <2>5. /\ net' \in [Conn -> Connection(Req, Answer)]
        /\ \A d \in Conn : net'[d].server = "open" => net[d].server = "open"
    BY <2>1, <2>2, <2>3, <2>4, NetChanges
  <2>6. \A d \in Conn : net'[d].server # "open"
    BY <2>1, <2>3, <2>4, <2>5 DEF ServedInv, TypeOK
  <2> QED
    BY <1>2, <1>10, <2>5, <2>6 DEF CloseClient, ListenSame, historyVars, Serving, ThreadAt, TypeOK
<1>11. CASE DispatchLost \/ ReaderReturns
  <2>1. Requests(chunk) \subseteq Req
    BY DEF Requests, TypeOK
  <2>2. done' \subseteq Req /\ dropped' \subseteq Req
    BY <1>11, <2>1 DEF DispatchLost, ReaderReturns, Over, TypeOK
  <2> QED
    BY <1>2, <1>11, <2>2 DEF DispatchLost, ReaderReturns, ListenSame, Serving, ThreadAt, TypeOK
<1>12. CASE DispatchCard \/ CardBlank \/ CardUncounted \/ NextCard
  <2>1. cards' \in 0 .. MaxCards
    BY <1>12 DEF DispatchCard, CardBlank, CardUncounted, NextCard, TypeOK
  <2>2. handlers' \in {"empty", "set", "freed"} /\ ListenKeeps
    BY <1>12 DEF DispatchCard, CardBlank, CardUncounted, NextCard, Handled, ListenSame, TypeOK
  <2> QED
    BY <1>2, <1>12, <2>1, <2>2 DEF DispatchCard, CardBlank, CardUncounted, NextCard,
       historyVars, Serving, ThreadAt, TypeOK
<1>13. CASE DispatchAnswer \/ CardAnswers
  <2>1. CASE Sigpipe
    BY <2>1, EndProcessKeeps DEF Sigpipe
  <2>2. CASE DispatchAnswer /\ Send("recv") /\ Over /\ UNCHANGED <<chunk, cards, handlers>>
    <3>1. Requests(chunk) \subseteq Req
      BY DEF Requests, TypeOK
    <3>2. done' \subseteq Req /\ dropped' \subseteq Req
      BY <2>2, <3>1 DEF Over, TypeOK
    <3>3. Serving
      BY <2>2 DEF DispatchAnswer, Serving
    <3> QED
      BY <1>2, <2>2, <3>2, <3>3, SendKeeps DEF Send, Serving, ThreadAt, TypeOK
  <2>3. CASE /\ CardAnswers /\ cards < MaxCards /\ cards' = cards + 1
             /\ Send("again") /\ UNCHANGED <<chunk, done, dropped>> /\ Handled
    <3>1. Serving /\ cards' \in 0 .. MaxCards
      BY <2>3 DEF CardAnswers, Serving, TypeOK
    <3>2. handlers' \in {"empty", "set", "freed"}
      BY <2>3 DEF Handled, TypeOK
    <3> QED
      BY <1>2, <2>3, <3>1, <3>2, SendKeeps DEF Send, Serving, ThreadAt, TypeOK
  <2> QED
    BY <1>13, <2>1, <2>2, <2>3 DEF DispatchAnswer, CardAnswers
<1>14. ASSUME NEW c \in Conn, ClientConnects(c) PROVE TypeInv'
  <2>1. net[c] \in Connection(Req, Answer)
    BY DEF TypeOK
  <2>2. Connected(net[c]) \in Connection(Req, Answer) /\ Connected(net[c]).server # "open"
    BY <2>1, ConnectionTypes DEF Connected, Connection
  <2>3. net' = [net EXCEPT ![c] = Connected(net[c])]
    BY <1>14 DEF ClientConnects
  <2> QED
    BY <1>1, <1>14, <2>2, <2>3, NetChanges DEF ClientConnects, ClientSame, TypeOK
<1>15. ASSUME NEW c \in Conn, NEW r \in Req, ClientSends(c, r) PROVE TypeInv'
  <2>1. net[c] \in Connection(Req, Answer)
    BY DEF TypeOK
  <2>2. /\ ClientSent(net[c], r) \in Connection(Req, Answer)
        /\ ClientSent(net[c], r).server = net[c].server
    BY <2>1, ConnectionTypes DEF ClientSent, Connection
  <2>3. net' = [net EXCEPT ![c] = ClientSent(net[c], r)]
    BY <1>15 DEF ClientSends
  <2> QED
    BY <1>1, <1>15, <2>2, <2>3, NetChanges DEF ClientSends, ClientSame, TypeOK
<1>16. ASSUME NEW c \in Conn, ClientReads(c) \/ ClientCloses(c) PROVE TypeInv'
  <2>1. net[c] \in Connection(Req, Answer)
    BY DEF TypeOK
  <2>2. ASSUME NEW n \in 0 .. Len(net[c].down)
        PROVE  /\ Read(net[c], n) \in Connection(Req, Answer)
               /\ Read(net[c], n).server = net[c].server
    BY <2>1, TookTypes DEF Read, Connection
  <2>3. ASSUME NEW n \in 0 .. Len(net[c].down)
        PROVE  /\ ClientClosed(Read(net[c], n)) \in Connection(Req, Answer)
               /\ ClientClosed(Read(net[c], n)).server = net[c].server
    <3>1. \A k \in Connection(Req, Answer) : ClientClosed(k).server = k.server
      BY DEF ClientClosed, Connection
    <3> QED
      BY <2>2, <3>1, ConnectionTypes
  <2>4. PICK n \in 0 .. Len(net[c].down) :
          \/ net' = [net EXCEPT ![c] = Read(net[c], n)]
          \/ net' = [net EXCEPT ![c] = ClientClosed(Read(net[c], n))]
    BY <1>16, <2>1 DEF ClientReads, ClientCloses, Connection
  <2>5. /\ net' \in [Conn -> Connection(Req, Answer)]
        /\ \A d \in Conn : net'[d].server = "open" => net[d].server = "open"
    BY <2>2, <2>3, <2>4, NetChanges
  <2> QED
    BY <1>1, <1>16, <2>5 DEF ClientReads, ClientCloses, ClientSame, TypeOK
<1>17. CASE SystemdRestart
  <2>1. <<>> \in Seq(Req) /\ 0 \in 0 .. MaxCards /\ restarts + 1 \in 0 .. MaxRestarts
    BY <1>17 DEF SystemdRestart, TypeOK
  <2>2. TypeOK'
    <3>1. /\ main' = "socket" /\ thread' = "unborn" /\ jobs' = 0 /\ cards' = 0
          /\ handlers' = "empty"
          /\ running' \in BOOLEAN /\ slot' \in BOOLEAN /\ listening' \in BOOLEAN
          /\ clientSocket' = NoConn /\ chunk' = <<>>
      BY <1>17 DEF SystemdRestart, ProcessStart
    <3>2. /\ exit' = "no"
          /\ restarts' \in 0 .. MaxRestarts
          /\ UNCHANGED <<net, asker, done, dropped, answered>>
      BY <1>17, <2>1 DEF SystemdRestart, historyVars
    <3> QED
      BY <2>1, <3>1, <3>2 DEF TypeOK, MainAt, ThreadAt
  <2>3. ServedInv' /\ CountInv'
    BY <1>17 DEF SystemdRestart, ProcessStart, ServedInv, CountInv, Serving
  <2> QED
    BY <2>2, <2>3
<1>18. CASE UNCHANGED vars
  BY <1>18 DEF vars, processVars, historyVars, TypeOK, ServedInv, CountInv, Serving
<1> QED
  BY <1>3, <1>4, <1>5, <1>6, <1>7, <1>8, <1>9, <1>10, <1>11, <1>12, <1>13, <1>14, <1>15,
     <1>16, <1>17, <1>18
  DEF Next, MainStep, ListenStep, SearchStep, CardStep, ClientStep

LEMMA TypeInit == Init => TypeInv
<1> SUFFICES ASSUME Init PROVE TypeInv
  OBVIOUS
<1>1. Unused \in Connection(Req, Answer) /\ Unused.server = "none"
  <2>1. <<>> \in Seq(Req) /\ <<>> \in Seq(Answer)
    OBVIOUS
  <2> QED
    BY <2>1 DEF Unused, Connection, ClientEnd, ServerEnd
<1>2. net = [c \in Conn |-> Unused]
  BY DEF Init
<1>3. net \in [Conn -> Connection(Req, Answer)] /\ \A c \in Conn : net[c].server = "none"
  BY <1>1, <1>2
<1>4. <<>> \in Seq(Req)
  OBVIOUS
<1>5. /\ asker \in [Req -> Conn \cup {NoConn}]
      /\ done \subseteq Req /\ dropped \subseteq Req /\ answered \subseteq Req
  BY DEF Init
<1>6. TypeOK
  <2>1. /\ main = "socket" /\ thread = "unborn" /\ jobs = 0 /\ cards = 0 /\ handlers = "empty"
        /\ running \in BOOLEAN /\ slot \in BOOLEAN /\ listening \in BOOLEAN
        /\ clientSocket = NoConn /\ chunk = <<>> /\ exit = "no" /\ restarts = 0
    BY DEF Init
  <2> QED
    BY <1>3, <1>4, <1>5, <2>1, ServerBounds DEF TypeOK, MainAt, ThreadAt
<1>7. ServedInv /\ CountInv
  BY <1>3 DEF Init, ServedInv, CountInv, Serving
<1> QED
  BY <1>6, <1>7 DEF TypeInv

\* Every variable of the service keeps its type, whatever the clients and systemd
\* do: job_queue never holds more than keep_listening, no descriptor is used that
\* is none, and the bounds are kept.
THEOREM Typing == Spec => []TypeOK
<1>1. TypeInv => TypeOK
  BY DEF TypeInv
<1> QED
  BY <1>1, TypeInit, TypeStep, PTL DEF Spec

\* keep_listening has at most one accepted connection, the one that clientSocket
\* names, for any number of clients, hang-ups, resets and restarts.
THEOREM OneAtATime == Spec => []OneAccepted
<1>1. TypeInv => OneAccepted
  BY DEF TypeInv, ServedInv, OneAccepted
<1> QED
  BY <1>1, TypeInit, TypeStep, PTL DEF Spec

-----------------------------------------------------------------------------
\* Every request in transit, being processed or answered is on the connection it
\* was sent on.
UpAsked == \A c \in Conn : \A r \in Requests(net[c].up) : asker[r] = c
ChunkAsked ==
  thread \in {"dispatch", "reader", "again"} =>
    \A r \in Requests(chunk) : asker[r] = clientSocket
AskerInv == UpAsked /\ ChunkAsked /\ AnswersOnlyToAsker

\* Connection l holds nothing that k does not hold.
Within(l, k) ==
  /\ Requests(l.up) \subseteq Requests(k.up)
  /\ Requests(l.down) \subseteq Requests(k.down)

\* What does not send leaves nothing new on a connection.
LEMMA NothingNew ==
  ASSUME NEW k \in Connection(Req, Answer)
  PROVE  /\ Within(k, k)
         /\ Within(Connected(k), k)
         /\ Within([k EXCEPT !.server = "open"], k)
         /\ Within(ServerClosed(k), k)
         /\ Within(ClientClosed(k), k)
         /\ \A n \in 0 .. Len(k.up) : Within(ServerTook(k, n), k)
         /\ \A n \in 0 .. Len(k.down) : Within(Read(k, n), k)
<1> USE DEF Connection, Within, Requests
<1>1. Within(k, k) /\ Within(Connected(k), k) /\ Within([k EXCEPT !.server = "open"], k)
  BY DEF Connected
<1>2. Requests(<<>>) = {}
  OBVIOUS
<1>3. Within(ServerClosed(k), k)
  BY <1>2 DEF ServerClosed
<1>4. Within(ClientClosed(k), k)
  BY <1>2 DEF ClientClosed
<1>5. ASSUME NEW n \in 0 .. Len(k.up) PROVE Within(ServerTook(k, n), k)
  BY SplitTypes DEF ServerTook
<1>6. ASSUME NEW n \in 0 .. Len(k.down) PROVE Within(Read(k, n), k)
  BY SplitTypes DEF Read
<1> QED
  BY <1>1, <1>3, <1>4, <1>5, <1>6

\* Such a step keeps the invariant, if no request is taken up.
LEMMA WithinKeeps ==
  ASSUME TypeInv, AskerInv,
         \A c \in Conn : Within(net'[c], net[c]),
         asker' = asker,
         thread' \in {"dispatch", "reader", "again"} =>
           /\ thread \in {"dispatch", "reader", "again"}
           /\ UNCHANGED <<chunk, clientSocket>>
  PROVE  AskerInv'
<1>1. UpAsked' /\ ChunkAsked'
  BY DEF AskerInv, UpAsked, ChunkAsked, Within
<1>2. ASSUME NEW c \in Conn, NEW i \in DOMAIN net'[c].down,
             NEW r \in Requests(net'[c].down[i].for)
      PROVE  asker'[r] = c
  <2>1. net'[c].down[i] \in Requests(net[c].down)
    BY DEF Within, Requests
  <2>2. PICK j \in DOMAIN net[c].down : net[c].down[j] = net'[c].down[i]
    BY <2>1 DEF Requests
  <2> QED
    BY <2>2 DEF AskerInv, AnswersOnlyToAsker
<1> QED
  BY <1>1, <1>2 DEF AskerInv, AnswersOnlyToAsker

\* An answer goes to the connection of its requests.
LEMMA SendAnswers ==
  ASSUME TypeInv, AskerInv, NEW next \in {"recv", "again"}, Send(next),
         thread \in {"dispatch", "reader"}, thread' = next,
         next = "again" => chunk' = chunk
  PROVE  AskerInv'
<1> DEFINE k == net[clientSocket]
<1>1. /\ clientSocket \in Conn /\ chunk \in Seq(Req) /\ k \in Connection(Req, Answer)
      /\ net \in [Conn -> Connection(Req, Answer)]
  BY DEF TypeInv, TypeOK, ServedInv, Serving
<1>2. net' = [net EXCEPT ![clientSocket] = ServerSent(k, Reply(chunk))]
  BY DEF Send
<1>3. Reply(chunk) \in Seq(Answer) /\ \A i \in DOMAIN Reply(chunk) : Reply(chunk)[i].for = chunk
  BY <1>1, ReplyTypes DEF Reply
<1>4. \A r \in Requests(chunk) : asker[r] = clientSocket
  BY DEF AskerInv, ChunkAsked
<1>5. UpAsked'
  BY <1>1, <1>2 DEF Send, AskerInv, UpAsked, ServerSent, Connection
<1>6. ChunkAsked'
  BY <1>4 DEF Send, ChunkAsked
<1>7. ASSUME NEW i \in DOMAIN net'[clientSocket].down
      PROVE  \/ net'[clientSocket].down[i].for = chunk
             \/ \E j \in DOMAIN k.down : net'[clientSocket].down[i] = k.down[j]
  <2>1. k.down \in Seq(Answer)
    BY <1>1 DEF Connection
  <2>2. CASE k.client = "open"
    <3>1. net'[clientSocket].down = k.down \o Reply(chunk)
      BY <1>1, <1>2, <2>2 DEF ServerSent, Connection
    <3> QED
      BY <1>3, <1>7, <2>1, <3>1, ConcatProperties
  <2>3. CASE k.client # "open"
    BY <1>1, <1>2, <1>7, <2>3 DEF ServerSent, Connection
  <2> QED
    BY <2>2, <2>3
<1>8. \A d \in Conn \ {clientSocket} : net'[d] = net[d]
  BY <1>1, <1>2
<1>9. AnswersOnlyToAsker'
  <2> SUFFICES ASSUME NEW d \in Conn, NEW i \in DOMAIN net'[d].down,
                      NEW r \in Requests(net'[d].down[i].for)
               PROVE  asker'[r] = d
    BY DEF AnswersOnlyToAsker, Requests
  <2> QED
    BY <1>4, <1>7, <1>8 DEF Send, AskerInv, AnswersOnlyToAsker
<1> QED
  BY <1>5, <1>6, <1>9 DEF AskerInv

LEMMA AskerStep == TypeInv /\ AskerInv /\ [Next]_vars => AskerInv'
<1> SUFFICES ASSUME TypeInv, AskerInv, [Next]_vars PROVE AskerInv'
  OBVIOUS
<1> DEFINE WithinAll == \A c \in Conn : Within(net'[c], net[c])
           Processing == {"dispatch", "reader", "again"}
<1>1. \A c \in Conn : net[c] \in Connection(Req, Answer)
  BY DEF TypeInv, TypeOK
<1>2. net \in [Conn -> Connection(Req, Answer)]
  BY DEF TypeInv, TypeOK
<1>3. net' = net => WithinAll
  BY <1>1, NothingNew
<1>4. ASSUME NEW c \in Conn, NEW k, Within(k, net[c]), net' = [net EXCEPT ![c] = k]
      PROVE  WithinAll
  BY <1>1, <1>2, <1>4, NothingNew
<1>5. ASSUME NEW how, EndProcess(how) PROVE AskerInv'
  <2>1. WithinAll
    BY <1>1, <1>2, <1>5, NothingNew DEF EndProcess
  <2> QED
    BY <1>5, <2>1, WithinKeeps DEF EndProcess, historyVars
<1>6. CASE InitSocketServer \/ Spawn \/ RunBg \/ RunBgNotify \/ PcdInit
           \/ ConnectSlot \/ Return \/ StopNotify
  BY <1>3, <1>6, WithinKeeps DEF InitSocketServer, Spawn, RunBg, RunBgNotify, PcdInit,
     ConnectSlot, Return, StopNotify, Woken, MainSame, MainKeeps, historyVars
<1>7. CASE InitSocketFails \/ AcceptFails \/ Sigpipe \/ HandlerCrashes
  BY <1>5, <1>7 DEF InitSocketFails, AcceptFails, Sigpipe, HandlerCrashes
<1>8. CASE StopJoin
  BY <1>3, <1>5, <1>8, WithinKeeps DEF StopJoin, vars, processVars, historyVars
<1>9. CASE TakeStep \/ ThreadSpurious
  BY <1>3, <1>9, WithinKeeps DEF TakeStep, ThreadLoop, ThreadCheck, ThreadSleep,
     ThreadSpurious, QueueSame, historyVars
<1>10. ASSUME NEW c \in Conn, Accept(c) PROVE AskerInv'
  <2>1. net' = [net EXCEPT ![c] = [net[c] EXCEPT !.server = "open"]]
    BY <1>10, <1>2 DEF Accept
  <2>2. WithinAll
    BY <1>1, <1>4, <2>1, NothingNew
  <2> QED
    BY <1>10, <2>2, WithinKeeps DEF Accept, historyVars
<1>11. CASE Recv
  <2>1. PICK n \in 1 .. Len(net[clientSocket].up) :
          /\ chunk' = First(net[clientSocket].up, n)
          /\ net' = [net EXCEPT ![clientSocket] = ServerTook(@, n)]
    BY <1>11 DEF Recv
  <2>2. /\ clientSocket \in Conn /\ net[clientSocket].up \in Seq(Req)
        /\ n \in 0 .. Len(net[clientSocket].up)
    BY <1>1, <1>11, <2>1 DEF Recv, TypeInv, ServedInv, Serving, Connection
  <2>3. WithinAll
    BY <1>1, <1>4, <2>1, <2>2, NothingNew
  <2>4. Requests(chunk') \subseteq Requests(net[clientSocket].up)
    <3> DEFINE s == net[clientSocket].up
    <3>1. /\ First(s, n) \in Seq(Req) /\ Len(First(s, n)) = n
          /\ \A i \in 1 .. n : First(s, n)[i] = s[i]
      BY <2>2, SplitTypes
    <3>2. DOMAIN First(s, n) = 1 .. n /\ 1 .. n \subseteq DOMAIN s
      BY <2>2, <3>1
    <3> QED
      BY <2>1, <3>1, <3>2 DEF Requests
  <2>5. (UpAsked /\ AnswersOnlyToAsker)'
    <3>1. UpAsked'
      BY <1>11, <2>3 DEF Recv, historyVars, AskerInv, UpAsked, Within
    <3>2. ASSUME NEW c \in Conn, NEW i \in DOMAIN net'[c].down PROVE
            \E j \in DOMAIN net[c].down : net[c].down[j] = net'[c].down[i]
      BY <2>3, <3>2 DEF Within, Requests
    <3> QED
      BY <1>11, <3>1, <3>2 DEF Recv, historyVars, AskerInv, AnswersOnlyToAsker, Requests
  <2>6. ChunkAsked'
    BY <1>11, <2>2, <2>4 DEF Recv, historyVars, AskerInv, UpAsked, ChunkAsked
  <2> QED
    BY <2>5, <2>6 DEF AskerInv
<1>12. CASE RecvEnds \/ DispatchLost \/ DispatchCard \/ ReaderReturns \/ CardBlank
            \/ CardUncounted \/ NextCard
  BY <1>3, <1>12, WithinKeeps DEF RecvEnds, DispatchLost, DispatchCard, ReaderReturns,
     CardBlank, CardUncounted, NextCard, historyVars
<1>13. CASE CloseClient
  <2>1. WithinAll
    BY <1>1, <1>2, <1>4, <1>13, NothingNew DEF CloseClient, TypeInv, ServedInv, Serving
  <2> QED
    BY <1>13, <2>1, WithinKeeps DEF CloseClient, historyVars
<1>14. CASE DispatchAnswer \/ CardAnswers
  BY <1>7, <1>14, SendAnswers DEF DispatchAnswer, CardAnswers, Send
<1>15. ASSUME NEW c \in Conn, ClientConnects(c) \/ ClientReads(c) \/ ClientCloses(c)
       PROVE  AskerInv'
  <2>1. ASSUME NEW n \in 0 .. Len(net[c].down)
        PROVE  Within(Read(net[c], n), net[c]) /\ Within(ClientClosed(Read(net[c], n)), net[c])
    <3>1. Within(Read(net[c], n), net[c]) /\ Read(net[c], n) \in Connection(Req, Answer)
      BY <1>1, NothingNew, TookTypes DEF Read
    <3> QED
      BY <3>1, NothingNew DEF Within
  <2>2. \A n \in 1 .. Len(net[c].down) : n \in 0 .. Len(net[c].down)
    BY <1>1 DEF Connection
  <2>3. WithinAll
    BY <1>1, <1>4, <1>15, <2>1, <2>2, NothingNew DEF ClientConnects, ClientReads, ClientCloses
  <2> QED
    BY <1>15, <2>3, WithinKeeps
    DEF ClientConnects, ClientReads, ClientCloses, ClientSame, processVars
<1>16. ASSUME NEW c \in Conn, NEW r \in Req, ClientSends(c, r) PROVE AskerInv'
  <2>1. \A q \in Req : asker[q] # NoConn => asker'[q] = asker[q]
    BY <1>16 DEF ClientSends, TypeInv, TypeOK
  <2>2. asker'[r] = c /\ NoConn \notin Conn
    BY <1>16, ServerBounds DEF ClientSends, TypeInv, TypeOK
  <2>3. \A d \in Conn : \A q \in Requests(net'[d].up) : q \in Requests(net[d].up) \/ (q = r /\ d = c)
    <3>1. net[c].up \in Seq(Req)
      BY <1>1 DEF Connection
    <3> QED
      BY <1>1, <1>2, <1>16, <3>1, AppendProperties DEF ClientSends, ClientSent, Connection, Requests
  <2>4. \A d \in Conn : net'[d].down = net[d].down
    BY <1>1, <1>2, <1>16 DEF ClientSends, ClientSent, Connection
  <2>5. \A d \in Conn : \A q \in Requests(net[d].up) : q \in Req
    BY <1>1 DEF Connection, Requests
  <2>6. \A d \in Conn : \A i \in DOMAIN net[d].down : \A q \in Requests(net[d].down[i].for) : q \in Req
    <3>1. \A d \in Conn : net[d].down \in Seq(Answer)
      BY <1>1 DEF Connection
    <3>2. ASSUME NEW d \in Conn, NEW i \in DOMAIN net[d].down
          PROVE  net[d].down[i].for \in Seq(Req)
      <4>1. net[d].down[i] \in Answer
        BY <3>1
      <4> QED
        BY <4>1 DEF Answer
    <3> QED
      BY <3>2 DEF Requests
  <2>7. \A q \in Requests(chunk) : q \in Req
    BY DEF TypeInv, TypeOK, Requests
  <2>8. UpAsked'
    BY <2>1, <2>2, <2>3, <2>5 DEF AskerInv, UpAsked
  <2>9. ChunkAsked'
    <3>1. thread \in Processing => clientSocket \in Conn
      BY DEF TypeInv, ServedInv, Serving
    <3> QED
      BY <1>16, <2>1, <2>2, <2>7, <3>1 DEF ClientSends, ClientSame, processVars, AskerInv, ChunkAsked
  <2>10. AnswersOnlyToAsker'
    BY <2>1, <2>2, <2>4, <2>6 DEF AskerInv, AnswersOnlyToAsker
  <2> QED
    BY <2>8, <2>9, <2>10 DEF AskerInv
<1>17. CASE SystemdRestart
  BY <1>3, <1>17, WithinKeeps DEF SystemdRestart, ProcessStart, historyVars
<1>18. CASE UNCHANGED vars
  BY <1>3, <1>18, WithinKeeps DEF vars, processVars, historyVars
<1> QED
  BY <1>6, <1>7, <1>8, <1>9, <1>10, <1>11, <1>12, <1>13, <1>14, <1>15, <1>16, <1>17, <1>18
  DEF Next, MainStep, ListenStep, SearchStep, CardStep, ClientStep

\* An answer only ever travels on the connection its request was sent on: while a
\* request is processed, however long the wait for a card, clientSocket goes on to
\* name its connection.
THEOREM AnswersGoBack == Spec => []AnswersOnlyToAsker
<1>1. Init => AskerInv
  BY DEF Init, AskerInv, UpAsked, ChunkAsked, AnswersOnlyToAsker, Unused, Requests
<1>2. AskerInv => AnswersOnlyToAsker
  BY DEF AskerInv
<1> QED
  BY <1>1, <1>2, TypeInit, TypeStep, AskerStep, PTL DEF Spec
-----------------------------------------------------------------------------
\* What the reader works on is a request for a card, and when its first card has
\* been handled, an answer was sent unless a blank card was asked for.
ReaderInv ==
  /\ thread \in {"reader", "again"} => IsCardRequest(chunk)
  /\ thread = "again" => cards > 0
  /\ thread \in {"reader", "again"} /\ cards > 0 => Requests(chunk) \ Blank \subseteq answered

\* A buffer that starts with a request which may find a blank card is a request
\* for a card only if nothing else is in it.
LEMMA BlankIsAlone ==
  ASSUME NEW reqs \in Seq(Req), IsCardRequest(reqs), Head(reqs) \in Blank
  PROVE  Requests(reqs) \subseteq Blank
<1>1. Kind[Head(reqs)] # "WRITE"
  BY ServerBounds
<1>2. Len(reqs) = 1
  BY <1>1 DEF IsCardRequest, TypeOf
<1>3. \A i \in DOMAIN reqs : reqs[i] = Head(reqs)
  BY <1>2
<1> QED
  BY <1>3 DEF Requests

\* Every step keeps it, and no step is done with an unanswered request.
LEMMA ReaderStep ==
  ASSUME TypeInv, ReaderInv, [Next]_vars
  PROVE  ReaderInv' /\ (done' \ done) \ Blank \subseteq answered'
<1> DEFINE Answered == (done' \ done) \ Blank \subseteq answered'
<1> USE DEF ReaderInv
<1>1. ASSUME thread' \notin {"reader", "again"}, done' = done PROVE ReaderInv' /\ Answered
  BY <1>1
<1>2. ASSUME UNCHANGED <<thread, chunk, cards, done, answered>> PROVE ReaderInv' /\ Answered
  BY <1>2 DEF IsCardRequest, TypeOf, Requests
<1>3. ASSUME NEW how, EndProcess(how) PROVE ReaderInv' /\ Answered
  BY <1>1, <1>3 DEF EndProcess, historyVars
<1>4. CASE InitSocketServer \/ RunBg \/ PcdInit \/ ConnectSlot \/ Return
  BY <1>2, <1>4 DEF InitSocketServer, RunBg, PcdInit, ConnectSlot, Return, MainSame, MainKeeps,
     historyVars
<1>5. CASE Spawn \/ TakeStep \/ ThreadSpurious
  BY <1>1, <1>5 DEF Spawn, MainSame, MainKeeps, TakeStep, ThreadLoop, ThreadCheck, ThreadSleep,
     ThreadSpurious, QueueSame, historyVars
<1>6. CASE RunBgNotify \/ StopNotify
  <2>1. UNCHANGED <<chunk, cards, done, answered>> /\ thread' \in {thread, "lock"}
    BY <1>6 DEF RunBgNotify, StopNotify, Woken, MainSame, MainKeeps, historyVars
  <2> QED
    BY <1>1, <1>2, <2>1
<1>7. CASE InitSocketFails \/ AcceptFails \/ Sigpipe \/ HandlerCrashes
  BY <1>3, <1>7 DEF InitSocketFails, AcceptFails, Sigpipe, HandlerCrashes
<1>8. CASE StopJoin
  BY <1>2, <1>3, <1>8 DEF StopJoin, vars, processVars, historyVars
<1>9. ASSUME NEW c \in Conn, Accept(c) PROVE ReaderInv' /\ Answered
  BY <1>1, <1>9 DEF Accept, historyVars
<1>10. CASE Recv \/ RecvEnds \/ CloseClient
  BY <1>1, <1>10 DEF Recv, RecvEnds, CloseClient, historyVars
<1>11. CASE DispatchCard \/ NextCard
  BY <1>11 DEF DispatchCard, NextCard, historyVars, IsCardRequest, TypeOf, Requests
<1>12. CASE DispatchLost
  BY <1>12 DEF DispatchLost
<1>13. CASE DispatchAnswer
  BY <1>7, <1>13 DEF DispatchAnswer, Send, Over
<1>14. CASE CardAnswers
  <2>1. CASE cards' = cards + 1 /\ Send("again") /\ UNCHANGED <<chunk, done>>
    <3>1. cards' > 0
      BY <2>1 DEF TypeInv, TypeOK
    <3>2. Requests(chunk') \subseteq answered'
      BY <2>1 DEF Send, Requests
    <3> QED
      BY <1>14, <2>1, <3>1, <3>2 DEF CardAnswers, Send, IsCardRequest, TypeOf
  <2> QED
    BY <1>7, <1>14, <2>1 DEF CardAnswers
<1>15. CASE CardBlank
  <2>1. /\ thread = "reader" /\ thread' = "again" /\ Head(chunk) \in Blank
        /\ cards' > 0 /\ UNCHANGED <<chunk, done, answered>>
    BY <1>15 DEF CardBlank, historyVars, TypeInv, TypeOK
  <2>2. Requests(chunk) \subseteq Blank
    BY <2>1, BlankIsAlone DEF TypeInv, TypeOK
  <2> QED
    BY <2>1, <2>2 DEF IsCardRequest, TypeOf, Requests
<1>16. CASE ReaderReturns \/ CardUncounted
  <2>1. CASE ReaderReturns
    BY <2>1 DEF ReaderReturns, Over
  <2>2. CASE CardUncounted
    <3>1. cards' = cards /\ cards > 0
      BY <2>2, ServerBounds DEF CardUncounted
    <3> QED
      BY <2>2, <3>1 DEF CardUncounted, historyVars, IsCardRequest, TypeOf, Requests
  <2> QED
    BY <1>16, <2>1, <2>2
<1>17. CASE ClientStep
  BY <1>2, <1>17 DEF ClientStep, ClientConnects, ClientSends, ClientReads, ClientCloses,
     ClientSame, processVars
<1>18. CASE SystemdRestart
  BY <1>1, <1>18 DEF SystemdRestart, ProcessStart, historyVars
<1>19. CASE UNCHANGED vars
  BY <1>2, <1>19 DEF vars, processVars, historyVars
<1> QED
  BY <1>4, <1>5, <1>6, <1>7, <1>8, <1>9, <1>10, <1>11, <1>12, <1>13, <1>14, <1>15, <1>16,
     <1>17, <1>18, <1>19
  DEF Next, MainStep, ListenStep, SearchStep, CardStep

\* A request that is carried out is answered before the next one is read, unless
\* its card was blank, for any number of clients, cards and requests.
THEOREM NoneForgotten == Spec => AnsweredBeforeNext
<1>1. Init => ReaderInv
  BY DEF Init, ReaderInv
<1>2. TypeInv /\ ReaderInv /\ [Next]_vars => ReaderInv'
  BY ReaderStep
<1>3. TypeInv /\ ReaderInv /\ [Next]_vars
        => [(done' \ done) \ Blank \subseteq answered']_vars
  BY ReaderStep
<1> QED
  BY <1>1, <1>2, <1>3, TypeInit, TypeStep, PTL DEF Spec, AnsweredBeforeNext
=============================================================================
