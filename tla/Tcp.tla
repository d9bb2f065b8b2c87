-------------------------------- MODULE Tcp --------------------------------
(***************************************************************************)
(* The loopback/LAN TCP connections between the GUI (NetworkClient.cc) and  *)
(* the reader service (NetworkServer.cpp), as both sides use them through   *)
(* connect, accept, send, recv and close.                                   *)
(*                                                                          *)
(* A connection is a record: the state of either end, the messages in       *)
(* transit towards the server (up) and towards the client (down), and       *)
(* whether a reset has reached each end.  A message is the payload of one   *)
(* send(); TCP keeps no boundary between messages, so a recv() returns a    *)
(* non-empty prefix of what is buffered, several messages at once included. *)
(* Splitting a single message over two recv()s is not modelled, except for  *)
(* answers longer than the client's buffer, which are several messages.     *)
(***************************************************************************)
LOCAL INSTANCE Naturals
LOCAL INSTANCE Sequences

\* "none": never used; "new": socket() done, not connected; "open"; "closed".
ClientEnd == {"none", "new", "open", "closed"}

\* "none": nobody connected; "backlog": completed by the kernel, not accepted.
ServerEnd == {"none", "backlog", "open", "closed"}

\* The connection record of a connection id that was never used.
Unused == [client |-> "none", server |-> "none", up |-> <<>>, down |-> <<>>,
           clientRst |-> FALSE, serverRst |-> FALSE]

\* The type of a connection carrying requests of Req and answers of Ans.
Connection(Req, Ans) ==
  [client : ClientEnd, server : ServerEnd, up : Seq(Req), down : Seq(Ans),
   clientRst : BOOLEAN, serverRst : BOOLEAN]

\* connect() succeeds as soon as the kernel queues the connection: the server
\* need not have accepted it.
Connected(k) == [k EXCEPT !.client = "open", !.server = "backlog"]

\* What client-side send() of m leaves behind.  The data of a send to a server
\* end that is gone is lost and provokes a reset.
ClientSent(k, m) ==
  IF k.server \in {"backlog", "open"} THEN [k EXCEPT !.up = Append(@, m)]
                                      ELSE [k EXCEPT !.clientRst = TRUE]

\* The same for the server, with the buffers s that one send() fills.
ServerSent(k, s) ==
  IF k.client = "open" THEN [k EXCEPT !.down = @ \o s]
                       ELSE [k EXCEPT !.serverRst = TRUE]

\* close() of the client end.  Answers it had not read turn the close into a
\* reset; requests it had sent stay readable for the server.
ClientClosed(k) ==
  [k EXCEPT !.client = "closed", !.down = <<>>,
            !.serverRst = @ \/ (k.client = "open" /\ k.down # <<>>)]

\* close() of the server end, by the server or by the death of its process.
ServerClosed(k) ==
  [k EXCEPT !.server = "closed", !.up = <<>>,
            !.clientRst = @ \/ (k.server # "closed" /\ k.up # <<>>)]

\* What the server's recv() of the first n messages leaves, and returns.
ServerTook(k, n) == [k EXCEPT !.up = SubSeq(@, n + 1, Len(@))]
First(s, n)      == SubSeq(s, 1, n)

\* The server's recv() returns 0: the client hung up and nothing is left.
ServerAtEof(k)   == k.up = <<>> /\ k.client = "closed" /\ ~k.serverRst
\* The server's recv() returns -1: the connection was reset.
ServerAtReset(k) == k.up = <<>> /\ k.serverRst

\* The client's recv() returns 0 once the server end is gone.
ClientAtEof(k)   == k.down = <<>> /\ k.server = "closed"
=============================================================================
