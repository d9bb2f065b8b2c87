--------------------------- MODULE MCNetworkServer ---------------------------
(* Small instances of NetworkServer for TLC. *)
EXTENDS NetworkServer

\* A WRITE and a command that may find a blank card.
MCKind == <<"WRITE", "CARD">>
=============================================================================
