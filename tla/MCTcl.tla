------------------------------- MODULE MCTcl -------------------------------
(* A small instance of Tcl for TLC. *)
EXTENDS Tcl

\* One card with TA1, TB1 and TC1 that sends faster than it receives, one whose
\* only byte is TA1, one with TC1 and no CID, and one of another kind.
MCKinds ==
  {[iso |-> TRUE, t0 |-> 117, bytes |-> <<16, 129, 2>>, cid |-> TRUE,
    speeds |-> {<<0, 0>>, <<1, 0>>}],
   [iso |-> TRUE, t0 |-> 21, bytes |-> <<17>>, cid |-> TRUE,
    speeds |-> {<<0, 0>>, <<1, 1>>}],
   [iso |-> TRUE, t0 |-> 69, bytes |-> <<0>>, cid |-> FALSE, speeds |-> {<<0, 0>>}],
   [iso |-> FALSE, t0 |-> 0, bytes |-> <<>>, cid |-> FALSE, speeds |-> {}]}
=============================================================================
