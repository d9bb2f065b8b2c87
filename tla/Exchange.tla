------------------------------ MODULE Exchange ------------------------------
(***************************************************************************)
(* What an exchange with a card promises, abstractly: the reader sends the  *)
(* frames 1, 2, ... one at a time; each ends once, either failed or with    *)
(* the answer that the card gave to this very frame.  The card may answer   *)
(* late, when the reader waits no longer or for the answer to another frame. *)
(***************************************************************************)
EXTENDS Naturals

CONSTANT MaxFrames \* bound: the frames that are sent

VARIABLES
  frame,   \* the number of the last frame
  given,   \* the frames that the card answered
  outcome  \* "pending", "failed", or "answered"

vars == <<frame, given, outcome>>

Init == frame = 0 /\ given = {} /\ outcome = "failed"

Ask ==
  /\ outcome # "pending" /\ frame < MaxFrames
  /\ frame' = frame + 1 /\ outcome' = "pending"
  /\ UNCHANGED given

CardAnswers ==
  /\ \E f \in 1 .. frame : given' = given \cup {f}
  /\ UNCHANGED <<frame, outcome>>

Succeed ==
  /\ outcome = "pending" /\ frame \in given
  /\ outcome' = "answered"
  /\ UNCHANGED <<frame, given>>

Fail ==
  /\ outcome = "pending" /\ outcome' = "failed"
  /\ UNCHANGED <<frame, given>>

Next == Ask \/ CardAnswers \/ Succeed \/ Fail

Spec == Init /\ [][Next]_vars
=============================================================================
