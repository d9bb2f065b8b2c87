------------------------------ MODULE JobPump ------------------------------
(***************************************************************************)
(* What a job queue with one worker thread promises, abstractly: the jobs  *)
(* 1, 2, ... are executed one at a time, each at most once, in the order in *)
(* which they were submitted.  A job may end at any time, and submitted     *)
(* jobs may never be taken (the client may stop).                           *)
(***************************************************************************)
EXTENDS Naturals

CONSTANT MaxJobs \* bound: the jobs that are submitted

VARIABLES
  submitted, \* how many jobs were submitted
  taken,     \* how many of them were taken
  current    \* the job being executed, or 0

vars == <<submitted, taken, current>>

TypeOK ==
  /\ submitted \in 0 .. MaxJobs /\ taken \in 0 .. submitted
  /\ current \in {0, taken}

Init == submitted = 0 /\ taken = 0 /\ current = 0

Submit ==
  /\ submitted < MaxJobs
  /\ submitted' = submitted + 1
  /\ UNCHANGED <<taken, current>>

Take ==
  /\ current = 0 /\ taken < submitted
  /\ taken' = taken + 1 /\ current' = taken + 1
  /\ UNCHANGED submitted

Finish ==
  /\ current # 0 /\ current' = 0
  /\ UNCHANGED <<submitted, taken>>

Next == Submit \/ Take \/ Finish

Spec == Init /\ [][Next]_vars
=============================================================================
