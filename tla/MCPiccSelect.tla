---------------------------- MODULE MCPiccSelect ----------------------------
(* A small instance of PiccSelect for TLC: any of six cards in the field. *)
EXTENDS PiccSelect, TLC

CONSTANTS a, b, c, d, e, f

\* a to d collide in the first bit of a byte, in the last, and inside; e and f
\* have two cascade levels, the first one in common.
MCUid ==
  (a :> << {} >>) @@ (b :> << {9} >>) @@ (c :> << {8, 9, 32} >>) @@
  (d :> << {1, 9, 11} >>) @@
  (e :> << {4, 8, 10}, {3} >>) @@ (f :> << {4, 8, 10}, {3, 25} >>)
=============================================================================
