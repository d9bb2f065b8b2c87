---------------------------- MODULE MCCardReader ----------------------------
(* Small instances of CardReader for TLC. *)
EXTENDS CardReader, TLC

CONSTANTS a, b, c

\* a holds text in its first two blocks, b is blank, c is full of text.
MCContent ==
  (a :> << -1, -1, 0 >>) @@ (b :> << 0, 0, 0 >>) @@ (c :> << -1, -1, -1 >>)

\* a and b have the factory key, c one that is not in the chain.
KeysOneUnknown == (a :> 1) @@ (b :> 1) @@ (c :> 0)

\* One card alone, with the second key of the chain.
TextOnly    == a :> << -1, -1, -1 >>
KeySecond   == a :> 2
=============================================================================
