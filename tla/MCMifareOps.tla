---------------------------- MODULE MCMifareOps ----------------------------
(* A small instance of MifareOps for TLC. *)
EXTENDS MifareOps

MCCard(first) == <<first, 2, 3, 4, Bcc(<<first, 2, 3, 4>>), 8, 9>> \o Zeros(9)
MCMagic  == {MCCard(170)}
MCCards  == MCMagic \cup {MCCard(85)}

\* A value so low that taking two away is refused.
MCValues == {-2147483647}

\* Tuples that differ in every bit, one of a value block.
MCAccess == {[o \in 0 .. 3 |-> <<6, 1, 3, 4>>[o + 1]]}

\* One UID of the card's size, one too short for it, one that fills the block.
MCUids == {<<17, 34, 51, 68>>, <<200, 1, 7>>, [i \in 1 .. 16 |-> i]}
=============================================================================
