------------------------------ MODULE MCSystem ------------------------------
(* A small instance of System for TLC. *)
EXTENDS System

\* A ping and a command for a card.
MCKind == <<"PING", "CARD">>
=============================================================================
