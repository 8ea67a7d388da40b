--------------------------- MODULE MCStatusCards ---------------------------
(* A small instance of StatusCards for TLC. *)
EXTENDS StatusCards
=============================================================================
