----------------------------- MODULE MCReconnect -----------------------------
(* Instance of Reconnect for TLC. *)
EXTENDS Reconnect
=============================================================================
