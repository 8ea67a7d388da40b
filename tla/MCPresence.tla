----------------------------- MODULE MCPresence -----------------------------
(* Small instances of Presence for TLC. *)
EXTENDS Presence, TLC

CONSTANTS b1, c1, c2

\* b1 connects twice.
OneBackend == c1 :> b1 @@ c2 :> b1
=============================================================================
