----------------------------- MODULE DurableMap -----------------------------
(***************************************************************************)
(* What the chat router promises of its bindings: a map that is changed in *)
(* memory, reaches the disk in the background, and after a crash is a map  *)
(* it has really been, at worst without the changes that were never saved. *)
(* log is every map it has been, in order; the last is the current one,    *)
(* and the first saved of them survive any crash.                          *)
(***************************************************************************)
EXTENDS Naturals, Sequences

CONSTANTS Maps, EmptyMap

VARIABLES log, saved

AbstractInit == log = <<EmptyMap>> /\ saved = 1

(* A command, or the one-time import of the old file, changes the map.     *)
Change == \E b \in Maps : log' = Append(log, b) /\ saved' = saved

(* The background writer makes a longer prefix durable, never a shorter.   *)
Save == /\ saved' \in saved..Len(log)
        /\ log' = log

(* A crash forgets some of the changes that were not saved.                *)
Forget == \E k \in saved..Len(log) : log' = SubSeq(log, 1, k) /\ saved' \in saved..k

AbstractNext == Change \/ Save \/ Forget

AbstractSpec == AbstractInit /\ [][AbstractNext]_<<log, saved>>
=============================================================================
