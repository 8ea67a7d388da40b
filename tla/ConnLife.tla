------------------------------ MODULE ConnLife ------------------------------
(***************************************************************************)
(* What the registry promises about its connections.  Each lives once: it  *)
(* is registered, and from then on it is the connection of its backend     *)
(* until a newer one silently takes its place or it is lost, and what is   *)
(* lost is reported once.                                                  *)
(***************************************************************************)
CONSTANTS Conns, Owner

VARIABLE fate

LifeInit == fate = [c \in Conns |-> "new"]

\* The connection bound to the same backend, if there is one, is replaced.
Register(c) ==
    /\ fate[c] = "new"
    /\ fate' = [d \in Conns |->
                  IF d = c THEN "bound"
                  ELSE IF Owner[d] = Owner[c] /\ fate[d] = "bound" THEN "replaced"
                  ELSE fate[d]]

Lose(c) == fate[c] = "bound" /\ fate' = [fate EXCEPT ![c] = "lost"]

Report(c) == fate[c] = "lost" /\ fate' = [fate EXCEPT ![c] = "reported"]

LifeNext == \E c \in Conns : Register(c) \/ Lose(c) \/ Report(c)

LifeSpec == LifeInit /\ [][LifeNext]_fate
=============================================================================
