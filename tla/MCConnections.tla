--------------------------- MODULE MCConnections ---------------------------
(***************************************************************************)
(* The registry and the offline notices on small instances, in one run.    *)
(* The registry by itself keeps its callbacks in the bag, for running one  *)
(* changes nothing in it: part = "sends" has prompts and one missed pong,  *)
(* part = "misses" two missed pongs and no prompt.  part = "presence" is   *)
(* the composition, with one missed pong and no prompt.                    *)
(***************************************************************************)
EXTENDS Presence, TLC

CONSTANTS b1, c1, c2

VARIABLE part
connectionsVars == << presenceVars, part >>

\* b1 connects twice.
OneBackend == c1 :> b1 @@ c2 :> b1

Short == INSTANCE Presence WITH MaxPrompts <- 0
Long == INSTANCE Presence WITH MaxMissed <- 2, MaxPrompts <- 0

InRegistry(p, A) == part = p /\ A /\ UNCHANGED << flapVars, part >>
InPresence(A) == part = "presence" /\ A /\ UNCHANGED part

ConnectionsInit == part \in {"sends", "misses", "presence"} /\ PresenceInit

ConnectionsNext ==
    \/ InRegistry("sends", RegStep)
    \/ InRegistry("misses", Long!RegStep)
    \/ InPresence(Short!PresenceNext)

\* RegFairness in the one part and Fairness in the other: what is fair in both
\* is named once.
Alone(A) == A /\ UNCHANGED << flapVars, part >>

ConnectionsFairSpec ==
    /\ ConnectionsInit /\ [][ConnectionsNext]_connectionsVars
    /\ \A c \in Conns : /\ WF_connectionsVars(Alone(SSEStep(c)))
                        /\ WF_connectionsVars(Alone(GoSilent(c)))
    /\ WF_connectionsVars(Alone(HealthSnapshot))
    /\ \A b \in Backends :
        /\ WF_connectionsVars(\/ InRegistry("sends", HealthStep(b))
                              \/ InRegistry("misses", Long!HealthStep(b))
                              \/ InPresence(Short!HealthStep(b) /\ UNCHANGED flapVars))
        /\ WF_connectionsVars(InPresence(RunOffline(b)))
        /\ WF_connectionsVars(InPresence(RunOnline(b)))
    /\ \A t \in Timers :
        WF_connectionsVars(InPresence(TimerStep(t) /\ UNCHANGED regVars))
=============================================================================
