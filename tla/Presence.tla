------------------------------ MODULE Presence ------------------------------
(***************************************************************************)
(* What the chats are told about a backend: the registry, which decides    *)
(* that a backend is gone or back, composed with the offline-notice        *)
(* debounce.  They meet in fireCallback: the registry starts a goroutine   *)
(* per callback (the bag cb), and the goroutine runs OnBackendOffline or   *)
(* OnBackendOnline whenever it is scheduled, in any order.                 *)
(*   cmd/feishu-front/main.go             wires SetOnBackendOffline/Online *)
(*   internal/feishufront/ipcserver/ipcserver.go            fireCallback   *)
(***************************************************************************)
EXTENDS BackendRegistry, OfflineFlap

ASSUME PresenceAssumption == FlapBackends = Backends

presenceVars == << regVars, flapVars >>

PresenceTypeOK == RegTypeOK /\ FlapTypeOK

PresenceInit == RegInit /\ FlapInit

\* A goroutine of fireCallback runs its callback up to the unlock of flapMu.
RunOffline(b) == TakeCallback("offline", b) /\ OnBackendOffline(b)
RunOnline(b)  == TakeCallback("online", b) /\ OnBackendOnline(b)

PresenceNext ==
    \/ RegStep /\ UNCHANGED flapVars
    \/ FlapStep /\ UNCHANGED regVars
    \/ \E b \in Backends : RunOffline(b) \/ RunOnline(b)

\* Goroutines and timers run; writes and health ticks go on.  Nothing forces
\* a backend to come, to leave or to answer.
Fairness ==
    /\ \A c \in Conns : WF_presenceVars(SSEStep(c) /\ UNCHANGED flapVars)
    /\ \A c \in Conns : WF_presenceVars(GoSilent(c) /\ UNCHANGED flapVars)
    /\ WF_presenceVars(HealthSnapshot /\ UNCHANGED flapVars)
    /\ \A b \in Backends : WF_presenceVars(HealthStep(b) /\ UNCHANGED flapVars)
    /\ \A b \in Backends : WF_presenceVars(RunOffline(b))
    /\ \A b \in Backends : WF_presenceVars(RunOnline(b))
    /\ \A t \in Timers : WF_presenceVars(TimerStep(t) /\ UNCHANGED regVars)

PresenceSpec == PresenceInit /\ [][PresenceNext]_presenceVars
PresenceFairSpec == PresenceSpec /\ Fairness

-----------------------------------------------------------------------------
(* Properties *)

\* No callback about b is still on its way, and no connection of b is being
\* set up or taken down.
Settled(b) ==
    /\ cb["offline"][b] = 0
    /\ cb["online"][b] = 0
    /\ \A c \in Conns : Owner[c] = b =>
          handler[c] \notin {"registered", "exiting", "removed"}
    /\ \A c \in Conns : Owner[c] = b => ~HealthReports(c)

\* "Only a backend that stays down for the whole window triggers a notice":
\* a backend that is connected, with nothing about it in flight, is not
\* counted as shown offline.
ConnectedNotShownOffline ==
    \A b \in Backends :
        conns[b] # NoConn /\ Settled(b) => flap[b] = NoFlap

\* The timers that may still decide an offline notice for b.
Pending(b) == {t \in Timers : timers[t].b = b
                              /\ timers[t].st \in {"armed", "waiting", "stopped"}}

\* However callbacks are reordered and timers stopped too late, a lost
\* connection is good for one offline notice at most, and a recovered notice
\* needs an offline notice: notices never outnumber losses.
NoticeAccounting ==
    \A b \in Backends :
        /\ notices[b].on <= notices[b].off
        /\ notices[b].off + Cardinality(Pending(b)) + cb["offline"][b]
             <= Cardinality({c \in Conns : Owner[c] = b /\ fired[c] = 1})

=============================================================================
