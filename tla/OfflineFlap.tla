---------------------------- MODULE OfflineFlap ----------------------------
(***************************************************************************)
(* The debounce of the "backend offline" notices:                          *)
(*   internal/feishufront/dispatcher_backend.go   OnBackendOffline,        *)
(*   fireOfflineNotice, OnBackendOnline, reclaimStrandedTurns.             *)
(*                                                                         *)
(* Every critical section of flapMu is one action.  An element of Timers   *)
(* is one time.AfterFunc timer together with the goroutine its callback    *)
(* runs in: Stop can come too late, and then the callback is already       *)
(* waiting for flapMu.  The cards themselves are sent after flapMu is      *)
(* released; the model counts the decisions to send them.                  *)
(***************************************************************************)
EXTENDS Naturals, FiniteSets

CONSTANTS
    FlapBackends,   \* backend ids
    Timers,         \* timer objects; a free one is reused
    NoTimer,        \* flapState.timer = nil
    NoFlap          \* no entry in Dispatcher.flap

ASSUME FlapAssumption ==
    /\ FlapBackends # {}
    /\ NoTimer \notin Timers
    /\ NoFlap \notin [timer: Timers \cup {NoTimer}, notified: BOOLEAN, gen: Nat]

VARIABLES
    flap,        \* Dispatcher.flap
    timers,      \* the timers and their callback goroutines
    notices      \* history: offline and recovered notices decided so far

flapVars == << flap, timers, notices >>

FlapEntry == [timer: Timers \cup {NoTimer}, notified: BOOLEAN, gen: Nat]

\* armed: running.  waiting: fired, the callback waits for flapMu.  stopped:
\* the same, but Stop was called since.  posting: the callback sends the cards
\* and then reclaims the turns.
TimerState == {"free", "armed", "waiting", "stopped", "posting"}

FlapTypeOK ==
    /\ flap \in [FlapBackends -> FlapEntry \cup {NoFlap}]
    /\ timers \in [Timers -> [st: TimerState, b: FlapBackends, gen: Nat]]
    /\ notices \in [FlapBackends -> [off: Nat, on: Nat]]

\* A slot not in use.
Free == [st |-> "free", b |-> CHOOSE b \in FlapBackends : TRUE, gen |-> 0]

FlapInit ==
    /\ flap = [b \in FlapBackends |-> NoFlap]
    /\ timers = [t \in Timers |-> Free]
    /\ notices = [b \in FlapBackends |-> [off |-> 0, on |-> 0]]

-----------------------------------------------------------------------------
\* The timer OnBackendOffline creates: any free slot is as good as another.
FreeTimers == {t \in Timers : timers[t].st = "free"}
Fresh == CHOOSE t \in Timers : timers[t].st = "free"

\* timer.Stop(): a callback that already runs is not stopped.
Stopped(t) == IF timers[t].st = "armed" THEN Free
              ELSE [timers[t] EXCEPT !.st = "stopped"]

\* The entry OnBackendOffline finds or creates.
EntryOf(b) == IF flap[b] # NoFlap THEN flap[b]
              ELSE [timer |-> NoTimer, notified |-> FALSE, gen |-> 0]

\* Fault: the callback captures the generation before it is raised.
OnBackendOfflineOldGen(b) ==
    LET st == EntryOf(b) IN
    /\ IF st.notified
       THEN UNCHANGED << flap, timers >>
       ELSE /\ FreeTimers # {}
            /\ flap' = [flap EXCEPT ![b] =
                           [st EXCEPT !.timer = Fresh, !.gen = @ + 1]]
            /\ timers' = [t \in Timers |->
                 IF t = Fresh THEN [st |-> "armed", b |-> b, gen |-> st.gen]
                 ELSE IF t = st.timer THEN Stopped(t) ELSE timers[t]]
    /\ UNCHANGED notices

\* Nothing to do when the offline card is already shown; otherwise stop the
\* timer there is and arm a new one under the next generation.
OnBackendOffline(b) ==
    LET st == EntryOf(b) IN
    /\ IF st.notified
       THEN UNCHANGED << flap, timers >>
       ELSE /\ FreeTimers # {}
            /\ flap' = [flap EXCEPT ![b] =
                           [st EXCEPT !.timer = Fresh, !.gen = @ + 1]]
            /\ timers' = [t \in Timers |->
                 IF t = Fresh THEN [st |-> "armed", b |-> b, gen |-> st.gen + 1]
                 ELSE IF t = st.timer THEN Stopped(t) ELSE timers[t]]
    /\ UNCHANGED notices

\* The debounce window ends.
TimerFires(t) ==
    /\ timers[t].st = "armed"
    /\ timers' = [timers EXCEPT ![t].st = "waiting"]
    /\ UNCHANGED << flap, notices >>

\* fireOfflineNotice up to the unlock: an outdated generation is suppressed.
FireOfflineNotice(t) ==
    LET b == timers[t].b IN
    /\ timers[t].st \in {"waiting", "stopped"}
    /\ IF flap[b] = NoFlap \/ (flap[b] # NoFlap /\ flap[b].gen # timers[t].gen)
       THEN /\ timers' = [timers EXCEPT ![t] = Free]
            /\ UNCHANGED << flap, notices >>
       ELSE /\ timers' = [timers EXCEPT ![t].st = "posting"]
            /\ flap' = [flap EXCEPT ![b] =
                           [timer |-> NoTimer, notified |-> TRUE, gen |-> @.gen]]
            /\ notices' = [notices EXCEPT ![b].off = @ + 1]

\* sendOfflineNotices and reclaimStrandedTurns, after the unlock.
PostOffline(t) ==
    /\ timers[t].st = "posting"
    /\ timers' = [timers EXCEPT ![t] = Free]
    /\ UNCHANGED << flap, notices >>

\* Fault: every reconnect with an entry is answered by a recovered notice.
OnBackendOnlineAlwaysRecovers(b) ==
    /\ flap' = [flap EXCEPT ![b] = NoFlap]
    /\ IF flap[b] # NoFlap /\ flap[b].timer # NoTimer
       THEN timers' = [timers EXCEPT ![flap[b].timer] = Stopped(flap[b].timer)]
       ELSE UNCHANGED timers
    /\ IF flap[b] # NoFlap
       THEN notices' = [notices EXCEPT ![b].on = @ + 1]
       ELSE UNCHANGED notices

\* OnBackendOnline: a pending notice is cancelled silently, a shown one is
\* followed by a recovered notice, and the entry goes in both cases.
OnBackendOnline(b) ==
    /\ flap' = [flap EXCEPT ![b] = NoFlap]
    /\ IF flap[b] # NoFlap /\ flap[b].timer # NoTimer
       THEN timers' = [timers EXCEPT ![flap[b].timer] = Stopped(flap[b].timer)]
       ELSE UNCHANGED timers
    /\ IF flap[b] # NoFlap /\ flap[b].timer = NoTimer /\ flap[b].notified
       THEN notices' = [notices EXCEPT ![b].on = @ + 1]
       ELSE UNCHANGED notices

\* What runs without a callback from the registry.
TimerStep(t) == TimerFires(t) \/ FireOfflineNotice(t) \/ PostOffline(t)
FlapStep == \E t \in Timers : TimerStep(t)

FlapNext == \/ FlapStep
            \/ \E b \in FlapBackends : OnBackendOffline(b) \/ OnBackendOnline(b)

FlapSpec == FlapInit /\ [][FlapNext]_flapVars

-----------------------------------------------------------------------------
(* Properties *)

\* A recovered notice is only sent for an offline notice: the recovered ones
\* decided for a backend never outnumber its offline ones, and are fewer while
\* the backend counts as shown offline.
RecoveryOwed ==
    \A b \in FlapBackends :
        notices[b].on + (IF flap[b] # NoFlap /\ flap[b].notified THEN 1 ELSE 0)
            <= notices[b].off

\* The timer an entry refers to is that entry's own, of its generation and
\* still able to fire: no entry waits for a timer that was given up.
EntryTimerLive ==
    \A b \in FlapBackends :
        flap[b] # NoFlap /\ flap[b].timer # NoTimer =>
            LET t == timers[flap[b].timer] IN
            /\ ~flap[b].notified
            /\ t.st \in {"armed", "waiting"}
            /\ t.b = b
            /\ t.gen = flap[b].gen

\* A pending offline notice is resolved: posted, or cancelled by a reconnect.
NoticeResolves ==
    \A b \in FlapBackends :
        (flap[b] # NoFlap /\ flap[b].timer # NoTimer)
            ~> (flap[b] = NoFlap \/ (flap[b] # NoFlap /\ flap[b].notified))

\* A cancelled timer's callback never decides an offline notice ("only this
\* latest arm's callback can post", the purpose of the generation).
StoppedNeverPosts ==
    [][\A t \in Timers :
          timers[t].st = "stopped" => timers'[t].st # "posting"]_flapVars
=============================================================================
