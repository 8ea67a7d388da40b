---------------------------- MODULE Interactive ----------------------------
(***************************************************************************)
(* Interactive cards: permission and question cards and their TTL.         *)
(*   internal/feishufront/dispatcher_interactive.go                        *)
(*   internal/feishufront/turn.go               BindInteractive, ...       *)
(*   internal/feishufront/renderer/interactive_states.go                   *)
(*                                                                         *)
(* A card is bound in TurnManager (its own lock) and cached with its TTL   *)
(* timer in the Dispatcher (cardMu).  The control pump sends cards, a      *)
(* goroutine per click flips them to submitted, a timer callback flips     *)
(* them to expired, and the end of the turn (the pump, or the goroutine    *)
(* that reclaims turns) to finished.  A step is one critical section or    *)
(* one call of the Feishu API, which may fail.                             *)
(***************************************************************************)
EXTENDS Naturals, FiniteSets

CONSTANTS
    Requests,      \* request ids; a card has the name of its first request
    TurnPrompts,   \* prompts the requests belong to
    Nobody,        \* no message, no request, no prompt, no card
    MaxClicks      \* bound: clicks, repeated ones included, that reach the frontend

ASSUME InteractiveAssumption ==
    Nobody \notin Requests \cup TurnPrompts /\ MaxClicks \in Nat

VARIABLES
    interactive,  \* TurnManager.interactive: the binding of each request
    old,          \* requests whose binding is older than InteractiveTimeout
    cards,        \* Dispatcher.cards: the cached form of each request
    timers,       \* Dispatcher.interactiveTimers, and whether each has fired
    sender,       \* the pump in sendInteractive
    expiry,       \* the timer callback of each request, in expireInteractive
    click,        \* the goroutine of each request's click
    ending,       \* finalizeLinkedInteractive in the pump and in the reclaim
    openTurns,    \* TurnManager.turns
    ended,        \* prompts whose terminal has been handled
    actionIDs,    \* Dispatcher.actionIDs, the answered requests
    shown,        \* what Feishu shows on each card: request and form
    clicks,       \* clicks that reached the frontend
    answers,      \* history: answers handed to the backend
    asked,        \* requests whose card has been sent
    credit        \* history: cached forms not yet rendered expired or finished

interVars == << interactive, old, cards, timers, sender, expiry, click, ending,
                openTurns, ended, actionIDs, shown, clicks, answers, asked,
                credit >>

Ender == {"pump", "reclaim"}
NoBinding == [msg |-> Nobody, prompt |-> Nobody]
NoTimerRuns == [at |-> "idle", msg |-> Nobody]
NoTimer == [at |-> "none", msg |-> Nobody]
Quiet == [at |-> "idle", r |-> Nobody, p |-> Nobody, msg |-> Nobody,
          refresh |-> FALSE, drop |-> {}]
NoEnding == [at |-> "idle", todo |-> {}]

InterInit ==
    /\ interactive = [r \in Requests |-> NoBinding]
    /\ old = {} /\ actionIDs = {} /\ ended = {}
    /\ openTurns = TurnPrompts
    /\ cards = [r \in Requests |-> "none"]
    /\ timers = [r \in Requests |-> NoTimer]
    /\ sender = Quiet
    /\ expiry = [r \in Requests |-> NoTimerRuns]
    /\ click = [r \in Requests |-> [at |-> "idle", msg |-> Nobody]]
    /\ ending = [w \in Ender |-> NoEnding]
    /\ shown = [r \in Requests |-> [r |-> Nobody, form |-> "pending"]]
    /\ clicks = 0
    /\ answers = [r \in Requests |-> 0]
    /\ asked = {}
    /\ credit = [r \in Requests |-> 0]

history == << answers, asked, credit, clicks >>

\* UpdateCard: the card changes, or the call fails and the code ignores it.
UpdateCard(m, r, form) ==
    shown' \in {shown, [shown EXCEPT ![m] = [r |-> r, form |-> form]]}

-----------------------------------------------------------------------------
(* sendInteractive, in the control pump *)

PumpIdle == sender.at = "idle" /\ ending["pump"].at = "idle"

\* A follow-up round patches the card m of an earlier round, whose answer told
\* the backend the message id, in place.  The result of the patch is ignored.
SendRefresh(r, p, m) ==
    /\ PumpIdle
    /\ r \notin asked
    /\ shown[m].r # Nobody /\ answers[shown[m].r] > 0
    /\ UpdateCard(m, r, "pending")
    /\ sender' = [Quiet EXCEPT !.at = "sweep", !.r = r, !.p = p, !.msg = m,
                               !.refresh = TRUE]
    /\ asked' = asked \cup {r}
    /\ UNCHANGED << interactive, old, cards, timers, expiry, click, ending,
                    openTurns, ended, actionIDs, answers, credit, clicks >>

\* A first round is a card of its own: the progress card of an open turn when
\* the request takes it over, else (or when that patch fails) a new inline
\* card.  A failed send ends the handler.
SendFirst(r, p, takeOver) ==
    /\ PumpIdle
    /\ r \notin asked
    /\ takeOver => p \in openTurns
    /\ openTurns' = IF takeOver THEN openTurns \ {p} ELSE openTurns
    /\ \/ /\ shown' = [shown EXCEPT ![r] = [r |-> r, form |-> "pending"]]
          /\ sender' = [Quiet EXCEPT !.at = "sweep", !.r = r, !.p = p, !.msg = r]
          /\ asked' = asked \cup {r}
       \/ UNCHANGED << shown, sender, asked >>
    /\ UNCHANGED << interactive, old, cards, timers, expiry, click, ending,
                    ended, actionIDs, answers, credit, clicks >>

\* SweepInteractive: the bindings past the TTL go.
SweepInteractive ==
    /\ sender.at = "sweep"
    /\ LET gone == {r \in old : interactive[r] # NoBinding}
       IN  /\ interactive' = [r \in Requests |->
                  IF r \in gone THEN NoBinding ELSE interactive[r]]
           /\ sender' = [sender EXCEPT !.at = "drop", !.drop = gone]
    /\ UNCHANGED << old, cards, timers, expiry, click, ending, openTurns, ended,
                    actionIDs, shown, history >>

\* ... and then their cached cards, under cardMu; their timers stay.
DropSwept ==
    /\ sender.at = "drop"
    /\ cards' = [r \in Requests |->
           IF r \in sender.drop THEN "none" ELSE cards[r]]
    /\ sender' = [sender EXCEPT !.at = IF sender.refresh THEN "evict" ELSE "bind",
                                !.drop = {}]
    /\ UNCHANGED << interactive, old, timers, expiry, click, ending, openTurns,
                    ended, actionIDs, shown, history >>

\* Fault: the earlier rounds keep their bindings.
EvictRoundsSkipped ==
    /\ sender.at = "evict"
    /\ sender' = [sender EXCEPT !.at = "unload"]
    /\ UNCHANGED << interactive, old, cards, timers, expiry, click, ending,
                    openTurns, ended, actionIDs, shown, history >>

\* evictInteractiveByMessageID: the earlier rounds on the refreshed card lose
\* their bindings,
EvictRounds ==
    /\ sender.at = "evict"
    /\ LET gone == {r \in Requests \ {sender.r} : interactive[r].msg = sender.msg}
       IN  /\ interactive' = [r \in Requests |->
                  IF r \in gone THEN NoBinding ELSE interactive[r]]
           /\ sender' = [sender EXCEPT !.at = "unload", !.drop = gone]
    /\ UNCHANGED << old, cards, timers, expiry, click, ending, openTurns, ended,
                    actionIDs, shown, history >>

\* and then their timers and cached cards.
UnloadRounds ==
    /\ sender.at = "unload"
    /\ cards' = [r \in Requests |->
           IF r \in sender.drop THEN "none" ELSE cards[r]]
    /\ timers' = [r \in Requests |->
           IF r \in sender.drop THEN NoTimer ELSE timers[r]]
    /\ sender' = [sender EXCEPT !.at = "bind", !.drop = {}]
    /\ UNCHANGED << interactive, old, expiry, click, ending, openTurns, ended,
                    actionIDs, shown, history >>

BindInteractive ==
    /\ sender.at = "bind"
    /\ interactive' = [interactive EXCEPT ![sender.r] =
                          [msg |-> sender.msg, prompt |-> sender.p]]
    /\ sender' = [sender EXCEPT !.at = "cache"]
    /\ UNCHANGED << old, cards, timers, expiry, click, ending, openTurns, ended,
                    actionIDs, shown, history >>

\* Fault: the TTL timer is not armed.
CacheWithoutTimer ==
    /\ sender.at = "cache"
    /\ cards' = [cards EXCEPT ![sender.r] = "pending"]
    /\ credit' = [credit EXCEPT ![sender.r] = @ + 1]
    /\ sender' = Quiet
    /\ UNCHANGED << interactive, old, timers, expiry, click, ending, openTurns,
                    ended, actionIDs, shown, clicks, answers, asked >>

CacheAndArm ==
    /\ sender.at = "cache"
    /\ cards' = [cards EXCEPT ![sender.r] = "pending"]
    /\ credit' = [credit EXCEPT ![sender.r] = @ + 1]
    /\ timers' = [timers EXCEPT ![sender.r] = [at |-> "armed", msg |-> sender.msg]]
    /\ sender' = Quiet
    /\ UNCHANGED << interactive, old, expiry, click, ending, openTurns, ended,
                    actionIDs, shown, clicks, answers, asked >>

SenderStep == SweepInteractive \/ DropSwept \/ EvictRounds \/ UnloadRounds
                  \/ BindInteractive \/ CacheAndArm

-----------------------------------------------------------------------------
(* The TTL *)

\* InteractiveTimeout passes since the binding was made.
GrowOld(r) ==
    /\ timers[r].at = "armed" \/ interactive[r] # NoBinding
    /\ sender.r # r
    /\ r \notin old
    /\ old' = old \cup {r}
    /\ UNCHANGED << interactive, cards, timers, sender, expiry, click, ending,
                    openTurns, ended, actionIDs, shown, history >>

\* The runtime starts the callback; from here on Stop comes too late.
TimerFires(r) ==
    /\ timers[r].at = "armed" /\ r \in old
    /\ timers' = [timers EXCEPT ![r].at = "fired"]
    /\ expiry' = [expiry EXCEPT ![r] = [at |-> "unbind", msg |-> timers[r].msg]]
    /\ UNCHANGED << interactive, old, cards, sender, click, ending, openTurns,
                    ended, actionIDs, shown, history >>

\* expireInteractive: unbind, take the cached form, show it expired.
ExpireUnbind(r) ==
    /\ expiry[r].at = "unbind"
    /\ interactive' = [interactive EXCEPT ![r] = NoBinding]
    /\ expiry' = [expiry EXCEPT ![r].at = "take"]
    /\ UNCHANGED << old, cards, timers, sender, click, ending, openTurns, ended,
                    actionIDs, shown, history >>

\* Fault: the cached card stays.
ExpireTakeKeeps(r) ==
    /\ expiry[r].at = "take"
    /\ expiry' = [expiry EXCEPT ![r] =
                     IF cards[r] = "none" THEN NoTimerRuns ELSE [@ EXCEPT !.at = "flip"]]
    /\ timers' = [timers EXCEPT ![r] = NoTimer]
    /\ UNCHANGED << interactive, old, cards, sender, click, ending, openTurns,
                    ended, actionIDs, shown, history >>

ExpireTake(r) ==
    /\ expiry[r].at = "take"
    /\ expiry' = [expiry EXCEPT ![r] =
                     IF cards[r] = "none" THEN NoTimerRuns ELSE [@ EXCEPT !.at = "flip"]]
    /\ cards' = [cards EXCEPT ![r] = "none"]
    /\ timers' = [timers EXCEPT ![r] = NoTimer]
    /\ UNCHANGED << interactive, old, sender, click, ending, openTurns, ended,
                    actionIDs, shown, history >>

ExpireFlip(r) ==
    /\ expiry[r].at = "flip"
    /\ UpdateCard(expiry[r].msg, r, "expired")
    /\ credit' = [credit EXCEPT ![r] = @ - 1]
    /\ expiry' = [expiry EXCEPT ![r] = NoTimerRuns]
    /\ UNCHANGED << interactive, old, cards, timers, sender, click, ending,
                    openTurns, ended, actionIDs, clicks, answers, asked >>

ExpireStep(r) == ExpireUnbind(r) \/ ExpireTake(r) \/ ExpireFlip(r)

-----------------------------------------------------------------------------
(* DispatchCardAction, a goroutine per click *)

ClickFrom(r) ==
    [at |-> IF interactive[r] = NoBinding THEN "forward" ELSE "take",
     msg |-> interactive[r].msg]

\* A button of request r is clicked; the platform may deliver the click
\* again.  A request that has been answered is dropped by actionIDs, and one
\* without a binding (InteractiveMessageID) is only forwarded.
DispatchCardAction(r) ==
    /\ clicks < MaxClicks
    /\ \/ \E m \in Requests : shown[m] = [r |-> r, form |-> "pending"]
       \/ click[r].at # "idle"
    /\ clicks' = clicks + 1
    /\ IF r \in actionIDs
       THEN UNCHANGED << actionIDs, click >>
       ELSE /\ actionIDs' = actionIDs \cup {r}
            /\ click' = [click EXCEPT ![r] = ClickFrom(r)]
    /\ UNCHANGED << interactive, old, cards, timers, sender, expiry, ending,
                    openTurns, ended, shown, answers, asked, credit >>

\* flipInteractiveSubmitted: stop the timer and read the cached form, ...
ClickTake(r) ==
    /\ click[r].at = "take"
    /\ timers' = [timers EXCEPT ![r] = NoTimer]
    /\ click' = [click EXCEPT ![r].at =
                    IF cards[r] = "none" THEN "forward" ELSE "flip"]
    /\ UNCHANGED << interactive, old, cards, sender, expiry, ending, openTurns,
                    ended, actionIDs, shown, history >>

\* ... show it submitted, ...
ClickFlip(r) ==
    /\ click[r].at = "flip"
    /\ UpdateCard(click[r].msg, r, "submitted")
    /\ click' = [click EXCEPT ![r].at = "check"]
    /\ UNCHANGED << interactive, old, cards, timers, sender, expiry, ending,
                    openTurns, ended, actionIDs, history >>

\* ... and cache the submitted form if the request is still bound
\* (cacheSubmittedCard: the look and the write are under different locks).
ClickCheck(r) ==
    /\ click[r].at = "check"
    /\ click' = [click EXCEPT ![r].at =
                    IF interactive[r] = NoBinding THEN "forward" ELSE "store"]
    /\ UNCHANGED << interactive, old, cards, timers, sender, expiry, ending,
                    openTurns, ended, actionIDs, shown, history >>

ClickStore(r) ==
    /\ click[r].at = "store"
    /\ cards' = [cards EXCEPT ![r] = "submitted"]
    /\ credit' = [credit EXCEPT ![r] = @ + 1]
    /\ click' = [click EXCEPT ![r].at = "forward"]
    /\ UNCHANGED << interactive, old, timers, sender, expiry, ending, openTurns,
                    ended, actionIDs, shown, clicks, answers, asked >>

\* forwardCardAnswer: no backend for the chat, or its queue is full, and the
\* answer is lost; the request stays in actionIDs.
ForwardAnswer(r) ==
    /\ click[r].at = "forward"
    /\ answers' \in {answers, [answers EXCEPT ![r] = @ + 1]}
    /\ click' = [click EXCEPT ![r] = [at |-> "done", msg |-> Nobody]]
    /\ UNCHANGED << interactive, old, cards, timers, sender, expiry, ending,
                    openTurns, ended, actionIDs, shown, clicks, asked, credit >>

ClickStep(r) == ClickTake(r) \/ ClickFlip(r) \/ ClickCheck(r)
                    \/ ClickStore(r) \/ ForwardAnswer(r)

-----------------------------------------------------------------------------
(* finalizeLinkedInteractive, at the end of a turn *)

\* The pump handles the terminal of a prompt, or the reclaim invalidates an
\* open turn; either way the bindings of the prompt go.
UnbindByPrompt(w, p) ==
    /\ ending[w].at = "idle" /\ p \notin ended
    /\ IF w = "pump" THEN PumpIdle ELSE p \in openTurns
    /\ ended' = ended \cup {p}
    /\ openTurns' = openTurns \ {p}
    /\ LET bound == {r \in Requests : interactive[r].prompt = p}
       IN  /\ interactive' = [r \in Requests |->
                  IF r \in bound THEN NoBinding ELSE interactive[r]]
           /\ ending' = [ending EXCEPT ![w] =
                  [at |-> "take",
                   todo |-> {<< r, interactive[r].msg >> : r \in bound}]]
    /\ UNCHANGED << old, cards, timers, sender, expiry, click, actionIDs, shown,
                    history >>

\* The cards still to show finished; with none left the handler returns.
ToFlip(todo) ==
    IF todo = {} THEN NoEnding ELSE [at |-> "flip", todo |-> todo]

\* Fault: the cached forms are read, not taken.
FinalizeTakeKeeps(w) ==
    /\ ending[w].at = "take"
    /\ LET mine == {b[1] : b \in ending[w].todo}
       IN  /\ ending' = [ending EXCEPT ![w] =
                  ToFlip({b \in ending[w].todo : cards[b[1]] # "none"})]
           /\ timers' = [r \in Requests |-> IF r \in mine THEN NoTimer ELSE timers[r]]
    /\ UNCHANGED << interactive, old, cards, sender, expiry, click, openTurns,
                    ended, actionIDs, shown, history >>

\* Under cardMu: take the cached forms, stop the timers.
FinalizeTake(w) ==
    /\ ending[w].at = "take"
    /\ LET mine == {b[1] : b \in ending[w].todo}
       IN  /\ ending' = [ending EXCEPT ![w] =
                  ToFlip({b \in ending[w].todo : cards[b[1]] # "none"})]
           /\ cards' = [r \in Requests |-> IF r \in mine THEN "none" ELSE cards[r]]
           /\ timers' = [r \in Requests |-> IF r \in mine THEN NoTimer ELSE timers[r]]
    /\ UNCHANGED << interactive, old, sender, expiry, click, openTurns, ended,
                    actionIDs, shown, history >>

FinalizeFlip(w) ==
    /\ ending[w].at = "flip"
    /\ \E b \in ending[w].todo :
           /\ UpdateCard(b[2], b[1], "finished")
           /\ credit' = [credit EXCEPT ![b[1]] = @ - 1]
           /\ ending' = [ending EXCEPT ![w] = ToFlip(ending[w].todo \ {b})]
    /\ UNCHANGED << interactive, old, cards, timers, sender, expiry, click,
                    openTurns, ended, actionIDs, clicks, answers, asked >>

FinalizeStep(w) == FinalizeTake(w) \/ FinalizeFlip(w)

-----------------------------------------------------------------------------
(* The specification *)

Ask == \E r \in Requests, p \in TurnPrompts :
           \/ \E m \in Requests : SendRefresh(r, p, m)
           \/ \E t \in BOOLEAN : SendFirst(r, p, t)

InterNext ==
    \/ Ask
    \/ SenderStep
    \/ \E r \in Requests : GrowOld(r) \/ TimerFires(r) \/ ExpireStep(r)
                               \/ DispatchCardAction(r) \/ ClickStep(r)
    \/ \E w \in Ender : FinalizeStep(w) \/ \E p \in TurnPrompts : UnbindByPrompt(w, p)

InterSpec == InterInit /\ [][InterNext]_interVars

\* Goroutines that have started run on, the Feishu client's timeouts end every
\* call, time passes and the runtime fires its timers.  Nobody has to click,
\* and the backend need not end the turn.
InterFairness ==
    /\ WF_interVars(SenderStep)
    /\ \A r \in Requests : /\ WF_interVars(GrowOld(r)) /\ WF_interVars(TimerFires(r))
                           /\ WF_interVars(ExpireStep(r)) /\ WF_interVars(ClickStep(r))
    /\ \A w \in Ender : WF_interVars(FinalizeStep(w))

-----------------------------------------------------------------------------
(* Properties *)

\* A form that was cached once is rendered as expired or finished at most
\* once: the timer callback, the end of the turn and the sender take it from
\* the cache under cardMu, whatever their order.
FlippedOncePerForm ==
    \A r \in Requests :
        Cardinality({w \in Ender :
                       ending[w].at = "flip" /\ r \in {b[1] : b \in ending[w].todo}})
            + (IF expiry[r].at = "flip" THEN 1 ELSE 0)
            + (IF cards[r] # "none" THEN 1 ELSE 0) <= credit[r]

\* After an in-place refresh one request owns the card: no two bindings name
\* the same message once sendInteractive has returned.
OneOwner ==
    sender.at = "idle" =>
        \A r, q \in Requests : interactive[r].msg = interactive[q].msg
                                   /\ interactive[r] # NoBinding => r = q

\* Two locks, one life cycle: once nobody is at work on an unanswered
\* request, its cached card is bound or has a timer that will drop it.
CacheIsReaped ==
    \A r \in Requests \ actionIDs :
        /\ cards[r] # "none"
        /\ sender.at = "idle" /\ expiry[r].at = "idle"
        /\ \A w \in Ender : ending[w].at = "idle"
        => timers[r].at # "none"

\* An unanswered card does not stay in the cache: its timer, the end of its
\* turn or a later sweep takes it out.
UnansweredIsReaped ==
    \A r \in Requests :
        (cards[r] # "none" /\ r \notin actionIDs) ~>
            (cards[r] = "none" \/ r \in actionIDs)

=============================================================================
