----------------------------- MODULE TurnCards -----------------------------
(***************************************************************************)
(* The life of a prompt in the frontend: its turn, its progress card and   *)
(* the terminal frame that ends both.                                      *)
(*   internal/feishufront/dispatcher.go           DispatchIncoming, ...    *)
(*   internal/feishufront/dispatcher_control.go   DispatchControl, ...     *)
(*   internal/feishufront/dispatcher_backend.go   reclaimStrandedTurns     *)
(*   internal/feishufront/{turn,debouncer,dedup}.go                        *)
(*                                                                         *)
(* Four kinds of goroutine touch this state: one per incoming message, the *)
(* serial control pump, the debouncer's ticker and the callback of the     *)
(* offline debounce that reclaims turns.  A step is one critical section   *)
(* or one call of the Feishu API, which may fail.  The prompts go to one   *)
(* backend; it is the environment here.                                    *)
(***************************************************************************)
EXTENDS Naturals, Sequences, FiniteSets

CONSTANTS
    Prompts,          \* message ids, which are the prompt ids
    NoPrompt,
    Kinds,            \* terminals the backend sends: "result", "notice", "patch"
    MaxDeliveries,    \* bound: deliveries of one message event
    MaxProgress,      \* bound: progress frames of one prompt
    MaxOutages,       \* bound: times the backend goes away
    MaxQuickReturns   \* bound: outages that end within the offline debounce

ASSUME TurnAssumption ==
    /\ NoPrompt \notin Prompts
    /\ Kinds \subseteq {"result", "notice", "patch"}
    /\ {MaxDeliveries, MaxProgress, MaxOutages, MaxQuickReturns} \subseteq Nat

VARIABLES
    eventIDs,    \* Dispatcher.eventIDs, the inbound dedup set
    bot,         \* position of the goroutine that handles each message
    turns,       \* TurnManager.turns
    terminals,   \* Dispatcher.terminals, the prompts that had their terminal
    progress,    \* Dispatcher.progress, prompts with a progress state
    finalized,   \* Dispatcher.finalized, prompts whose card is sealed
    pending,     \* cardDebouncer.pending, prompts with a frame to flush
    tick,        \* the batch the ticker's flushCtx swapped out
    ctlPump,     \* the control pump
    reclaim,     \* the goroutine of reclaimStrandedTurns
    controls,    \* BackendRegistry.ctrlCh
    card,        \* what the progress card of each prompt shows
    answers,     \* history: terminal cards delivered for each prompt
    unpatched,   \* history: prompts whose "patch" terminal failed to be sent
    job,         \* the backend's work on each prompt
    link,        \* the backend: connected, away, or away for the whole window
    used         \* counters behind the bounds

turnVars == << eventIDs, bot, turns, terminals, progress, finalized, pending,
               tick, ctlPump, reclaim, controls, card, answers, unpatched, job,
               link, used >>

BotState == {"idle", "send", "start", "forward", "done"}
JobState == {"none", "queued", "running", "over", "lost"}
Control == [p: Prompts, kind: {"progress"} \cup Kinds]

\* The pump is idle, in updateProgress (state, check, enqueue), or ending the
\* prompt p: flush the debouncer (batch), mark, deliver, finish, cleanup.
PumpState ==
    [at: {"idle", "state", "check", "enqueue", "patch", "flush", "flushing",
          "deliver", "finish", "cleanup"},
     p: Prompts \cup {NoPrompt}, kind: {"progress"} \cup Kinds,
     hasTurn: BOOLEAN, batch: SUBSET Prompts]

\* reclaimStrandedTurns: the turns still to invalidate and the one in hand.
ReclaimState == [at: {"idle", "mark", "cleanup"}, todo: SUBSET Prompts,
                 p: Prompts \cup {NoPrompt}]

Counts == [deliveries: [Prompts -> Nat], frames: [Prompts -> Nat],
           outages: Nat, quick: Nat]

TurnTypeOK ==
    /\ eventIDs \subseteq Prompts
    /\ bot \in [Prompts -> BotState]
    /\ turns \subseteq Prompts
    /\ terminals \subseteq Prompts
    /\ progress \subseteq Prompts
    /\ finalized \subseteq Prompts
    /\ pending \subseteq Prompts
    /\ tick \subseteq Prompts
    /\ ctlPump \in PumpState
    /\ reclaim \in ReclaimState
    /\ controls \in Seq(Control)
    /\ card \in [Prompts -> {"none", "starting", "progress", "terminal", "invalid"}]
    /\ answers \in [Prompts -> Nat]
    /\ unpatched \subseteq Prompts
    /\ job \in [Prompts -> JobState]
    /\ link \in {"up", "down", "confirmed"}
    /\ used \in Counts

Idle == [at |-> "idle", p |-> NoPrompt, kind |-> "progress",
         hasTurn |-> FALSE, batch |-> {}]

TurnInit ==
    /\ eventIDs = {} /\ turns = {} /\ terminals = {} /\ progress = {}
    /\ finalized = {} /\ pending = {} /\ tick = {} /\ unpatched = {}
    /\ bot = [p \in Prompts |-> "idle"]
    /\ ctlPump = Idle
    /\ reclaim = [at |-> "idle", todo |-> {}, p |-> NoPrompt]
    /\ controls = << >>
    /\ card = [p \in Prompts |-> "none"]
    /\ answers = [p \in Prompts |-> 0]
    /\ job = [p \in Prompts |-> "none"]
    /\ link = "up"
    /\ used = [deliveries |-> [p \in Prompts |-> 0],
               frames |-> [p \in Prompts |-> 0], outages |-> 0, quick |-> 0]

\* What the parts of the system leave alone.
pumpOnly == << eventIDs, bot, tick, reclaim, job, link, used >>
cardState == << turns, terminals, progress, finalized, pending, ctlPump, card,
                answers, unpatched >>

-----------------------------------------------------------------------------
(* A message goroutine: DispatchIncoming and dispatchPrompt *)

\* Feishu delivers an event, perhaps again; a known event id is acknowledged
\* and dropped.
DispatchIncoming(p) ==
    /\ used.deliveries[p] < MaxDeliveries
    /\ used' = [used EXCEPT !.deliveries[p] = @ + 1]
    /\ IF p \in eventIDs
       THEN UNCHANGED << eventIDs, bot >>
       ELSE /\ eventIDs' = eventIDs \cup {p}
            /\ bot' = [bot EXCEPT ![p] = "send"]
    /\ UNCHANGED << cardState, tick, reclaim, controls, job, link >>

\* No connected backend: a notice instead of a turn.
OfflineNotice(p) ==
    /\ bot[p] = "send"
    /\ link # "up"
    /\ bot' = [bot EXCEPT ![p] = "done"]
    /\ UNCHANGED << eventIDs, cardState, tick, reclaim, controls, job, link, used >>

\* The placeholder card is sent, or the send fails and the event id is
\* forgotten so that Feishu's redelivery is handled.
SendPlaceholder(p) ==
    /\ bot[p] = "send"
    /\ link = "up"
    /\ \/ /\ card' = [card EXCEPT ![p] = "starting"]
          /\ bot' = [bot EXCEPT ![p] = "start"]
          /\ UNCHANGED eventIDs
       \/ /\ eventIDs' = eventIDs \ {p}
          /\ bot' = [bot EXCEPT ![p] = "idle"]
          /\ UNCHANGED card
    /\ UNCHANGED << turns, terminals, progress, finalized, pending, tick, ctlPump,
                    reclaim, controls, answers, unpatched, job, link, used >>

TurnsStart(p) ==
    /\ bot[p] = "start"
    /\ turns' = turns \cup {p}
    /\ bot' = [bot EXCEPT ![p] = "forward"]
    /\ UNCHANGED << eventIDs, terminals, progress, finalized, pending, tick,
                    ctlPump, reclaim, controls, card, answers, unpatched, job,
                    link, used >>

\* Fault: a failed forward does not end the turn.
ForwardPromptKeepsTurn(p) ==
    /\ bot[p] = "forward"
    /\ bot' = [bot EXCEPT ![p] = "done"]
    /\ \/ link = "up" /\ job' = [job EXCEPT ![p] = "queued"]
       \/ UNCHANGED job
    /\ UNCHANGED << eventIDs, cardState, tick, reclaim, controls, link, used >>

\* registry.SendEvent queues the prompt, or fails (no connection, closed, full)
\* and the turn ends at once with a notice.
ForwardPrompt(p) ==
    /\ bot[p] = "forward"
    /\ bot' = [bot EXCEPT ![p] = "done"]
    /\ \/ /\ link = "up"
          /\ job' = [job EXCEPT ![p] = "queued"]
          /\ UNCHANGED turns
       \/ /\ turns' = turns \ {p}
          /\ UNCHANGED job
    /\ UNCHANGED << eventIDs, terminals, progress, finalized, pending, tick,
                    ctlPump, reclaim, controls, card, answers, unpatched, link,
                    used >>

-----------------------------------------------------------------------------
(* The backend *)

ReceivePrompt(p) ==
    /\ job[p] = "queued"
    /\ link = "up"
    /\ job' = [job EXCEPT ![p] = "running"]
    /\ UNCHANGED << eventIDs, bot, cardState, tick, reclaim, controls, link, used >>

EmitProgress(p) ==
    /\ job[p] = "running"
    /\ link = "up"
    /\ used.frames[p] < MaxProgress
    /\ used' = [used EXCEPT !.frames[p] = @ + 1]
    /\ controls' = Append(controls, [p |-> p, kind |-> "progress"])
    /\ UNCHANGED << eventIDs, bot, cardState, tick, reclaim, job, link >>

\* The terminal of a prompt; its POST is retried, so it may arrive twice.
EmitTerminal(p) ==
    /\ job[p] = "running"
    /\ link = "up"
    /\ job' = [job EXCEPT ![p] = "over"]
    /\ \E k \in Kinds :
          LET c == [p |-> p, kind |-> k] IN
          controls' \in {Append(controls, c), controls \o << c, c >>}
    /\ UNCHANGED << eventIDs, bot, cardState, tick, reclaim, link, used >>

\* The connection breaks: prompts still buffered in it are lost, and the
\* running ones too when the process died.
GoDown ==
    /\ link = "up"
    /\ used.outages < MaxOutages
    /\ link' = "down"
    /\ \E gone \in {{"queued"}, {"queued", "running"}} :
          job' = [p \in Prompts |-> IF job[p] \in gone THEN "lost" ELSE job[p]]
    /\ used' = [used EXCEPT !.outages = @ + 1]
    /\ UNCHANGED << eventIDs, bot, cardState, tick, reclaim, controls >>

\* It connects again, within the debounce window or after it.
ComeBack ==
    /\ \/ link = "confirmed" /\ UNCHANGED used
       \/ /\ link = "down" /\ used.quick < MaxQuickReturns
          /\ used' = [used EXCEPT !.quick = @ + 1]
    /\ link' = "up"
    /\ UNCHANGED << eventIDs, bot, cardState, tick, reclaim, controls, job >>

-----------------------------------------------------------------------------
(* The offline debounce: reclaimStrandedTurns and invalidateTurnCard *)

\* The window has passed: every turn of the backend leaves the TurnManager.
ReclaimBackend ==
    /\ link = "down"
    /\ reclaim.todo = {} /\ reclaim.at = "idle"
    /\ link' = "confirmed"
    /\ reclaim' = [reclaim EXCEPT !.todo = turns]
    /\ turns' = {}
    /\ UNCHANGED << eventIDs, bot, terminals, progress, finalized, pending, tick,
                    ctlPump, controls, card, answers, unpatched, job, used >>

\* The progress card shows the failure; when it cannot, a fresh card is tried.
InvalidateTurnCard(p) ==
    /\ reclaim.at = "idle"
    /\ p \in reclaim.todo
    /\ \/ /\ card' = [card EXCEPT ![p] = "invalid"]
          /\ reclaim' = [at |-> "mark", todo |-> reclaim.todo \ {p}, p |-> p]
       \/ /\ reclaim' = [at |-> "cleanup", todo |-> reclaim.todo \ {p}, p |-> p]
          /\ UNCHANGED card
    /\ UNCHANGED << eventIDs, bot, turns, terminals, progress, finalized, pending,
                    tick, ctlPump, controls, answers, unpatched, job, link, used >>

ReclaimMark ==
    /\ reclaim.at = "mark"
    /\ finalized' = finalized \cup {reclaim.p}
    /\ reclaim' = [reclaim EXCEPT !.at = "cleanup"]
    /\ UNCHANGED << eventIDs, bot, turns, terminals, progress, pending, tick,
                    ctlPump, controls, card, answers, unpatched, job, link, used >>

ReclaimCleanup ==
    /\ reclaim.at = "cleanup"
    /\ progress' = progress \ {reclaim.p}
    /\ finalized' = finalized \ {reclaim.p}
    /\ reclaim' = [reclaim EXCEPT !.at = "idle", !.p = NoPrompt]
    /\ UNCHANGED << eventIDs, bot, turns, terminals, pending, tick, ctlPump,
                    controls, card, answers, unpatched, job, link, used >>

ReclaimStep == \/ \E p \in Prompts : InvalidateTurnCard(p)
               \/ ReclaimMark \/ ReclaimCleanup

-----------------------------------------------------------------------------
(* The debouncer's ticker: flushCtx swaps the batch under the lock, then sends
   it without the lock *)

\* UpdateCard with a progress frame: shown, or lost for good.
SendFrame(p) == card' \in {card, [card EXCEPT ![p] = "progress"]}

TickSwap ==
    /\ tick = {}
    /\ pending # {}
    /\ tick' = pending
    /\ pending' = {}
    /\ UNCHANGED << eventIDs, bot, turns, terminals, progress, finalized, ctlPump,
                    reclaim, controls, card, answers, unpatched, job, link, used >>

TickSend(p) ==
    /\ p \in tick
    /\ tick' = tick \ {p}
    /\ SendFrame(p)
    /\ UNCHANGED << eventIDs, bot, turns, terminals, progress, finalized, pending,
                    ctlPump, reclaim, controls, answers, unpatched, job, link, used >>

TickStep == TickSwap \/ \E p \in Prompts : TickSend(p)

-----------------------------------------------------------------------------
(* The control pump: updateProgress *)

Next(kind) == controls # << >> /\ Head(controls).kind = kind

\* Fault: the turn is not looked up.
PumpProgressAlways ==
    /\ ctlPump.at = "idle"
    /\ Next("progress")
    /\ controls' = Tail(controls)
    /\ ctlPump' = [ctlPump EXCEPT !.at = "state", !.p = Head(controls).p]
    /\ UNCHANGED << pumpOnly, turns, terminals, progress, finalized, pending,
                    card, answers, unpatched >>

\* turns.Get: a frame of a finished turn is dropped.
PumpProgress ==
    LET p == Head(controls).p IN
    /\ ctlPump.at = "idle"
    /\ Next("progress")
    /\ controls' = Tail(controls)
    /\ ctlPump' = IF p \in turns
                  THEN [ctlPump EXCEPT !.at = "state", !.p = p] ELSE ctlPump
    /\ UNCHANGED << pumpOnly, turns, terminals, progress, finalized, pending,
                    card, answers, unpatched >>

\* The progress state is created or updated ...
PumpUpdateState ==
    /\ ctlPump.at = "state"
    /\ progress' = progress \cup {ctlPump.p}
    /\ ctlPump' = [ctlPump EXCEPT !.at = "check"]
    /\ UNCHANGED << pumpOnly, controls, turns, terminals, finalized, pending,
                    card, answers, unpatched >>

\* ... and updateCard drops the frame of a sealed card ...
PumpCheckFinalized ==
    /\ ctlPump.at = "check"
    /\ ctlPump' = IF ctlPump.p \in finalized
                  THEN Idle ELSE [ctlPump EXCEPT !.at = "enqueue"]
    /\ UNCHANGED << pumpOnly, controls, turns, terminals, progress, finalized,
                    pending, card, answers, unpatched >>

\* ... or hands it to the debouncer, where the latest frame of a card wins.
PumpEnqueue ==
    /\ ctlPump.at = "enqueue"
    /\ pending' = pending \cup {ctlPump.p}
    /\ ctlPump' = Idle
    /\ UNCHANGED << pumpOnly, controls, turns, terminals, progress, finalized,
                    card, answers, unpatched >>

-----------------------------------------------------------------------------
(* The control pump: terminal frames *)

\* Fault: terminals are not deduplicated.
PumpTerminalAgain ==
    LET c == Head(controls) IN
    /\ ctlPump.at = "idle"
    /\ controls # << >>
    /\ c.kind # "progress"
    /\ controls' = Tail(controls)
    /\ terminals' = terminals \cup {c.p}
    /\ ctlPump' = [Idle EXCEPT !.at = IF c.kind = "patch" THEN "patch" ELSE "flush",
                            !.p = c.p, !.kind = c.kind,
                            !.hasTurn = c.p \in turns \/ c.kind = "patch"]
    /\ progress' = IF c.kind = "notice" THEN progress \ {c.p} ELSE progress
    /\ UNCHANGED << pumpOnly, turns, finalized, pending, card, answers, unpatched >>

\* The first terminal of a prompt is handled, every later one is dropped.  A
\* notice drops the progress state before it looks up the turn.
PumpTerminal ==
    LET c == Head(controls) IN
    /\ ctlPump.at = "idle"
    /\ controls # << >>
    /\ c.kind # "progress"
    /\ controls' = Tail(controls)
    /\ terminals' = terminals \cup {c.p}
    /\ IF c.p \in terminals
       THEN UNCHANGED << ctlPump, progress >>
       ELSE /\ ctlPump' = [Idle EXCEPT !.at = IF c.kind = "patch" THEN "patch" ELSE "flush",
                                    !.p = c.p, !.kind = c.kind,
                                    !.hasTurn = c.p \in turns \/ c.kind = "patch"]
            /\ progress' = IF c.kind = "notice" THEN progress \ {c.p} ELSE progress
    /\ UNCHANGED << pumpOnly, turns, finalized, pending, card, answers, unpatched >>

\* debouncer.flush in the pump's own goroutine.
PumpFlush ==
    /\ ctlPump.at = "flush"
    /\ ctlPump' = [ctlPump EXCEPT !.at = "flushing", !.batch = pending]
    /\ pending' = {}
    /\ UNCHANGED << pumpOnly, controls, turns, terminals, progress, finalized,
                    card, answers, unpatched >>

PumpFlushSend(p) ==
    /\ ctlPump.at = "flushing"
    /\ p \in ctlPump.batch
    /\ ctlPump' = [ctlPump EXCEPT !.batch = @ \ {p}]
    /\ SendFrame(p)
    /\ UNCHANGED << pumpOnly, controls, turns, terminals, progress, finalized,
                    pending, answers, unpatched >>

\* markFinalized, for the card of a turn that still exists.
PumpMark ==
    /\ ctlPump.at = "flushing"
    /\ ctlPump.batch = {}
    /\ ctlPump' = [ctlPump EXCEPT !.at = "deliver"]
    /\ finalized' = IF ctlPump.hasTurn THEN finalized \cup {ctlPump.p} ELSE finalized
    /\ UNCHANGED << pumpOnly, controls, turns, terminals, progress, pending,
                    card, answers, unpatched >>

Answered == answers' = [answers EXCEPT ![ctlPump.p] = @ + 1]

\* sendResult sends a card of its own (or plain text); sendTerminalCard writes
\* over the progress card, or sends a fresh card when that fails.  Both may
\* fail; the slots are released all the same.
PumpDeliver ==
    /\ ctlPump.at = "deliver"
    /\ ctlPump' = [ctlPump EXCEPT !.at = "finish"]
    /\ \/ UNCHANGED << card, answers >>
       \/ Answered /\ UNCHANGED card
       \/ /\ ctlPump.kind = "notice" /\ ctlPump.hasTurn
          /\ card' = [card EXCEPT ![ctlPump.p] = "terminal"]
          /\ Answered
    /\ UNCHANGED << pumpOnly, controls, turns, terminals, progress, finalized,
                    pending, unpatched >>

\* A notice with UpdateMessageID is written over the card it names, or sent
\* fresh when that card is gone.  Any other failure keeps the turn.
PumpPatch ==
    /\ ctlPump.at = "patch"
    /\ \/ /\ card' = [card EXCEPT ![ctlPump.p] = "terminal"]
          /\ Answered
          /\ ctlPump' = [ctlPump EXCEPT !.at = "finish"]
          /\ UNCHANGED unpatched
       \/ /\ Answered
          /\ ctlPump' = [ctlPump EXCEPT !.at = "finish"]
          /\ UNCHANGED << card, unpatched >>
       \/ /\ unpatched' = unpatched \cup {ctlPump.p}
          /\ ctlPump' = Idle
          /\ UNCHANGED << card, answers >>
    /\ UNCHANGED << pumpOnly, controls, turns, terminals, progress, finalized,
                    pending >>

PumpFinish ==
    /\ ctlPump.at = "finish"
    /\ turns' = turns \ {ctlPump.p}
    /\ ctlPump' = [ctlPump EXCEPT !.at = "cleanup"]
    /\ UNCHANGED << pumpOnly, controls, terminals, progress, finalized, pending,
                    card, answers, unpatched >>

\* Fault: cleanupProgress is not told the card, so its marker stays.
PumpCleanupKeepsMarker ==
    /\ ctlPump.at = "cleanup"
    /\ progress' = progress \ {ctlPump.p}
    /\ ctlPump' = Idle
    /\ UNCHANGED << pumpOnly, controls, turns, terminals, finalized, pending, card,
                    answers, unpatched >>

\* cleanupProgress
PumpCleanup ==
    /\ ctlPump.at = "cleanup"
    /\ progress' = progress \ {ctlPump.p}
    /\ finalized' = IF ctlPump.hasTurn THEN finalized \ {ctlPump.p} ELSE finalized
    /\ ctlPump' = Idle
    /\ UNCHANGED << pumpOnly, controls, turns, terminals, pending, card, answers,
                    unpatched >>

ControlPumpStep ==
    \/ PumpProgress \/ PumpUpdateState \/ PumpCheckFinalized \/ PumpEnqueue
    \/ PumpTerminal \/ PumpFlush \/ (\E p \in Prompts : PumpFlushSend(p))
    \/ PumpMark \/ PumpDeliver \/ PumpPatch \/ PumpFinish \/ PumpCleanup

-----------------------------------------------------------------------------
BotStep(p) == OfflineNotice(p) \/ SendPlaceholder(p) \/ TurnsStart(p) \/ ForwardPrompt(p)

TurnNext ==
    \/ \E p \in Prompts : \/ DispatchIncoming(p) \/ BotStep(p)
                          \/ ReceivePrompt(p) \/ EmitProgress(p) \/ EmitTerminal(p)
    \/ GoDown \/ ComeBack
    \/ ReclaimBackend \/ ReclaimStep
    \/ TickStep
    \/ ControlPumpStep

\* Goroutines run; a connected backend takes its prompts and ends every job
\* with a terminal; a debounce that is not cancelled fires.
TurnFairness ==
    /\ \A p \in Prompts : /\ WF_turnVars(BotStep(p))
                          /\ WF_turnVars(ReceivePrompt(p))
                          /\ WF_turnVars(EmitTerminal(p))
    /\ WF_turnVars(ReclaimBackend)
    /\ WF_turnVars(ReclaimStep)
    /\ WF_turnVars(TickStep)
    /\ WF_turnVars(ControlPumpStep)

TurnSpec == TurnInit /\ [][TurnNext]_turnVars
TurnFairSpec == TurnSpec /\ TurnFairness

-----------------------------------------------------------------------------
(* Properties *)

\* "the FIRST terminal of any kind wins": however often the backend repeats
\* its terminal, the chat gets at most one for a prompt.
OneTerminal == \A p \in Prompts : answers[p] <= 1

\* The prompt is over for its card: the card is final, the turn has ended and
\* no frame is on its way to the card.
Sealed(p) ==
    /\ card[p] \in {"terminal", "invalid"}
    /\ p \notin turns \cup pending \cup tick \cup ctlPump.batch
    /\ ctlPump.p = p => ctlPump.at \notin {"state", "check", "enqueue"}

\* Once over, a card stays so: nothing that happens later, a straggler frame of
\* a backend that outlived the reclaim, a repeated terminal, a redelivered
\* message or another prompt, starts a frame for it or shows progress again.
SealedCardStays ==
    [][\A p \in Prompts : Sealed(p) => Sealed(p)']_turnVars

\* "so a straggler progress frame can never overwrite the final card".
FinalCardStays ==
    [][\A p \in Prompts :
          card[p] \in {"terminal", "invalid"} => card'[p] # "progress"]_turnVars

\* No leak: once a prompt's terminal was handled, neither a turn nor a progress
\* state nor a finalized marker is left for it.  A "patch" that failed is the
\* exception (its error return keeps all three).
TerminalReleases ==
    \A p \in terminals \ unpatched :
        ctlPump.p # p /\ reclaim.p # p /\ p \notin reclaim.todo
            => p \notin turns \cup progress \cup finalized

\* A turn never stays in flight for ever (it would block every later deploy):
\* its terminal, a failed forward or the reclaim of an offline backend ends it.
TurnReleased ==
    \A p \in Prompts : p \in turns ~> p \notin turns \/ p \in unpatched
=============================================================================
