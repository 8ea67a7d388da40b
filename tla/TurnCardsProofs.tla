--------------------------- MODULE TurnCardsProofs ---------------------------
(***************************************************************************)
(* The safety of turns and progress cards, for any number of prompts,      *)
(* deliveries, frames and outages.  The invariant follows a prompt through *)
(* its life: its message goroutine knows it first (EventsKnown), then the  *)
(* TurnManager (TurnsStarted), and only after the forward the backend, the *)
(* control channel and the pump (KnownAreForwarded).  So a prompt is never *)
(* started again after its terminal, which is what the three properties    *)
(* rest on.                                                                *)
(***************************************************************************)
EXTENDS TurnCards, TLAPS

\* A message is with its goroutine exactly while its event id is known.
EventsKnown == \A p \in Prompts : bot[p] = "idle" <=> p \notin eventIDs

\* The backend, the control channel, the pump and the set of terminals know a
\* prompt only after it was forwarded.
KnownAreForwarded ==
    /\ \A p \in Prompts : job[p] # "none" \/ p \in terminals => bot[p] = "done"
    /\ \A i \in 1 .. Len(controls) : bot[controls[i].p] = "done"
    /\ ctlPump.p # NoPrompt => bot[ctlPump.p] = "done"

\* A turn begins just before the forward; the reclaim only has turns that began.
Begun == {"forward", "done"}
TurnsStarted == \A p \in turns \cup reclaim.todo : bot[p] \in Begun

\* Only a prompt whose turn began has a final card.
FinalAreStarted ==
    \A p \in Prompts : card[p] \in {"terminal", "invalid"} => bot[p] \in Begun

\* What the pump is at, and what it knows of the prompt in its hand.
Updating == {"state", "check", "enqueue"}
Answering == {"patch", "flush", "flushing", "deliver"}
Ending == Answering \cup {"finish", "cleanup"}
PumpAgrees ==
    /\ ctlPump.at \in Updating => ctlPump.p \notin terminals \ unpatched
    /\ ctlPump.at \in Ending => ctlPump.p \in terminals
    /\ ctlPump.at \in Answering => answers[ctlPump.p] = 0
    /\ ctlPump.at = "cleanup" => ctlPump.p \notin turns

\* The pump and the reclaim have a prompt in hand when they are busy.
HandsFull ==
    /\ ctlPump.at = "idle" <=> ctlPump.p = NoPrompt
    /\ reclaim.at = "idle" <=> reclaim.p = NoPrompt

\* Every finalized marker is about to be removed, by the pump or the reclaim.
MarkersOwned ==
    \A p \in finalized :
        \/ ctlPump.p = p /\ ctlPump.hasTurn /\ ctlPump.at \in {"deliver", "finish", "cleanup"}
        \/ reclaim.p = p /\ reclaim.at = "cleanup"

\* The chat got at most one terminal, and only for a prompt that had one.
AnswersCounted ==
    \A p \in Prompts : answers[p] <= 1 /\ (answers[p] # 0 => p \in terminals)

\* After its terminal, nothing is left of a prompt but what the pump holds.
Released ==
    \A p \in terminals \ unpatched : ctlPump.p # p => p \notin turns \cup progress

TurnInv ==
    /\ TurnTypeOK /\ HandsFull
    /\ EventsKnown /\ KnownAreForwarded /\ TurnsStarted /\ FinalAreStarted
    /\ PumpAgrees /\ MarkersOwned /\ AnswersCounted /\ Released

-----------------------------------------------------------------------------
(* The control channel *)

\* What Append and a repeated POST do to the channel.
LEMMA ControlsGrow ==
    ASSUME NEW s \in Seq(Control), NEW c \in Control
    PROVE  \A t \in {Append(s, c), s \o << c, c >>} :
               /\ t \in Seq(Control)
               /\ \A i \in 1 .. Len(t) : (i \in 1 .. Len(s) /\ t[i] = s[i]) \/ t[i] = c
<1> TAKE t \in {Append(s, c), s \o << c, c >>}
<1>1. CASE t = Append(s, c)
  BY <1>1
<1>2. CASE t = s \o << c, c >>
  <2>1. << c, c >> \in Seq(Control) /\ Len(<< c, c >>) = 2
    OBVIOUS
  <2>2. t \in Seq(Control) /\ Len(t) = Len(s) + 2
    BY <1>2, <2>1
  <2>3. ASSUME NEW i \in 1 .. Len(t), i \notin 1 .. Len(s)
        PROVE  t[i] = c
    <3>1. t[i] = << c, c >>[i - Len(s)]
      BY <1>2, <2>1, <2>2, <2>3
    <3>2. i - Len(s) \in {1, 2}
      BY <2>2, <2>3
    <3> QED
      BY <3>1, <3>2
  <2>4. \A i \in 1 .. Len(s) : t[i] = s[i]
    BY <1>2, <2>1, <2>2
  <2> QED
    BY <2>2, <2>3, <2>4
<1> QED
  BY <1>1, <1>2

\* What the pump's receive does to it.
LEMMA ControlsShrink ==
    ASSUME NEW s \in Seq(Control), s # << >>
    PROVE  /\ Head(s) \in Control /\ Head(s) = s[1] /\ 1 \in 1 .. Len(s)
           /\ Tail(s) \in Seq(Control)
           /\ \A i \in 1 .. Len(Tail(s)) : i + 1 \in 1 .. Len(s) /\ Tail(s)[i] = s[i + 1]
OBVIOUS

-----------------------------------------------------------------------------
(* Types *)

\* The counters behind the bounds, one field at a time.
LEMMA CountsTypes ==
    ASSUME NEW u \in Counts, NEW f \in [Prompts -> Nat], NEW n \in Nat
    PROVE  /\ [u EXCEPT !.deliveries = f] \in Counts
           /\ [u EXCEPT !.frames = f] \in Counts
           /\ [u EXCEPT !.outages = n] \in Counts
           /\ [u EXCEPT !.quick = n] \in Counts
BY DEF Counts

\* The fields of the counters.
LEMMA CountsFields ==
    ASSUME NEW u \in Counts
    PROVE  /\ u.deliveries \in [Prompts -> Nat] /\ u.frames \in [Prompts -> Nat]
           /\ u.outages + 1 \in Nat /\ u.quick + 1 \in Nat
BY DEF Counts

\* Types: a message goroutine.
LEMMA BotTypes ==
    ASSUME TurnTypeOK, NEW p \in Prompts, DispatchIncoming(p) \/ BotStep(p)
    PROVE  TurnTypeOK'
<1> USE DEF TurnTypeOK, BotState, cardState
<1>1. CASE DispatchIncoming(p)
  <2>1. used' \in Counts
    <3> DEFINE f == [used.deliveries EXCEPT ![p] = @ + 1]
    <3>1. used' = [used EXCEPT !.deliveries = f] /\ used \in Counts
      BY <1>1 DEF DispatchIncoming
    <3>2. f \in [Prompts -> Nat]
      BY <3>1, CountsFields
    <3> HIDE DEF f
    <3> QED
      BY <3>1, <3>2, CountsTypes, 0 \in Nat
  <2>2. bot' \in [Prompts -> BotState] /\ eventIDs' \subseteq Prompts
    BY <1>1 DEF DispatchIncoming
  <2> QED
    BY <1>1, <2>1, <2>2 DEF DispatchIncoming
<1>2. CASE OfflineNotice(p)
  BY <1>2 DEF OfflineNotice
<1>3. CASE SendPlaceholder(p)
  <2>1. bot' \in [Prompts -> BotState] /\ eventIDs' \subseteq Prompts
    BY <1>3 DEF SendPlaceholder
  <2>2. card' \in [Prompts -> {"none", "starting", "progress", "terminal", "invalid"}]
    BY <1>3 DEF SendPlaceholder
  <2> QED
    BY <1>3, <2>1, <2>2 DEF SendPlaceholder
<1>4. CASE TurnsStart(p)
  BY <1>4 DEF TurnsStart
<1>5. CASE ForwardPrompt(p)
  <2>1. bot' \in [Prompts -> BotState] /\ turns' \subseteq Prompts
    BY <1>5 DEF ForwardPrompt
  <2>2. job' \in [Prompts -> JobState]
    BY <1>5 DEF ForwardPrompt, JobState
  <2> QED
    BY <1>5, <2>1, <2>2 DEF ForwardPrompt
<1> QED
  BY <1>1, <1>2, <1>3, <1>4, <1>5 DEF BotStep

\* Types: the backend.
LEMMA BackendTypes ==
    ASSUME TurnTypeOK, NEW p \in Prompts,
           ReceivePrompt(p) \/ EmitProgress(p) \/ EmitTerminal(p)
    PROVE  TurnTypeOK'
<1> USE DEF TurnTypeOK, cardState
<1>1. CASE ReceivePrompt(p)
  BY <1>1 DEF ReceivePrompt, JobState
<1>2. CASE EmitProgress(p)
  <2>1. [p |-> p, kind |-> "progress"] \in Control
    BY DEF Control
  <2>2. controls' \in Seq(Control)
    BY <1>2, <2>1, ControlsGrow DEF EmitProgress
  <2>3. used' \in Counts
    <3> DEFINE f == [used.frames EXCEPT ![p] = @ + 1]
    <3>1. used' = [used EXCEPT !.frames = f] /\ used \in Counts
      BY <1>2 DEF EmitProgress
    <3>2. f \in [Prompts -> Nat]
      BY <3>1, CountsFields
    <3> HIDE DEF f
    <3> QED
      BY <3>1, <3>2, CountsTypes, 0 \in Nat
  <2> QED
    BY <1>2, <2>2, <2>3 DEF EmitProgress
<1>3. CASE EmitTerminal(p)
  <2>1. \A k \in Kinds : [p |-> p, kind |-> k] \in Control
    BY DEF Control
  <2>2. controls' \in Seq(Control)
    <3>1. PICK k \in Kinds :
              LET c == [p |-> p, kind |-> k] IN
              controls' \in {Append(controls, c), controls \o << c, c >>}
      BY <1>3 DEF EmitTerminal
    <3> DEFINE c == [p |-> p, kind |-> k]
    <3>2. c \in Control /\ controls' \in {Append(controls, c), controls \o << c, c >>}
      BY <2>1, <3>1
    <3> HIDE DEF c
    <3>3. controls \in Seq(Control)
      OBVIOUS
    <3>4. Append(controls, c) \in Seq(Control)
      BY ONLY <3>2, <3>3
    <3>5. << c, c >> \in Seq(Control)
      BY ONLY <3>2
    <3>6. controls \o << c, c >> \in Seq(Control)
      BY ONLY <3>3, <3>5
    <3> QED
      BY ONLY <3>2, <3>4, <3>6
  <2>3. job' \in [Prompts -> JobState]
    BY <1>3 DEF EmitTerminal, JobState
  <2> QED
    BY <1>3, <2>2, <2>3 DEF EmitTerminal
<1> QED
  BY <1>1, <1>2, <1>3

\* Types: the connection.
LEMMA LinkTypes ==
    ASSUME TurnTypeOK, GoDown \/ ComeBack
    PROVE  TurnTypeOK'
<1>1. used \in Counts /\ used.outages + 1 \in Nat /\ used.quick + 1 \in Nat
  BY CountsFields DEF TurnTypeOK
<1>2. CASE GoDown
  <2>1. job' \in [Prompts -> JobState]
    BY <1>2 DEF GoDown, JobState, TurnTypeOK
  <2>2. used' = [used EXCEPT !.outages = used.outages + 1]
    BY <1>2 DEF GoDown
  <2>3. used' \in Counts
    <3>1. [used EXCEPT !.outages = used.outages + 1] \in Counts
      BY <1>1 DEF Counts
    <3> QED BY <2>2, <3>1
  <2> QED
    BY <1>2, <2>1, <2>3 DEF GoDown, TurnTypeOK, cardState
<1>3. CASE ComeBack
  <2>1. UNCHANGED used \/ used' = [used EXCEPT !.quick = used.quick + 1]
    BY <1>3 DEF ComeBack
  <2>2. used' \in Counts
    <3>1. [used EXCEPT !.quick = used.quick + 1] \in Counts
      BY <1>1 DEF Counts
    <3> QED BY <1>1, <2>1, <3>1
  <2> QED
    BY <1>3, <2>2 DEF ComeBack, TurnTypeOK, cardState
<1> QED
  BY <1>2, <1>3

\* Types: the reclaim.
LEMMA ReclaimTypes ==
    ASSUME TurnTypeOK, HandsFull, ReclaimBackend \/ ReclaimStep
    PROVE  TurnTypeOK' /\ HandsFull'
<1> USE DEF TurnTypeOK, ReclaimState
<1>1. CASE ReclaimBackend
  <2>1. reclaim' \in ReclaimState /\ HandsFull'
    BY <1>1 DEF ReclaimBackend, HandsFull
  <2> QED
    BY <1>1, <2>1 DEF ReclaimBackend
<1>2. ASSUME NEW p \in Prompts, InvalidateTurnCard(p)
      PROVE  TurnTypeOK' /\ HandsFull'
  <2>1. card' \in [Prompts -> {"none", "starting", "progress", "terminal", "invalid"}]
    BY <1>2 DEF InvalidateTurnCard
  <2>2. reclaim' \in ReclaimState /\ HandsFull'
    BY <1>2, TurnAssumption DEF InvalidateTurnCard, HandsFull
  <2> QED
    BY <1>2, <2>1, <2>2 DEF InvalidateTurnCard
<1>3. CASE ReclaimMark
  <2>1. reclaim' \in ReclaimState /\ HandsFull' /\ finalized' \subseteq Prompts
    BY <1>3 DEF ReclaimMark, HandsFull
  <2> QED
    BY <1>3, <2>1 DEF ReclaimMark
<1>4. CASE ReclaimCleanup
  <2>1. reclaim' \in ReclaimState /\ HandsFull'
    BY <1>4 DEF ReclaimCleanup, HandsFull
  <2> QED
    BY <1>4, <2>1 DEF ReclaimCleanup
<1> QED
  BY <1>1, <1>2, <1>3, <1>4 DEF ReclaimStep

\* Types: the debouncer's ticker.
LEMMA TickTypes ==
    ASSUME TurnTypeOK, TickStep
    PROVE  TurnTypeOK'
<1> USE DEF TurnTypeOK
<1>1. CASE TickSwap
  BY <1>1 DEF TickSwap
<1>2. ASSUME NEW p \in Prompts, TickSend(p)
      PROVE  TurnTypeOK'
  <2>1. card' \in [Prompts -> {"none", "starting", "progress", "terminal", "invalid"}]
    BY <1>2 DEF TickSend, SendFrame
  <2> QED
    BY <1>2, <2>1 DEF TickSend
<1> QED
  BY <1>1, <1>2 DEF TickStep

\* The terminal the pump takes is in its hand, with nothing of the one before.
LEMMA TerminalInHand ==
    ASSUME PumpTerminal, Head(controls).p \notin terminals, Head(controls) \in Control
    PROVE  /\ ctlPump' \in PumpState
           /\ ctlPump'.at \in {"patch", "flush"} /\ ctlPump'.p = Head(controls).p
           /\ ctlPump'.p \in Prompts /\ ctlPump'.batch = {}
<1> DEFINE c == Head(controls)
           at == IF c.kind = "patch" THEN "patch" ELSE "flush"
           known == c.p \in turns \/ c.kind = "patch"
<1>1. ctlPump' = [Idle EXCEPT !.at = at, !.p = c.p, !.kind = c.kind, !.hasTurn = known]
  BY Zenon DEF PumpTerminal
<1>2. at \in {"patch", "flush"} /\ known \in BOOLEAN
  OBVIOUS
<1>3. c.p \in Prompts /\ c.kind \in {"progress"} \cup Kinds
  BY DEF Control
<1>4. Idle \in PumpState /\ Idle.batch = {}
  BY DEF Idle, PumpState
<1> DEFINE new == [Idle EXCEPT !.at = at, !.p = c.p, !.kind = c.kind, !.hasTurn = known]
<1> HIDE DEF c, at, known
<1>5. new \in PumpState /\ new.at = at /\ new.p = c.p /\ new.batch = {}
  BY <1>2, <1>3, <1>4 DEF PumpState
<1>6. /\ ctlPump' \in PumpState
      /\ ctlPump'.at = at /\ ctlPump'.p = c.p /\ ctlPump'.batch = {}
  BY ONLY <1>1, <1>5 DEF new
<1> QED
  BY <1>2, <1>3, <1>6 DEF c

\* Types: the control pump.
LEMMA PumpTypes ==
    ASSUME TurnTypeOK, HandsFull, ControlPumpStep
    PROVE  TurnTypeOK' /\ HandsFull'
<1> USE DEF TurnTypeOK, pumpOnly
<1>0. Idle \in PumpState
  BY DEF PumpState, Idle
<1>1. CASE PumpProgress
  <2>1. Head(controls) \in Control /\ controls' \in Seq(Control)
    BY <1>1, ControlsShrink DEF PumpProgress, Next
  <2>2. ctlPump' \in PumpState /\ HandsFull'
    BY <1>1, <2>1, TurnAssumption DEF PumpProgress, PumpState, HandsFull, Control
  <2> QED
    BY <1>1, <2>1, <2>2 DEF PumpProgress
<1>2. CASE PumpUpdateState
  <2>1. ctlPump' \in PumpState /\ HandsFull' /\ progress' \subseteq Prompts
    BY <1>2 DEF PumpUpdateState, PumpState, HandsFull
  <2> QED
    BY <1>2, <2>1 DEF PumpUpdateState
<1>3. CASE PumpCheckFinalized
  <2>1. ctlPump' \in PumpState /\ HandsFull'
    BY <1>0, <1>3 DEF PumpCheckFinalized, PumpState, HandsFull, Idle
  <2> QED
    BY <1>3, <2>1 DEF PumpCheckFinalized
<1>4. CASE PumpEnqueue
  <2>1. ctlPump' \in PumpState /\ HandsFull' /\ pending' \subseteq Prompts
    BY <1>0, <1>4 DEF PumpEnqueue, PumpState, HandsFull, Idle
  <2> QED
    BY <1>4, <2>1 DEF PumpEnqueue
<1>5. CASE PumpTerminal
  <2>1. Head(controls) \in Control /\ controls' \in Seq(Control)
    BY <1>5, ControlsShrink DEF PumpTerminal
  <2>2. terminals' \subseteq Prompts /\ progress' \subseteq Prompts
    BY <1>5, <2>1 DEF PumpTerminal, Control
  <2>3. CASE Head(controls).p \in terminals
    BY <1>5, <2>1, <2>2, <2>3 DEF PumpTerminal, HandsFull
  <2>4. CASE Head(controls).p \notin terminals
    <3>1. ctlPump' \in PumpState /\ HandsFull'
      BY <1>5, <2>1, <2>4, TerminalInHand, TurnAssumption DEF HandsFull, PumpTerminal
    <3> QED
      BY <1>5, <2>1, <2>2, <3>1 DEF PumpTerminal
  <2> QED
    BY <2>3, <2>4
<1>6. CASE PumpFlush
  <2>1. ctlPump' \in PumpState /\ HandsFull'
    BY <1>6 DEF PumpFlush, PumpState, HandsFull
  <2> QED
    BY <1>6, <2>1 DEF PumpFlush
<1>7. ASSUME NEW p \in Prompts, PumpFlushSend(p)
      PROVE  TurnTypeOK' /\ HandsFull'
  <2>1. ctlPump' \in PumpState /\ HandsFull'
    BY <1>7 DEF PumpFlushSend, PumpState, HandsFull
  <2>2. card' \in [Prompts -> {"none", "starting", "progress", "terminal", "invalid"}]
    BY <1>7 DEF PumpFlushSend, SendFrame
  <2> QED
    BY <1>7, <2>1, <2>2 DEF PumpFlushSend
<1>8. CASE PumpMark
  <2>1. ctlPump' \in PumpState /\ HandsFull' /\ finalized' \subseteq Prompts
    BY <1>8 DEF PumpMark, PumpState, HandsFull
  <2> QED
    BY <1>8, <2>1 DEF PumpMark
<1>9. CASE PumpDeliver
  <2>1. ctlPump' \in PumpState /\ HandsFull' /\ ctlPump.p \in Prompts
    BY <1>9 DEF PumpDeliver, PumpState, HandsFull
  <2>2. card' \in [Prompts -> {"none", "starting", "progress", "terminal", "invalid"}]
    BY <1>9, <2>1 DEF PumpDeliver
  <2>3. answers' \in [Prompts -> Nat]
    BY <1>9, <2>1 DEF PumpDeliver, Answered
  <2> QED
    BY <1>9, <2>1, <2>2, <2>3 DEF PumpDeliver
<1>10. CASE PumpPatch
  <2>0. ctlPump' \in {Idle, [ctlPump EXCEPT !.at = "finish"]} /\ reclaim' = reclaim
    BY <1>10 DEF PumpPatch
  <2>1. ctlPump' \in PumpState /\ HandsFull' /\ ctlPump.p \in Prompts
    <3>1. ctlPump.p \in Prompts /\ ctlPump.p # NoPrompt
      BY <1>10 DEF PumpPatch, PumpState, HandsFull
    <3>2. CASE ctlPump' = Idle
      BY <1>0, <2>0, <3>1, <3>2 DEF HandsFull, Idle
    <3>3. CASE ctlPump' = [ctlPump EXCEPT !.at = "finish"]
      BY <2>0, <3>1, <3>3 DEF PumpState, HandsFull
    <3> QED
      BY <2>0, <3>1, <3>2, <3>3
  <2>2. card' \in [Prompts -> {"none", "starting", "progress", "terminal", "invalid"}]
    BY <1>10, <2>1 DEF PumpPatch
  <2>3. answers' \in [Prompts -> Nat] /\ unpatched' \subseteq Prompts
    BY <1>10, <2>1 DEF PumpPatch, Answered
  <2> QED
    BY <1>10, <2>1, <2>2, <2>3 DEF PumpPatch
<1>11. CASE PumpFinish
  <2>1. ctlPump' \in PumpState /\ HandsFull'
    BY <1>11 DEF PumpFinish, PumpState, HandsFull
  <2> QED
    BY <1>11, <2>1 DEF PumpFinish
<1>12. CASE PumpCleanup
  <2>1. ctlPump' \in PumpState /\ HandsFull'
    BY <1>0, <1>12 DEF PumpCleanup, HandsFull, Idle
  <2> QED
    BY <1>12, <2>1 DEF PumpCleanup
<1> QED
  BY <1>1, <1>2, <1>3, <1>4, <1>5, <1>6, <1>7, <1>8, <1>9, <1>10, <1>11, <1>12
     DEF ControlPumpStep

\* The type invariant is inductive together with HandsFull.
LEMMA TypesKept ==
    ASSUME TurnTypeOK, HandsFull, [TurnNext]_turnVars
    PROVE  TurnTypeOK' /\ HandsFull'
<1>1. CASE UNCHANGED turnVars
  BY <1>1 DEF turnVars, TurnTypeOK, HandsFull
<1>2. ASSUME NEW p \in Prompts, DispatchIncoming(p) \/ BotStep(p)
      PROVE  TurnTypeOK' /\ HandsFull'
  BY <1>2, BotTypes DEF BotStep, DispatchIncoming, OfflineNotice, SendPlaceholder,
     TurnsStart, ForwardPrompt, HandsFull, cardState
<1>3. ASSUME NEW p \in Prompts,
             ReceivePrompt(p) \/ EmitProgress(p) \/ EmitTerminal(p)
      PROVE  TurnTypeOK' /\ HandsFull'
  BY <1>3, BackendTypes DEF ReceivePrompt, EmitProgress, EmitTerminal, HandsFull, cardState
<1>4. CASE GoDown \/ ComeBack
  <2>1. HandsFull'
    BY <1>4 DEF GoDown, ComeBack, HandsFull, cardState
  <2> QED
    BY <1>4, <2>1, LinkTypes
<1>5. CASE ReclaimBackend \/ ReclaimStep
  BY <1>5, ReclaimTypes
<1>6. CASE TickStep
  BY <1>6, TickTypes DEF TickStep, TickSwap, TickSend, HandsFull
<1>7. CASE ControlPumpStep
  BY <1>7, PumpTypes
<1> QED
  BY <1>1, <1>2, <1>3, <1>4, <1>5, <1>6, <1>7 DEF TurnNext

-----------------------------------------------------------------------------
(* The life of a prompt *)

\* A message goroutine only moves forward once its turn began, and a message
\* whose event id is known is not taken again.
LEMMA BotAdvances ==
    ASSUME TurnTypeOK, EventsKnown, [TurnNext]_turnVars
    PROVE  /\ EventsKnown'
           /\ \A q \in Prompts : bot[q] = "done" => bot'[q] = "done"
           /\ \A q \in Prompts : bot[q] \in Begun => bot'[q] \in Begun
<1> DEFINE Goal == /\ EventsKnown'
                   /\ \A q \in Prompts : bot[q] = "done" => bot'[q] = "done"
                   /\ \A q \in Prompts : bot[q] \in Begun => bot'[q] \in Begun
<1> SUFFICES Goal
  OBVIOUS
<1> USE DEF TurnTypeOK, EventsKnown, Begun
<1>1. ASSUME NEW p \in Prompts, DispatchIncoming(p) PROVE Goal
  BY <1>1 DEF DispatchIncoming
<1>2. ASSUME NEW p \in Prompts, OfflineNotice(p) PROVE Goal
  BY <1>2 DEF OfflineNotice
<1>3. ASSUME NEW p \in Prompts, SendPlaceholder(p) PROVE Goal
  BY <1>3 DEF SendPlaceholder
<1>4. ASSUME NEW p \in Prompts, TurnsStart(p) PROVE Goal
  BY <1>4 DEF TurnsStart
<1>5. ASSUME NEW p \in Prompts, ForwardPrompt(p) PROVE Goal
  BY <1>5 DEF ForwardPrompt
<1>6. CASE UNCHANGED << bot, eventIDs >>
  BY <1>6
<1> HIDE DEF Goal, TurnTypeOK, EventsKnown
<1>7. CASE ReclaimBackend \/ ReclaimStep \/ TickStep \/ GoDown \/ ComeBack
  BY <1>6, <1>7 DEF ReclaimBackend, ReclaimStep, InvalidateTurnCard, ReclaimMark,
     ReclaimCleanup, TickStep, TickSwap, TickSend, GoDown, ComeBack
<1>8. CASE ControlPumpStep
  BY <1>6, <1>8 DEF ControlPumpStep, PumpProgress, PumpUpdateState, PumpCheckFinalized,
     PumpEnqueue, PumpTerminal, PumpFlush, PumpFlushSend, PumpMark, PumpDeliver,
     PumpPatch, PumpFinish, PumpCleanup, pumpOnly
<1>9. ASSUME NEW p \in Prompts, ReceivePrompt(p) \/ EmitProgress(p) \/ EmitTerminal(p)
      PROVE  Goal
  BY <1>6, <1>9 DEF ReceivePrompt, EmitProgress, EmitTerminal
<1>10. CASE UNCHANGED turnVars
  BY <1>6, <1>10 DEF turnVars
<1> QED
  BY <1>1, <1>2, <1>3, <1>4, <1>5, <1>7, <1>8, <1>9, <1>10 DEF TurnNext, BotStep

\* What a step of the pump does to the prompt in its hand: it takes the one of
\* the next control, keeps the one it has or is done with it.
LEMMA PumpHand ==
    ASSUME TurnTypeOK, ControlPumpStep
    PROVE  \/ /\ controls # << >> /\ controls' = Tail(controls)
              /\ ctlPump'.p \in {ctlPump.p, Head(controls).p}
              /\ terminals' \subseteq terminals \cup {Head(controls).p}
           \/ UNCHANGED << controls, terminals >> /\ ctlPump'.p \in {ctlPump.p, NoPrompt}
<1>0. ctlPump \in PumpState /\ Idle.p = NoPrompt
  BY DEF TurnTypeOK, Idle
<1>1. CASE PumpProgress
  BY <1>0, <1>1 DEF PumpProgress, PumpState, Next
<1>2. CASE PumpTerminal
  <2>1. controls # << >> /\ controls' = Tail(controls)
        /\ terminals' = terminals \cup {Head(controls).p}
    BY <1>2 DEF PumpTerminal
  <2>2. CASE Head(controls).p \in terminals
    BY <1>2, <2>1, <2>2 DEF PumpTerminal
  <2>3. CASE Head(controls).p \notin terminals
    <3>1. ctlPump'.p = Head(controls).p
      BY <1>2, <2>1, <2>3, ControlsShrink, TerminalInHand DEF TurnTypeOK
    <3> QED
      BY <2>1, <3>1
  <2> QED
    BY <2>2, <2>3
<1>3. CASE PumpUpdateState \/ PumpFlush \/ PumpMark \/ PumpFinish
  BY <1>0, <1>3 DEF PumpState, PumpUpdateState, PumpFlush, PumpMark, PumpFinish
<1>4. CASE PumpCheckFinalized \/ PumpEnqueue \/ PumpCleanup
  BY <1>0, <1>4 DEF PumpState, PumpCheckFinalized, PumpEnqueue, PumpCleanup
<1>5. ASSUME NEW p \in Prompts, PumpFlushSend(p)
      PROVE  UNCHANGED << controls, terminals >> /\ ctlPump'.p = ctlPump.p
  BY <1>0, <1>5 DEF PumpState, PumpFlushSend
<1>6. CASE PumpDeliver
  BY <1>0, <1>6 DEF PumpState, PumpDeliver
<1>7. CASE PumpPatch
  BY <1>0, <1>7 DEF PumpState, PumpPatch
<1> QED
  BY <1>1, <1>2, <1>3, <1>4, <1>5, <1>6, <1>7 DEF ControlPumpStep

\* KnownAreForwarded: what is in the channel and in the hands of the pump.
LEMMA KnownKept ==
    ASSUME TurnTypeOK, TurnTypeOK', EventsKnown, KnownAreForwarded, [TurnNext]_turnVars
    PROVE  KnownAreForwarded'
<1> DEFINE InChannel == \A i \in 1 .. Len(controls) : bot[controls[i].p] = "done"
<1>0. \A q \in Prompts : bot[q] = "done" => bot'[q] = "done"
  BY BotAdvances
<1>1. InChannel /\ \A i \in 1 .. Len(controls) : controls[i].p \in Prompts
  <2>1. \A i \in 1 .. Len(controls) : controls[i] \in Control
    BY DEF TurnTypeOK
  <2> QED
    BY <2>1 DEF KnownAreForwarded, Control
<1>2. ASSUME UNCHANGED controls PROVE InChannel'
  BY <1>0, <1>1, <1>2
<1>3. ASSUME UNCHANGED << job, terminals >>
      PROVE  \A q \in Prompts : job'[q] # "none" \/ q \in terminals' => bot'[q] = "done"
  BY <1>0, <1>3 DEF KnownAreForwarded
<1>4. ASSUME ctlPump'.p \in {ctlPump.p, NoPrompt}
      PROVE  ctlPump'.p # NoPrompt => bot'[ctlPump'.p] = "done"
  <2>1. ctlPump.p \in Prompts \cup {NoPrompt}
    BY DEF TurnTypeOK, PumpState
  <2> QED
    BY <1>0, <1>4, <2>1 DEF KnownAreForwarded
<1>5. ASSUME UNCHANGED << controls, job, terminals >>, ctlPump'.p \in {ctlPump.p, NoPrompt}
      PROVE  KnownAreForwarded'
  BY <1>2, <1>3, <1>4, <1>5 DEF KnownAreForwarded
<1>6. ASSUME NEW p \in Prompts,
             DispatchIncoming(p) \/ OfflineNotice(p) \/ SendPlaceholder(p) \/ TurnsStart(p)
      PROVE  KnownAreForwarded'
  BY <1>5, <1>6 DEF DispatchIncoming, OfflineNotice, SendPlaceholder, TurnsStart, cardState
<1>7. ASSUME NEW p \in Prompts, ForwardPrompt(p)
      PROVE  KnownAreForwarded'
  <2>1. UNCHANGED << controls, ctlPump, terminals >> /\ bot'[p] = "done"
    BY <1>7 DEF ForwardPrompt, TurnTypeOK
  <2>2. \A q \in Prompts : q # p => job'[q] = job[q]
    BY <1>7 DEF ForwardPrompt, TurnTypeOK
  <2> QED
    BY <1>0, <1>2, <1>4, <2>1, <2>2 DEF KnownAreForwarded
<1>8. ASSUME NEW p \in Prompts, ReceivePrompt(p) \/ EmitProgress(p) \/ EmitTerminal(p)
      PROVE  KnownAreForwarded'
  <2>1. UNCHANGED << ctlPump, terminals, bot >> /\ bot[p] = "done"
    BY <1>8 DEF ReceivePrompt, EmitProgress, EmitTerminal, cardState, KnownAreForwarded
  <2>2. \A q \in Prompts : q # p => job'[q] = job[q]
    BY <1>8 DEF ReceivePrompt, EmitProgress, EmitTerminal, TurnTypeOK
  <2>3. InChannel'
    <3>1. CASE ReceivePrompt(p)
      BY <1>2, <3>1 DEF ReceivePrompt
    <3>2. CASE EmitProgress(p) \/ EmitTerminal(p)
      <4>1. PICK c \in Control :
               c.p = p /\ controls' \in {Append(controls, c), controls \o << c, c >>}
        BY <3>2 DEF EmitProgress, EmitTerminal, Control
      <4>2. \A i \in 1 .. Len(controls') :
               (i \in 1 .. Len(controls) /\ controls'[i] = controls[i]) \/ controls'[i] = c
        <5>1. controls \in Seq(Control)
          BY DEF TurnTypeOK
        <5> QED
          BY ONLY <4>1, <5>1, ControlsGrow
      <4> QED
        BY <1>1, <2>1, <4>1, <4>2
    <3> QED
      BY <1>8, <3>1, <3>2
  <2> QED
    BY <1>4, <2>1, <2>2, <2>3 DEF KnownAreForwarded
<1>9. CASE GoDown \/ ComeBack
  <2>1. \A q \in Prompts : job'[q] # "none" => job[q] # "none"
    BY <1>9 DEF GoDown, ComeBack, TurnTypeOK
  <2>2. UNCHANGED << controls, ctlPump, terminals >>
    BY <1>9 DEF GoDown, ComeBack, cardState
  <2> QED
    BY <1>0, <1>2, <1>4, <2>1, <2>2 DEF KnownAreForwarded
<1>10. CASE ReclaimBackend \/ ReclaimStep \/ TickStep \/ UNCHANGED turnVars
  BY <1>5, <1>10 DEF ReclaimBackend, ReclaimStep, InvalidateTurnCard, ReclaimMark,
     ReclaimCleanup, TickStep, TickSwap, TickSend, turnVars
<1>11. CASE ControlPumpStep
  <2>1. UNCHANGED << job, bot >>
    BY <1>11 DEF ControlPumpStep, PumpProgress, PumpUpdateState, PumpCheckFinalized,
       PumpEnqueue, PumpTerminal, PumpFlush, PumpFlushSend, PumpMark, PumpDeliver,
       PumpPatch, PumpFinish, PumpCleanup, pumpOnly
  <2>2. CASE UNCHANGED << controls, terminals >> /\ ctlPump'.p \in {ctlPump.p, NoPrompt}
    BY <1>5, <2>1, <2>2
  <2>3. CASE /\ controls # << >> /\ controls' = Tail(controls)
             /\ ctlPump'.p \in {ctlPump.p, Head(controls).p}
             /\ terminals' \subseteq terminals \cup {Head(controls).p}
    <3>1. /\ Head(controls) = controls[1] /\ 1 \in 1 .. Len(controls)
          /\ \A i \in 1 .. Len(controls') :
                 i + 1 \in 1 .. Len(controls) /\ controls'[i] = controls[i + 1]
      BY <2>3, ControlsShrink DEF TurnTypeOK
    <3>2. bot[Head(controls).p] = "done"
      BY <1>1, <3>1
    <3> QED
      BY <1>1, <2>1, <2>3, <3>1, <3>2 DEF KnownAreForwarded
  <2> QED
    BY <1>11, <2>2, <2>3, PumpHand
<1> QED
  BY <1>6, <1>7, <1>8, <1>9, <1>10, <1>11 DEF TurnNext, BotStep

\* TurnsStarted: only TurnsStart adds a turn, and a turn moves to the reclaim.
LEMMA TurnsKept ==
    ASSUME TurnTypeOK, EventsKnown, TurnsStarted, [TurnNext]_turnVars
    PROVE  TurnsStarted'
<1>0. \A q \in Prompts : bot[q] \in Begun => bot'[q] \in Begun
  BY BotAdvances
<1>1. ASSUME turns' \cup reclaim'.todo \subseteq turns \cup reclaim.todo
      PROVE  TurnsStarted'
  BY <1>0, <1>1 DEF TurnsStarted, TurnTypeOK, ReclaimState
<1>2. ASSUME NEW p \in Prompts, TurnsStart(p)
      PROVE  TurnsStarted'
  BY <1>0, <1>2 DEF TurnsStart, TurnsStarted, TurnTypeOK, ReclaimState, Begun
<1>3. ASSUME NEW p \in Prompts,
             DispatchIncoming(p) \/ OfflineNotice(p) \/ SendPlaceholder(p) \/ ForwardPrompt(p)
      PROVE  TurnsStarted'
  BY <1>1, <1>3 DEF DispatchIncoming, OfflineNotice, SendPlaceholder, ForwardPrompt, cardState
<1>4. ASSUME NEW p \in Prompts, ReceivePrompt(p) \/ EmitProgress(p) \/ EmitTerminal(p)
      PROVE  TurnsStarted'
  BY <1>1, <1>4 DEF ReceivePrompt, EmitProgress, EmitTerminal, cardState
<1>5. CASE GoDown \/ ComeBack \/ TickStep \/ UNCHANGED turnVars
  BY <1>1, <1>5 DEF GoDown, ComeBack, TickStep, TickSwap, TickSend, cardState, turnVars
<1>6. CASE ReclaimBackend
  BY <1>1, <1>6 DEF ReclaimBackend, TurnTypeOK, ReclaimState
<1>7. CASE ReclaimStep
  <2>1. turns' = turns /\ reclaim'.todo \subseteq reclaim.todo
    <3>1. ASSUME NEW p \in Prompts, InvalidateTurnCard(p)
          PROVE  turns' = turns /\ reclaim'.todo \subseteq reclaim.todo
      BY <3>1 DEF InvalidateTurnCard
    <3>2. CASE ReclaimMark \/ ReclaimCleanup
      BY <3>2 DEF ReclaimMark, ReclaimCleanup, TurnTypeOK, ReclaimState
    <3> QED
      BY <1>7, <3>1, <3>2 DEF ReclaimStep
  <2> QED
    BY <1>1, <2>1
<1>8. CASE ControlPumpStep
  BY <1>1, <1>8 DEF ControlPumpStep, PumpProgress, PumpUpdateState, PumpCheckFinalized,
     PumpEnqueue, PumpTerminal, PumpFlush, PumpFlushSend, PumpMark, PumpDeliver,
     PumpPatch, PumpFinish, PumpCleanup, pumpOnly
<1> QED
  BY <1>2, <1>3, <1>4, <1>5, <1>6, <1>7, <1>8 DEF TurnNext, BotStep

\* Which step makes the card of a prompt final: the pump's, for the prompt in
\* its hand, or the reclaim's.
LEMMA CardsChange ==
    ASSUME TurnTypeOK, [TurnNext]_turnVars, NEW q \in Prompts,
           card'[q] \in {"terminal", "invalid"}, card[q] \notin {"terminal", "invalid"}
    PROVE  q = ctlPump.p \/ q \in reclaim.todo
<1> USE DEF TurnTypeOK
<1>1. CASE UNCHANGED card
  BY <1>1
<1>2. ASSUME NEW p \in Prompts, SendPlaceholder(p)
      PROVE  FALSE
  BY <1>2 DEF SendPlaceholder
<1>3. ASSUME NEW p \in Prompts, InvalidateTurnCard(p)
      PROVE  q \in reclaim.todo
  BY <1>3 DEF InvalidateTurnCard
<1>4. ASSUME NEW p \in Prompts, TickSend(p) \/ PumpFlushSend(p)
      PROVE  FALSE
  BY <1>4 DEF TickSend, PumpFlushSend, SendFrame
<1>5. CASE PumpDeliver \/ PumpPatch
  BY <1>5 DEF PumpDeliver, PumpPatch
<1> HIDE DEF TurnTypeOK
<1>6. ASSUME NEW p \in Prompts,
             \/ DispatchIncoming(p) \/ OfflineNotice(p) \/ TurnsStart(p) \/ ForwardPrompt(p)
             \/ ReceivePrompt(p) \/ EmitProgress(p) \/ EmitTerminal(p)
      PROVE  UNCHANGED card
  BY <1>6 DEF DispatchIncoming, OfflineNotice, TurnsStart, ForwardPrompt, ReceivePrompt,
     EmitProgress, EmitTerminal, cardState
<1>7. CASE \/ GoDown \/ ComeBack \/ ReclaimBackend \/ ReclaimMark \/ ReclaimCleanup
           \/ TickSwap \/ UNCHANGED turnVars
  BY <1>1, <1>7 DEF GoDown, ComeBack, ReclaimBackend, ReclaimMark, ReclaimCleanup, TickSwap,
     cardState, turnVars
<1>8. CASE \/ PumpProgress \/ PumpUpdateState \/ PumpCheckFinalized \/ PumpEnqueue
           \/ PumpTerminal \/ PumpFlush \/ PumpMark \/ PumpFinish \/ PumpCleanup
  BY <1>1, <1>8 DEF PumpProgress, PumpUpdateState, PumpCheckFinalized, PumpEnqueue,
     PumpTerminal, PumpFlush, PumpMark, PumpFinish, PumpCleanup
<1> QED
  BY <1>1, <1>2, <1>3, <1>4, <1>5, <1>6, <1>7, <1>8
     DEF TurnNext, BotStep, ReclaimStep, TickStep, ControlPumpStep

\* FinalAreStarted: so no card is final before its turn began.
LEMMA FinalKept ==
    ASSUME TurnTypeOK, EventsKnown, KnownAreForwarded, TurnsStarted, FinalAreStarted,
           TurnAssumption, [TurnNext]_turnVars
    PROVE  FinalAreStarted'
<1>1. SUFFICES ASSUME NEW q \in Prompts, card'[q] \in {"terminal", "invalid"}
               PROVE  bot[q] \in Begun
  BY BotAdvances DEF FinalAreStarted
<1>2. CASE card[q] \in {"terminal", "invalid"}
  BY <1>2 DEF FinalAreStarted
<1>3. CASE q = ctlPump.p \/ q \in reclaim.todo
  BY <1>3 DEF KnownAreForwarded, TurnsStarted, TurnAssumption, Begun
<1> QED
  BY <1>1, <1>2, <1>3, CardsChange

-----------------------------------------------------------------------------
(* After the terminal *)

PumpInv == PumpAgrees /\ AnswersCounted /\ Released

\* The pump's own invariant outside the pump: a turn can only begin for a prompt
\* that had no terminal.
LEMMA PumpInvOutside ==
    ASSUME TurnTypeOK, KnownAreForwarded, PumpInv,
           [TurnNext]_turnVars, ~ ControlPumpStep
    PROVE  PumpInv'
<1>1. ASSUME UNCHANGED << ctlPump, terminals, unpatched, answers >>,
             turns' \cap terminals \subseteq turns, progress' \subseteq progress
      PROVE  PumpInv'
  BY <1>1 DEF PumpInv, PumpAgrees, AnswersCounted, Released, Ending
<1>2. ASSUME NEW p \in Prompts, TurnsStart(p)
      PROVE  PumpInv'
  <2>1. p \notin terminals
    BY <1>2 DEF TurnsStart, KnownAreForwarded
  <2> QED
    BY <1>1, <1>2, <2>1 DEF TurnsStart
<1>3. ASSUME NEW p \in Prompts,
             DispatchIncoming(p) \/ OfflineNotice(p) \/ SendPlaceholder(p) \/ ForwardPrompt(p)
      PROVE  PumpInv'
  BY <1>1, <1>3 DEF DispatchIncoming, OfflineNotice, SendPlaceholder, ForwardPrompt, cardState
<1>4. ASSUME NEW p \in Prompts, ReceivePrompt(p) \/ EmitProgress(p) \/ EmitTerminal(p)
      PROVE  PumpInv'
  BY <1>1, <1>4 DEF ReceivePrompt, EmitProgress, EmitTerminal, cardState
<1>5. CASE GoDown \/ ComeBack \/ TickStep \/ UNCHANGED turnVars
  BY <1>1, <1>5 DEF GoDown, ComeBack, TickStep, TickSwap, TickSend, cardState, turnVars
<1>6. CASE ReclaimBackend \/ ReclaimStep
  BY <1>1, <1>6 DEF ReclaimBackend, ReclaimStep, InvalidateTurnCard, ReclaimMark, ReclaimCleanup
<1> QED
  BY <1>2, <1>3, <1>4, <1>5, <1>6 DEF TurnNext, BotStep

\* ... and inside it.
LEMMA PumpInvInside ==
    ASSUME TurnTypeOK, HandsFull, PumpInv, ControlPumpStep
    PROVE  PumpInv'
<1> USE DEF TurnTypeOK, PumpState, HandsFull, PumpInv, PumpAgrees, AnswersCounted, Released,
        Updating, Answering, Ending
<1>1. CASE PumpProgress
  <2>1. CASE Head(controls).p \in turns
    BY <1>1, <2>1, TurnAssumption DEF PumpProgress
  <2>2. CASE Head(controls).p \notin turns
    BY <1>1, <2>2 DEF PumpProgress
  <2> QED
    BY <2>1, <2>2
<1>2. CASE PumpUpdateState
  BY <1>2 DEF PumpUpdateState
<1>3. CASE PumpCheckFinalized
  BY <1>3 DEF PumpCheckFinalized, Idle
<1>4. CASE PumpEnqueue
  BY <1>4 DEF PumpEnqueue, Idle
<1>5. CASE PumpTerminal
  <2>1. Head(controls) \in Control
    BY <1>5, ControlsShrink DEF PumpTerminal
  <2>2. CASE Head(controls).p \in terminals
    BY <1>5, <2>2 DEF PumpTerminal
  <2>3. CASE Head(controls).p \notin terminals
    <3>0. ctlPump' = [Idle EXCEPT !.at = IF Head(controls).kind = "patch" THEN "patch" ELSE "flush",
                                !.p = Head(controls).p, !.kind = Head(controls).kind,
                                !.hasTurn = \/ Head(controls).p \in turns
                                            \/ Head(controls).kind = "patch"]
      BY <1>5, <2>3 DEF PumpTerminal
    <3>1. ctlPump'.at \in {"patch", "flush"} /\ ctlPump'.p = Head(controls).p
      BY ONLY <3>0 DEF Idle
    <3>2. /\ terminals' = terminals \cup {Head(controls).p} /\ progress' \subseteq progress
          /\ UNCHANGED << turns, unpatched, answers >>
      BY <1>5 DEF PumpTerminal
    <3>3. ctlPump.at = "idle" /\ Head(controls).p \in Prompts
      BY <1>5, <2>1 DEF PumpTerminal, Control
    <3>4. PumpAgrees'
      BY <2>3, <3>1, <3>2, <3>3
    <3>5. AnswersCounted'
      BY <3>2, <3>3
    <3>6. Released'
      BY <3>1, <3>2, <3>3, TurnAssumption
    <3> QED
      BY <3>4, <3>5, <3>6
  <2> QED
    BY <2>2, <2>3
<1>6. CASE PumpFlush
  BY <1>6 DEF PumpFlush
<1>7. ASSUME NEW p \in Prompts, PumpFlushSend(p)
      PROVE  PumpInv'
  BY <1>7 DEF PumpFlushSend
<1>8. CASE PumpMark
  BY <1>8 DEF PumpMark
<1>9. CASE PumpDeliver
  BY <1>9 DEF PumpDeliver, Answered
<1>10. CASE PumpPatch
  BY <1>10 DEF PumpPatch, Answered, Idle
<1>11. CASE PumpFinish
  BY <1>11 DEF PumpFinish
<1>12. CASE PumpCleanup
  BY <1>12 DEF PumpCleanup, Idle
<1> QED
  BY <1>1, <1>2, <1>3, <1>4, <1>5, <1>6, <1>7, <1>8, <1>9, <1>10, <1>11, <1>12
     DEF ControlPumpStep

\* MarkersOwned: who sets a marker removes it.
LEMMA MarkersKept ==
    ASSUME TurnTypeOK, HandsFull, MarkersOwned, [TurnNext]_turnVars
    PROVE  MarkersOwned'
<1> USE DEF TurnTypeOK, PumpState, ReclaimState, HandsFull, MarkersOwned
<1>1. CASE UNCHANGED << finalized, ctlPump, reclaim >>
  BY <1>1
<1>2. CASE ReclaimBackend
  BY <1>2 DEF ReclaimBackend
<1>3. ASSUME NEW p \in Prompts, InvalidateTurnCard(p)
      PROVE  MarkersOwned'
  BY <1>3 DEF InvalidateTurnCard
<1>4. CASE ReclaimMark
  BY <1>4 DEF ReclaimMark
<1>5. CASE ReclaimCleanup
  BY <1>5 DEF ReclaimCleanup
<1>6. CASE PumpProgress
  BY <1>6 DEF PumpProgress, pumpOnly
<1>7. CASE PumpUpdateState \/ PumpCheckFinalized \/ PumpEnqueue
  BY <1>7 DEF PumpUpdateState, PumpCheckFinalized, PumpEnqueue, Idle, pumpOnly
<1>8. CASE PumpTerminal
  BY <1>8 DEF PumpTerminal, Idle, pumpOnly
<1>9. CASE PumpFlush
  BY <1>9 DEF PumpFlush, pumpOnly
<1>10. ASSUME NEW p \in Prompts, PumpFlushSend(p)
       PROVE  MarkersOwned'
  BY <1>10 DEF PumpFlushSend, pumpOnly
<1>11. CASE PumpMark
  BY <1>11 DEF PumpMark, pumpOnly
<1>12. CASE PumpDeliver
  BY <1>12 DEF PumpDeliver, pumpOnly
<1>13. CASE PumpPatch
  BY <1>13 DEF PumpPatch, Idle, pumpOnly
<1>14. CASE PumpFinish
  BY <1>14 DEF PumpFinish, pumpOnly
<1>15. CASE PumpCleanup
  BY <1>15 DEF PumpCleanup, Idle, pumpOnly
<1> HIDE DEF TurnTypeOK, PumpState, ReclaimState, HandsFull, MarkersOwned
<1>16. ASSUME NEW p \in Prompts,
              \/ DispatchIncoming(p) \/ BotStep(p)
              \/ ReceivePrompt(p) \/ EmitProgress(p) \/ EmitTerminal(p)
       PROVE  UNCHANGED << finalized, ctlPump, reclaim >>
  BY <1>16 DEF DispatchIncoming, BotStep, OfflineNotice, SendPlaceholder, TurnsStart,
     ForwardPrompt, ReceivePrompt, EmitProgress, EmitTerminal, cardState
<1>17. CASE GoDown \/ ComeBack \/ TickStep \/ UNCHANGED turnVars
  BY <1>1, <1>17 DEF GoDown, ComeBack, TickStep, TickSwap, TickSend, cardState, turnVars
<1> QED
  BY <1>1, <1>2, <1>3, <1>4, <1>5, <1>6, <1>7, <1>8, <1>9, <1>10, <1>11, <1>12, <1>13,
     <1>14, <1>15, <1>16, <1>17 DEF TurnNext, ReclaimStep, ControlPumpStep

-----------------------------------------------------------------------------
(* The theorems *)

\* The invariant holds at the start.
LEMMA TurnInvInit == TurnInit => TurnInv
<1> SUFFICES ASSUME TurnInit PROVE TurnInv
  OBVIOUS
<1>1. TurnTypeOK
  BY DEF TurnInit, TurnTypeOK, BotState, PumpState, ReclaimState, JobState, Counts, Idle
<1>2. HandsFull /\ EventsKnown /\ KnownAreForwarded /\ TurnsStarted /\ FinalAreStarted
  BY DEF TurnInit, HandsFull, EventsKnown, KnownAreForwarded, TurnsStarted, FinalAreStarted, Idle
<1>3. PumpAgrees /\ MarkersOwned /\ AnswersCounted /\ Released
  BY DEF TurnInit, PumpAgrees, MarkersOwned, AnswersCounted, Released, Idle, Updating,
     Answering, Ending
<1> QED
  BY <1>1, <1>2, <1>3 DEF TurnInv

\* Every step keeps it.
LEMMA TurnInvNext == TurnInv /\ [TurnNext]_turnVars => TurnInv'
<1> SUFFICES ASSUME TurnInv, [TurnNext]_turnVars PROVE TurnInv'
  OBVIOUS
<1> USE DEF TurnInv
<1>1. TurnTypeOK' /\ HandsFull'
  BY TypesKept
<1>2. EventsKnown'
  BY BotAdvances
<1>3. KnownAreForwarded' /\ TurnsStarted' /\ FinalAreStarted'
  BY <1>1, KnownKept, TurnsKept, FinalKept, TurnAssumption
<1>4. PumpInv'
  BY PumpInvInside, PumpInvOutside DEF PumpInv
<1>5. MarkersOwned'
  BY MarkersKept
<1> QED
  BY <1>1, <1>2, <1>3, <1>4, <1>5 DEF PumpInv

\* Every variable keeps its type, whatever fails and however often a message or
\* a terminal is repeated.
THEOREM TurnTypeCorrect == TurnSpec => []TurnTypeOK
<1>1. TurnInv => TurnTypeOK
  BY DEF TurnInv
<1> QED
  BY <1>1, TurnInvInit, TurnInvNext, PTL DEF TurnSpec

\* A chat gets at most one terminal for a prompt (markTerminal, dispatcher_control.go).
THEOREM OneTerminalCorrect == TurnSpec => []OneTerminal
<1>1. TurnInv => OneTerminal
  BY DEF TurnInv, AnswersCounted, OneTerminal
<1> QED
  BY <1>1, TurnInvInit, TurnInvNext, PTL DEF TurnSpec

\* No turn, progress state or finalized marker outlives the terminal of its prompt.
THEOREM TerminalReleasesCorrect == TurnSpec => []TerminalReleases
<1>1. TurnInv => TerminalReleases
  BY DEF TurnInv, TurnTypeOK, MarkersOwned, Released, TerminalReleases
<1> QED
  BY <1>1, TurnInvInit, TurnInvNext, PTL DEF TurnSpec

\* A sealed card: no step of any goroutine puts a frame on its way to it.
LEMMA SealedStep ==
    ASSUME TurnInv, [TurnNext]_turnVars, NEW q \in Prompts, Sealed(q)
    PROVE  Sealed(q)'
<1> USE DEF Sealed, TurnInv, TurnTypeOK, pumpOnly
<1>0. card[q] \in {"terminal", "invalid"} /\ bot[q] \in Begun
  BY DEF FinalAreStarted
<1>1. CASE UNCHANGED << card, turns, pending, tick, ctlPump >>
  BY <1>1
<1>2. ASSUME NEW p \in Prompts, SendPlaceholder(p) PROVE Sealed(q)'
  BY <1>0, <1>2 DEF SendPlaceholder, Begun
<1>3. ASSUME NEW p \in Prompts, TurnsStart(p) PROVE Sealed(q)'
  BY <1>0, <1>3 DEF TurnsStart, Begun
<1>4. ASSUME NEW p \in Prompts, ForwardPrompt(p) PROVE Sealed(q)'
  BY <1>4 DEF ForwardPrompt
<1>5. CASE ReclaimBackend
  BY <1>5 DEF ReclaimBackend
<1>6. ASSUME NEW p \in Prompts, InvalidateTurnCard(p) PROVE Sealed(q)'
  BY <1>6 DEF InvalidateTurnCard
<1>7. CASE TickSwap
  BY <1>7 DEF TickSwap
<1>8. ASSUME NEW p \in Prompts, TickSend(p) PROVE Sealed(q)'
  BY <1>8 DEF TickSend, SendFrame
<1>9. CASE PumpProgress
  BY <1>9 DEF PumpProgress, PumpState
<1>10. CASE PumpUpdateState
  BY <1>10 DEF PumpUpdateState, PumpState
<1>11. CASE PumpCheckFinalized
  BY <1>11 DEF PumpCheckFinalized, PumpState, Idle
<1>12. CASE PumpEnqueue
  BY <1>12 DEF PumpEnqueue, Idle
<1>13. CASE PumpTerminal
  <2>1. ctlPump'.batch \subseteq ctlPump.batch /\ (ctlPump'.at \in Updating => ctlPump' = ctlPump)
    <3>1. CASE Head(controls).p \in terminals
      BY <1>13, <3>1 DEF PumpTerminal
    <3>2. CASE Head(controls).p \notin terminals
      BY <1>13, <3>2 DEF PumpTerminal, Idle, Updating
    <3> QED
      BY <3>1, <3>2
  <2> QED
    BY <1>13, <2>1 DEF PumpTerminal, Updating
<1>14. CASE PumpFlush
  BY <1>14 DEF PumpFlush, PumpState
<1>15. ASSUME NEW p \in Prompts, PumpFlushSend(p) PROVE Sealed(q)'
  BY <1>15 DEF PumpFlushSend, SendFrame, PumpState
<1>16. CASE PumpMark \/ PumpFinish
  <2>1. /\ ctlPump'.batch = ctlPump.batch /\ ctlPump'.at \notin Updating
        /\ turns' \subseteq turns /\ UNCHANGED << card, pending, tick >>
    BY <1>16 DEF PumpMark, PumpFinish, PumpState, Updating
  <2> QED
    BY <2>1 DEF Updating
<1>17. CASE PumpDeliver
  BY <1>17 DEF PumpDeliver, PumpState
<1>18. CASE PumpPatch
  <2>1. /\ ctlPump'.batch \subseteq ctlPump.batch /\ ctlPump'.at \notin Updating
        /\ UNCHANGED << turns, pending, tick >>
    <3>1. ctlPump' \in {Idle, [ctlPump EXCEPT !.at = "finish"]}
          /\ UNCHANGED << turns, pending, tick >>
      BY <1>18 DEF PumpPatch
    <3>2. Idle.batch = {} /\ Idle.at \notin Updating
      BY DEF Idle, Updating
    <3>3. CASE ctlPump' = [ctlPump EXCEPT !.at = "finish"]
      BY <3>1, <3>3 DEF PumpState, Updating
    <3> QED
      BY <3>1, <3>2, <3>3
  <2>2. card'[q] \in {"terminal", "invalid"}
    BY <1>18 DEF PumpPatch
  <2> QED
    BY <2>1, <2>2 DEF Updating
<1>19. CASE PumpCleanup
  BY <1>19 DEF PumpCleanup, Idle
<1> HIDE DEF Sealed, TurnInv, TurnTypeOK, pumpOnly
<1>20. ASSUME NEW p \in Prompts,
              \/ DispatchIncoming(p) \/ OfflineNotice(p)
              \/ ReceivePrompt(p) \/ EmitProgress(p) \/ EmitTerminal(p)
       PROVE  UNCHANGED << card, turns, pending, tick, ctlPump >>
  BY <1>20 DEF DispatchIncoming, OfflineNotice, ReceivePrompt, EmitProgress, EmitTerminal,
     cardState
<1>21. CASE GoDown \/ ComeBack \/ ReclaimMark \/ ReclaimCleanup \/ UNCHANGED turnVars
  BY <1>1, <1>21 DEF GoDown, ComeBack, ReclaimMark, ReclaimCleanup, cardState, turnVars
<1> QED
  BY <1>1, <1>2, <1>3, <1>4, <1>5, <1>6, <1>7, <1>8, <1>9, <1>10, <1>11, <1>12, <1>13,
     <1>14, <1>15, <1>16, <1>17, <1>18, <1>19, <1>20, <1>21
     DEF TurnNext, BotStep, ReclaimStep, TickStep, ControlPumpStep

\* No straggler frame, repeated terminal, redelivery or other prompt brings a
\* sealed card back to showing progress.
THEOREM SealedCardStaysCorrect == TurnSpec => SealedCardStays
<1>1. TurnInv /\ [TurnNext]_turnVars
          => [\A p \in Prompts : Sealed(p) => Sealed(p)']_turnVars
  BY SealedStep
<1> QED
  BY <1>1, TurnInvInit, TurnInvNext, PTL DEF TurnSpec, SealedCardStays
=============================================================================
