----------------------------- MODULE MiniAgent -----------------------------
(***************************************************************************)
(* The miniagent backend: turns, slash commands and pickers.               *)
(*   internal/miniagent/handler.go, handler_lifecycle.go, handler_cli.go   *)
(*   internal/miniagent/commands*.go, picker.go, answer.go, taskrunner.go, *)
(*   prompt_result.go                                                      *)
(*                                                                         *)
(* The receive loop calls HandleEvent for one event at a time; a turn, a   *)
(* picker and a git or make job run on goroutines of their own.  A chat    *)
(* has one slot (cancelBy): a prompt or command that finds it taken is     *)
(* dropped with a notice.  A picker and a job leave the slot at once and   *)
(* work on after it.  Settings of a chat are the pair of model and         *)
(* provider, which the router stores field by field; a picked model is     *)
(* named after the command that set it.                                    *)
(***************************************************************************)
EXTENDS CliRunner

CONSTANTS
    Chats,
    NoTurn,        \* no turn; as a setting, the field is not set
    MaxAttempts,   \* maxTerminalAttempts
    MaxNew         \* bound: /new commands of one chat

ASSUME AgentAssumption ==
    NoTurn \notin Turns /\ MaxAttempts \in Nat \ {0} /\ MaxNew \in Nat

VARIABLES
    cancelBy,    \* Handler.cancelBy: the turn that holds each chat's slot
    closed,      \* Handler.closed, and whether Close has returned
    turn,        \* each turn: its chat and its position
    binding,     \* the router's binding of each chat: model and provider
    session,     \* the mapping file of each chat: the epoch that saved it
    epoch,       \* conversations each chat has begun with /new
    loop,        \* the receive loop between the two fields of a setting
    broker,      \* AnswerBroker.pending
    reply,       \* the answer channel of each picker
    asked,       \* pickers whose card reached the frontend, not yet clicked
    jobs,        \* TaskRunner.slots: the job that holds each chat's mutex
    sent         \* history: the final controls that reached the frontend

agentVars == << cancelBy, closed, turn, binding, session, epoch, loop, broker,
                reply, asked, jobs, sent >>
allVars == << agentVars, cliVars >>

Unset == [model |-> NoTurn, provider |-> NoTurn]

FreshTurn == [chat |-> NoTurn, at |-> "idle", tries |-> 0, final |-> "none",
              uses |-> Unset, since |-> 0, resume |-> FALSE]

AgentInit ==
    /\ CliInit
    /\ cancelBy = [c \in Chats |-> NoTurn]
    /\ closed = "no"
    /\ turn = [t \in Turns |-> FreshTurn]
    /\ binding = [c \in Chats |-> Unset]
    /\ session = [c \in Chats |-> NoTurn]
    /\ epoch = [c \in Chats |-> 0]
    /\ loop = [at |-> "idle", chat |-> NoTurn, t |-> NoTurn]
    /\ broker = {} /\ asked = {}
    /\ reply = [t \in Turns |-> "empty"]
    /\ jobs = [c \in Chats |-> NoTurn]
    /\ sent = [t \in Turns |-> {}]

At(t, pos) == turn' = [turn EXCEPT ![t].at = pos]

\* sendCtrl: one attempt; a failure is only logged.  Notices that end no turn
\* change nothing and are left out.
Notify(t, kind) == sent' \in {sent, [sent EXCEPT ![t] = @ \cup {kind}]}

-----------------------------------------------------------------------------
(* HandleEvent: prompts *)

Accepts(c) == closed = "no" /\ cancelBy[c] = NoTurn

\* The receive loop is free and the prompt is new.
Arrives(t) == loop.at = "idle" /\ turn[t].at = "idle" /\ closed # "yes"

\* Fault: startTurn without the look at cancelBy.
StartTurnAlways(t, c) ==
    /\ Arrives(t) /\ closed = "no"
    /\ cancelBy' = [cancelBy EXCEPT ![c] = t]
    /\ turn' = [turn EXCEPT ![t].chat = c, ![t].at = "config", ![t].since = epoch[c]]
    /\ UNCHANGED << closed, binding, session, epoch, loop, broker, reply, asked,
                    jobs, sent, cliVars >>

\* startTurn takes the slot and the turn's goroutine starts.
StartTurn(t, c) ==
    /\ Arrives(t) /\ Accepts(c)
    /\ cancelBy' = [cancelBy EXCEPT ![c] = t]
    /\ turn' = [turn EXCEPT ![t].chat = c, ![t].at = "config", ![t].since = epoch[c]]
    /\ UNCHANGED << closed, binding, session, epoch, loop, broker, reply, asked,
                    jobs, sent, cliVars >>

\* A busy chat or a closed handler: a notice, and the prompt is over.  So are
\* an empty prompt, one with override fields, and /running.
RejectPrompt(t, c) ==
    /\ Arrives(t) /\ ~Accepts(c)
    /\ turn' = [turn EXCEPT ![t].chat = c, ![t].at = "done"]
    /\ UNCHANGED << cancelBy, closed, binding, session, epoch, loop, broker,
                    reply, asked, jobs, sent, cliVars >>

\* abortChat, from a TypeAbort event or /abort: the context of the turn in the
\* slot is cancelled; the turn itself gives the slot up.
AbortChat(c) ==
    /\ loop.at = "idle" /\ cancelBy[c] # NoTurn
    /\ cancelBy[c] \notin cancelled
    /\ cancelled' = cancelled \cup {cancelBy[c]}
    /\ UNCHANGED << sem, proc, pump, out, lines, agentVars >>

-----------------------------------------------------------------------------
(* HandleEvent: session commands, which run inside the slot *)

\* Fault: /new does not wait for the chat's turn.
CmdNewAnytime(c) ==
    /\ loop.at = "idle" /\ closed = "no" /\ epoch[c] < MaxNew
    /\ epoch' = [epoch EXCEPT ![c] = @ + 1]
    /\ session' = [session EXCEPT ![c] = NoTurn]
    /\ UNCHANGED << cancelBy, closed, turn, binding, loop, broker, reply, asked,
                    jobs, sent, cliVars >>

\* /new removes the mapping file.  The loop handles it between two events, so
\* the slot is free again before anything else looks at it.
CmdNew(c) ==
    /\ loop.at = "idle" /\ Accepts(c) /\ epoch[c] < MaxNew
    /\ epoch' = [epoch EXCEPT ![c] = @ + 1]
    /\ session' = [session EXCEPT ![c] = NoTurn]
    /\ UNCHANGED << cancelBy, closed, turn, binding, loop, broker, reply, asked,
                    jobs, sent, cliVars >>

\* /model <id> (like /cd, /effort, /maxiter, /config with an argument, which
\* set one field): the model is stored, then the provider is cleared.
CmdModelSpec(t, c) ==
    /\ Arrives(t) /\ Accepts(c)
    /\ cancelBy' = [cancelBy EXCEPT ![c] = t]
    /\ binding' = [binding EXCEPT ![c].model = t]
    /\ loop' = [at |-> "provider", chat |-> c, t |-> t]
    /\ turn' = [turn EXCEPT ![t].chat = c, ![t].at = "run"]
    /\ UNCHANGED << closed, session, epoch, broker, reply, asked, jobs, sent,
                    cliVars >>

CmdModelProvider ==
    /\ loop.at = "provider"
    /\ binding' = [binding EXCEPT ![loop.chat].provider = NoTurn]
    /\ cancelBy' = [cancelBy EXCEPT ![loop.chat] = NoTurn]
    /\ At(loop.t, "done")
    /\ loop' = [at |-> "idle", chat |-> NoTurn, t |-> NoTurn]
    /\ UNCHANGED << closed, session, epoch, broker, reply, asked, jobs, sent,
                    cliVars >>

\* A command without an argument starts a picker and returns (Handled).
CmdPicker(t, c) ==
    /\ Arrives(t) /\ Accepts(c)
    /\ turn' = [turn EXCEPT ![t].chat = c, ![t].at = "list"]
    /\ UNCHANGED << cancelBy, closed, binding, session, epoch, loop, broker,
                    reply, asked, jobs, sent, cliVars >>

\* /pull, /push, /build: TryLock of the chat's mutex, or a notice.
CmdJob(t, c) ==
    /\ Arrives(t) /\ Accepts(c)
    /\ \/ /\ jobs[c] = NoTurn
          /\ jobs' = [jobs EXCEPT ![c] = t]
          /\ turn' = [turn EXCEPT ![t].chat = c, ![t].at = "run"]
       \/ /\ jobs[c] # NoTurn
          /\ turn' = [turn EXCEPT ![t].chat = c, ![t].at = "done"]
          /\ UNCHANGED jobs
    /\ UNCHANGED << cancelBy, closed, binding, session, epoch, loop, broker,
                    reply, asked, sent, cliVars >>

\* runJob ends (the command has a timeout) and the mutex is unlocked.
JobEnds(t) ==
    /\ turn[t].chat # NoTurn /\ jobs[turn[t].chat] = t
    /\ jobs' = [jobs EXCEPT ![turn[t].chat] = NoTurn]
    /\ At(t, "done")
    /\ UNCHANGED << cancelBy, closed, binding, session, epoch, loop, broker,
                    reply, asked, sent, cliVars >>

-----------------------------------------------------------------------------
(* A picker: askAndWait and askCardUpdate *)

\* The list of options fails or is empty, or is shown.
PickerList(t) ==
    /\ turn[t].at = "list"
    /\ \E pos \in {"ask", "done"} : At(t, pos)
    /\ UNCHANGED << cancelBy, closed, binding, session, epoch, loop, broker,
                    reply, asked, jobs, sent, cliVars >>

\* Register a slot under a fresh request id and emit the question, which may
\* be lost.
PickerAsk(t) ==
    /\ turn[t].at = "ask"
    /\ broker' = broker \cup {t}
    /\ reply' = [reply EXCEPT ![t] = "empty"]
    /\ asked' \in {asked, asked \cup {t}}
    /\ At(t, "wait")
    /\ UNCHANGED << cancelBy, closed, binding, session, epoch, loop, jobs, sent,
                    cliVars >>

\* A TypeAnswer event: Deliver removes the slot and hands the answer over; an
\* answer nobody waits for is discarded.
DeliverAnswer(t) ==
    /\ loop.at = "idle" /\ t \in asked
    /\ asked' = asked \ {t}
    /\ broker' = broker \ {t}
    /\ reply' = IF t \in broker THEN [reply EXCEPT ![t] = "answer"] ELSE reply
    /\ UNCHANGED << cancelBy, closed, turn, binding, session, epoch, loop, jobs,
                    sent, cliVars >>

\* The answer: a setting to store, or (the directory browser of /send) another
\* round on the same card or the file, or nothing that was on the list.
PickerAnswered(t) ==
    /\ turn[t].at = "wait" /\ reply[t] = "answer"
    /\ \E pos \in {"model", "ask", "done"} : At(t, pos)
    /\ UNCHANGED << cancelBy, closed, binding, session, epoch, loop, broker,
                    reply, asked, jobs, sent, cliVars >>

\* The wait times out (Cancel), or Drain closed the channel.
PickerGivesUp(t) ==
    /\ turn[t].at = "wait"
    /\ broker' = broker \ {t}
    /\ At(t, "done")
    /\ UNCHANGED << cancelBy, closed, binding, session, epoch, loop, reply,
                    asked, jobs, sent, cliVars >>

\* SetModelSpec and SetProvider, without the slot.
PickerSetModel(t) ==
    /\ turn[t].at = "model"
    /\ binding' = [binding EXCEPT ![turn[t].chat].model = t]
    /\ At(t, "provider")
    /\ UNCHANGED << cancelBy, closed, session, epoch, loop, broker, reply, asked,
                    jobs, sent, cliVars >>

PickerSetProvider(t) ==
    /\ turn[t].at = "provider"
    /\ binding' = [binding EXCEPT ![turn[t].chat].provider = t]
    /\ At(t, "done")
    /\ UNCHANGED << cancelBy, closed, session, epoch, loop, broker, reply, asked,
                    jobs, sent, cliVars >>

PickerStep(t) == PickerList(t) \/ PickerAsk(t) \/ PickerAnswered(t)
                     \/ PickerGivesUp(t) \/ PickerSetModel(t) \/ PickerSetProvider(t)

-----------------------------------------------------------------------------
(* runViaCLI, the goroutine of a turn *)

\* activeTurnConfig looks the binding up once; the provider counts only with a
\* model.  lookupSessionID decides between resuming and saving.
TurnConfig(t) ==
    /\ turn[t].at = "config"
    /\ LET b == binding[turn[t].chat]
       IN  turn' = [turn EXCEPT ![t].at = "acquire",
                        ![t].uses = IF b.model = NoTurn THEN Unset ELSE b,
                        ![t].resume = session[turn[t].chat] # NoTurn]
    /\ UNCHANGED << cancelBy, closed, binding, session, epoch, loop, broker,
                    reply, asked, jobs, sent, cliVars >>

TurnAcquire(t) ==
    /\ turn[t].at = "acquire"
    /\ AcquirePermit(t)
    /\ At(t, "start")
    /\ UNCHANGED << cancelBy, closed, binding, session, epoch, loop, broker,
                    reply, asked, jobs, sent >>

\* Emit the final control "kind" with retries (sendTerminalCtrl).
ToEmit(t, kind) == turn' = [turn EXCEPT ![t].at = "emit", ![t].final = kind,
                                        ![t].tries = 0]

\* No key file, the context ended before a permit was free, or the start
\* failed: a TypeError ends the turn.
TurnStartFails(t) ==
    /\ \/ turn[t].at = "acquire" /\ UNCHANGED cliVars
       \/ turn[t].at = "start" /\ StartFails(t)
    /\ ToEmit(t, "error")
    /\ UNCHANGED << cancelBy, closed, binding, session, epoch, loop, broker,
                    reply, asked, jobs, sent >>

TurnStart(t) ==
    /\ turn[t].at = "start"
    /\ StartProcess(t)
    /\ At(t, "drain")
    /\ UNCHANGED << cancelBy, closed, binding, session, epoch, loop, broker,
                    reply, asked, jobs, sent >>

\* emitCLIEvent: a terminal event is emitted, a session id is saved, the rest
\* (tool rows, todos, thinking) is shown and forgotten.
TurnEvent(t) ==
    /\ turn[t].at = "drain" /\ out[t] # << >>
    /\ Received(t)
    /\ LET ev == Head(out[t])
       IN  /\ IF ev \in Terminal THEN ToEmit(t, ev) ELSE UNCHANGED turn
           /\ session' = IF ev = "session"
                         THEN [session EXCEPT ![turn[t].chat] = turn[t].since]
                         ELSE session
    /\ UNCHANGED << cancelBy, closed, binding, epoch, loop, broker, reply, asked,
                    jobs, sent >>

AfterEmit(t) ==
    turn' = [turn EXCEPT ![t].at = IF proc[t] = "none" THEN "end" ELSE "drain",
                         ![t].tries = 0]

\* One attempt of EmitTerminalControl.  A POST that timed out may have landed;
\* a delivered one ends the loop, and so do the last attempt and the end of
\* the process context during a backoff.
TurnEmit(t) ==
    /\ turn[t].at = "emit"
    /\ \/ sent' = [sent EXCEPT ![t] = @ \cup {turn[t].final}] /\ AfterEmit(t)
       \/ /\ Notify(t, turn[t].final)
          /\ IF turn[t].tries + 1 = MaxAttempts \/ closed # "no"
             THEN AfterEmit(t)
             ELSE turn' = [turn EXCEPT ![t].tries = @ + 1]
    /\ UNCHANGED << cancelBy, closed, binding, session, epoch, loop, broker,
                    reply, asked, jobs, cliVars >>

\* Fault: the notice depends on the context alone.
TurnDrainedAlways(t) ==
    /\ turn[t].at = "drain" /\ Drained(t)
    /\ At(t, IF t \in cancelled THEN "abort" ELSE "end")
    /\ UNCHANGED << cancelBy, closed, binding, session, epoch, loop, broker,
                    reply, asked, jobs, sent, cliVars >>

\* The channel is closed: a cancelled turn without a terminal event says so.
TurnDrained(t) ==
    /\ turn[t].at = "drain" /\ Drained(t)
    /\ At(t, IF t \in cancelled /\ turn[t].final = "none" THEN "abort" ELSE "end")
    /\ UNCHANGED << cancelBy, closed, binding, session, epoch, loop, broker,
                    reply, asked, jobs, sent, cliVars >>

TurnAbortNotice(t) ==
    /\ turn[t].at = "abort"
    /\ Notify(t, "aborted")
    /\ turn' = [turn EXCEPT ![t].at = "end", ![t].final = "aborted"]
    /\ UNCHANGED << cancelBy, closed, binding, session, epoch, loop, broker,
                    reply, asked, jobs, cliVars >>

\* endTurn: the slot is released if it is still this turn's.
EndTurn(t) ==
    /\ turn[t].at = "end"
    /\ cancelBy' = [c \in Chats |-> IF cancelBy[c] = t THEN NoTurn ELSE cancelBy[c]]
    /\ At(t, "done")
    /\ UNCHANGED << closed, binding, session, epoch, loop, broker, reply, asked,
                    jobs, sent, cliVars >>

TurnStep(t) == TurnConfig(t) \/ TurnAcquire(t) \/ TurnStart(t) \/ TurnEvent(t)
                   \/ TurnEmit(t) \/ TurnDrained(t) \/ TurnAbortNotice(t) \/ EndTurn(t)

-----------------------------------------------------------------------------
(* Close *)

\* Turns that startTurn counted in the wait group and endTurn has not.
InFlight == {t \in Turns : turn[t].at \in
                 {"config", "acquire", "start", "drain", "emit", "abort", "end"}}

Close ==
    /\ closed = "no"
    /\ closed' = "closing"
    /\ cancelled' = (cancelled \cup {cancelBy[c] : c \in Chats}) \ {NoTurn}
    /\ broker' = {}
    /\ reply' = [t \in Turns |-> IF t \in broker THEN "closed" ELSE reply[t]]
    /\ UNCHANGED << sem, proc, pump, out, lines, cancelBy, turn, binding, session,
                    epoch, loop, asked, jobs, sent >>

\* The wait group is empty, or closeGrace is over.
CloseReturns ==
    /\ closed = "closing"
    /\ closed' = "yes"
    /\ UNCHANGED << cancelBy, turn, binding, session, epoch, loop, broker, reply,
                    asked, jobs, sent, cliVars >>

-----------------------------------------------------------------------------
(* The specification *)

\* A session line comes only from a process started with -save-session, once.
Pump(t) ==
    /\ PumpStep(t)
    /\ pump'[t].ev = "session" => lines[t] = 0 /\ ~turn[t].resume
    /\ UNCHANGED agentVars

\* The process of the turn ends by itself.
CliEnds(t) == \E how \in {"ok", "failed"} : Exit(t, how) /\ UNCHANGED agentVars
CliKilled(t) == GroupKilled(t) /\ UNCHANGED agentVars

Event(t) == \E c \in Chats : StartTurn(t, c) \/ RejectPrompt(t, c)
                \/ CmdModelSpec(t, c) \/ CmdPicker(t, c) \/ CmdJob(t, c)

AgentNext ==
    \/ \E t \in Turns : Event(t) \/ TurnStep(t) \/ TurnStartFails(t)
           \/ PickerStep(t) \/ JobEnds(t) \/ DeliverAnswer(t)
           \/ Pump(t) \/ CliEnds(t) \/ CliKilled(t)
    \/ \E c \in Chats : AbortChat(c) \/ CmdNew(c)
    \/ CmdModelProvider \/ Close \/ CloseReturns

AgentSpec == AgentInit /\ [][AgentNext]_allVars

\* Goroutines run on, a cancelled process is killed, a job has a timeout, a
\* picker gives up after askWaitTimeout.  A turn that waits for a permit gets
\* it when one is free or its context ends.  A process may run for ever.
AgentFairness ==
    /\ \A t \in Turns : /\ WF_allVars(TurnStep(t))
                        /\ WF_allVars(t \in cancelled /\ TurnStartFails(t))
                        /\ WF_allVars(Pump(t))
                        /\ WF_allVars(CliKilled(t))
                        /\ WF_allVars(PickerStep(t))
                        /\ WF_allVars(JobEnds(t))
    /\ WF_allVars(CmdModelProvider)

-----------------------------------------------------------------------------
(* Properties *)

\* cancelBy is the only lock between prompts: no two turns of one chat are in
\* flight, whatever aborts, rejections and late ends came before, so no two
\* processes work on the same session file.
OneTurnPerChat ==
    \A t, u \in InFlight : turn[t].chat = turn[u].chat => t = u

\* Client.Run takes a permit and the pump returns it: on every path out of a
\* turn (a failed start, an abort, a dead process) the permit is back before
\* endTurn lets the next turn of the chat in.
PermitsReturned ==
    sem = {t \in Turns : turn[t].at = "start"
                             \/ pump[t].at \in {"read", "push", "wait", "synth"}}

\* The abort notice and a terminal event are alternatives: a user never gets
\* "aborted" for a turn whose result or error was sent, however late the abort.
AbortXorResult ==
    \A t \in Turns : "aborted" \in sent[t] => sent[t] \cap Terminal = {}

\* /new drops the mapping file inside the slot, so a turn of the conversation
\* before it cannot write its session id back after it.
SessionOfEpoch ==
    \A c \in Chats : session[c] # NoTurn => session[c] = epoch[c]

\* AnswerBroker.pending holds exactly the pickers that wait without an answer:
\* time-outs, answers and Drain leave no slot behind and take none away early.
BrokerHoldsWaiters ==
    broker = {t \in Turns : turn[t].at = "wait" /\ reply[t] = "empty"}

\* What a turn or a picker took is given back on every path.
SlotsReturned == PermitsReturned /\ BrokerHoldsWaiters

\* A turn whose process failed or was killed ends with a final control (the
\* process's own, the one the pump makes up, or the abort notice).
DeadProcessIsReported ==
    \A t \in Turns : turn[t].at = "done" /\ proc[t] \in {"failed", "killed"}
                       => turn[t].final # "none"

\* An aborted turn gives its slot and its permit back: the process group is
\* killed, the pump ends and endTurn runs.
CancelledEnds == \A t \in Turns : t \in cancelled ~> turn[t].at = "done"

=============================================================================
