----------------------------- MODULE CliRunner -----------------------------
(***************************************************************************)
(* One fork of the miniagent command line per turn.                        *)
(*   internal/miniclient/{client,event}.go    Client.Run, pump, parseEvent *)
(*   internal/cmdutil/spawn_group.go          ApplyGroupCancel             *)
(*   internal/linereader/linereader.go        the line cap                 *)
(*                                                                         *)
(* A turn takes a permit of the semaphore, starts the process and gets a   *)
(* channel of events that the pump goroutine fills from stdout.  The lines *)
(* the pump reads are chosen here: a line that is not an event (or was cut *)
(* at the line cap, which makes it one) is skipped.  The process itself is *)
(* the environment: it ends when it likes, or is killed with its group     *)
(* once the turn's context is cancelled.                                   *)
(***************************************************************************)
EXTENDS Naturals, Sequences, FiniteSets

CONSTANTS
    Turns,           \* prompt ids; a turn has the id of its prompt
    MaxConcurrent,   \* Config.MaxConcurrent, permits of the semaphore
    EventBuf,        \* runEventChanBuf
    MaxLines         \* bound: lines of one process

ASSUME CliAssumption ==
    MaxConcurrent \in Nat \ {0} /\ EventBuf \in Nat \ {0} /\ MaxLines \in Nat

VARIABLES
    sem,         \* turns that hold a permit of Client.sem
    proc,        \* the process of each turn
    pump,        \* the pump goroutine of each turn
    out,         \* the event channel of each turn
    cancelled,   \* turns whose context is cancelled
    lines        \* lines read of each process

cliVars == << sem, proc, pump, out, cancelled, lines >>

Terminal == {"result", "error"}
EventKind == {"tool", "session"} \cup Terminal

NoPump == [at |-> "none", ev |-> "none", got |-> FALSE]

CliInit ==
    /\ sem = {} /\ cancelled = {}
    /\ proc = [t \in Turns |-> "none"]
    /\ pump = [t \in Turns |-> NoPump]
    /\ out = [t \in Turns |-> << >>]
    /\ lines = [t \in Turns |-> 0]

-----------------------------------------------------------------------------
(* Client.Run, called by the turn *)

\* A permit, or the context's end while waiting for one.
AcquirePermit(t) ==
    /\ Cardinality(sem) < MaxConcurrent
    /\ sem' = sem \cup {t}
    /\ UNCHANGED << proc, pump, out, cancelled, lines >>

\* Fault: a failed start keeps the permit.
StartFailsHolding(t) ==
    /\ proc[t] = "none" /\ t \in sem
    /\ UNCHANGED cliVars

\* A pipe or the start itself fails, and the permit goes back.
StartFails(t) ==
    /\ proc[t] = "none" /\ t \in sem
    /\ sem' = sem \ {t}
    /\ UNCHANGED << proc, pump, out, cancelled, lines >>

StartProcess(t) ==
    /\ proc[t] = "none" /\ t \in sem
    /\ proc' = [proc EXCEPT ![t] = "running"]
    /\ pump' = [pump EXCEPT ![t].at = "read"]
    /\ UNCHANGED << sem, out, cancelled, lines >>

-----------------------------------------------------------------------------
(* The process *)

Exit(t, how) ==
    /\ proc[t] = "running"
    /\ proc' = [proc EXCEPT ![t] = how]
    /\ UNCHANGED << sem, pump, out, cancelled, lines >>

\* Fault: the group is not killed when the context ends.
NeverKilled(t) == FALSE /\ UNCHANGED cliVars

\* ApplyGroupCancel: the end of the context kills the process and the tools it
\* started; WaitDelay closes pipes a survivor holds.
GroupKilled(t) == t \in cancelled /\ Exit(t, "killed")

-----------------------------------------------------------------------------
(* The pump *)

\* One line of stdout.  A session line comes only from -save-session.
PumpRead(t) ==
    /\ pump[t].at = "read"
    /\ proc[t] # "none" /\ lines[t] < MaxLines
    /\ lines' = [lines EXCEPT ![t] = @ + 1]
    /\ \E ev \in EventKind \cup {"none"} :
           pump' = [pump EXCEPT ![t] =
               IF ev = "none" THEN @ ELSE [@ EXCEPT !.at = "push", !.ev = ev]]
    /\ UNCHANGED << sem, proc, out, cancelled >>

\* The event goes into the channel; a terminal one ends the loop.
PumpPush(t) ==
    /\ pump[t].at = "push"
    /\ Len(out[t]) < EventBuf
    /\ out' = [out EXCEPT ![t] = Append(@, pump[t].ev)]
    /\ pump' = [pump EXCEPT ![t] =
           [at |-> IF pump[t].ev \in Terminal THEN "wait" ELSE "read",
            ev |-> "none", got |-> pump[t].ev \in Terminal]]
    /\ UNCHANGED << sem, proc, cancelled, lines >>

\* The consumer is behind and the context has ended: the rest is abandoned.
PumpAbandon(t) ==
    /\ pump[t].at = "push" /\ t \in cancelled
    /\ pump' = [pump EXCEPT ![t].at = "wait", ![t].ev = "none"]
    /\ UNCHANGED << sem, proc, out, cancelled, lines >>

\* End of stdout, which is open as long as the process runs.
PumpEOF(t) ==
    /\ pump[t].at = "read" /\ proc[t] \notin {"none", "running"}
    /\ pump' = [pump EXCEPT ![t].at = "wait"]
    /\ UNCHANGED << sem, proc, out, cancelled, lines >>

\* The deferred release of the permit and close of the channel.
PumpClose(t) ==
    /\ sem' = sem \ {t}
    /\ pump' = [pump EXCEPT ![t].at = "closed"]
    /\ lines' = [lines EXCEPT ![t] = 0]

\* Fault: a process that dies without a terminal event is closed silently.
PumpWaitSilent(t) ==
    /\ pump[t].at = "wait" /\ proc[t] \notin {"none", "running"}
    /\ PumpClose(t)
    /\ UNCHANGED << proc, out, cancelled >>

\* stderr is drained and the process waited for.  A failed process that sent
\* no terminal event, in a turn that was not cancelled, gets an error event.
PumpWait(t) ==
    /\ pump[t].at = "wait" /\ proc[t] \notin {"none", "running"}
    /\ IF proc[t] # "ok" /\ t \notin cancelled /\ ~pump[t].got
       THEN /\ pump' = [pump EXCEPT ![t].at = "synth"]
            /\ UNCHANGED << sem, lines >>
       ELSE PumpClose(t)
    /\ UNCHANGED << proc, out, cancelled >>

PumpSynth(t) ==
    /\ pump[t].at = "synth"
    /\ \/ Len(out[t]) < EventBuf /\ out' = [out EXCEPT ![t] = Append(@, "error")]
       \/ t \in cancelled /\ UNCHANGED out
    /\ PumpClose(t)
    /\ UNCHANGED << proc, cancelled >>

PumpStep(t) == PumpRead(t) \/ PumpPush(t) \/ PumpAbandon(t) \/ PumpEOF(t)
                   \/ PumpWait(t) \/ PumpSynth(t)

\* The consumer's side of the channel.
Received(t) ==
    /\ out[t] # << >>
    /\ out' = [out EXCEPT ![t] = Tail(@)]
    /\ UNCHANGED << sem, proc, pump, cancelled, lines >>

Drained(t) == pump[t].at = "closed" /\ out[t] = << >>

=============================================================================
