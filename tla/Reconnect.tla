------------------------------ MODULE Reconnect ------------------------------
(***************************************************************************)
(* A backend's side of its event stream: the receive loop with its         *)
(* reconnects (backendrpc/reconnect.go) and the client that it dials, with *)
(* the goroutine that reads the stream (backendrpc/client.go).             *)
(*                                                                         *)
(* Three kinds of goroutine meet here: the loop, the reader of every       *)
(* stream, and the one goroutine that waits for the shutdown.  Close is    *)
(* called by all of them.                                                  *)
(***************************************************************************)
EXTENDS Naturals, Sequences

CONSTANTS
    Clients,        \* slots for *Client objects; one is reused when nobody holds it
    ChanBuf,        \* sseEventChanBuf
    MaxReconnectFailures,   \* maxReconnectFailures
    BaseBackoff,    \* reconnectBackoff
    MaxBackoff,     \* reconnectMaxBackoff
    MaxFrames       \* bound: valid frames one stream carries

ASSUME ReconnectAssumption ==
    /\ ChanBuf \in Nat \ {0}
    /\ MaxReconnectFailures \in Nat \ {0}
    /\ BaseBackoff \in Nat \ {0}
    /\ MaxBackoff \in Nat
    /\ BaseBackoff =< MaxBackoff
    /\ MaxFrames \in Nat

VARIABLES
    ctxDone,        \* the context given to RunWithClient is cancelled
    at,             \* where the loop is
    client,         \* its variable client
    current,        \* the atomic pointer the shutdown goroutine reads
    failures,       \* its variable failures
    backoff,        \* its variable backoff
    outcome,        \* what RunWithClient returned
    shut,           \* where the shutdown goroutine is
    held,           \* the client that it loaded
    closed,         \* per client: Close was called
    reader,         \* per client: where readSSE is
    eventCh,        \* per client: the decoded events that wait for the loop
    frames,         \* per client: valid frames readSSE has decoded
    \* History, which no action reads:
    got,            \* per client: the events the loop received
    tries,          \* calls of Connect since the last event received
    cancelAt        \* where the loop was when the context was cancelled

loopVars   == <<at, client, current, failures, backoff, outcome, tries>>
shutVars   == <<shut, held>>
ctxVars    == <<ctxDone, cancelAt>>
streamVars == <<closed, reader, eventCh, frames, got>>
recVars    == <<loopVars, shutVars, ctxVars, streamVars>>

LoopState == {"recv", "handle", "count", "wait", "dial", "check", "store", "done"}

Init ==
    /\ ctxDone = FALSE
    /\ cancelAt = "never"
    /\ at = "recv"
    /\ client \in Clients
    /\ current = client
    /\ failures = 0
    /\ backoff = BaseBackoff
    /\ outcome = "running"
    /\ tries = 0
    /\ shut = "waiting"
    /\ held = client
    /\ closed = [c \in Clients |-> c # client]
    /\ reader = [c \in Clients |-> IF c = client THEN "reading" ELSE "gone"]
    /\ eventCh = [c \in Clients |-> <<>>]
    /\ frames = [c \in Clients |-> 0]
    /\ got = [c \in Clients |-> <<>>]

-----------------------------------------------------------------------------
(* The context, and the goroutine that turns its end into a Close.         *)

Cancel ==
    /\ ~ctxDone
    /\ ctxDone' = TRUE
    /\ cancelAt' = at
    /\ UNCHANGED <<loopVars, shutVars, streamVars>>

\* Close is idempotent: the first call wins.
Close(c) == closed' = [closed EXCEPT ![c] = TRUE]

ShutLoad ==
    /\ shut = "waiting"
    /\ ctxDone
    /\ shut' = "closing"
    /\ held' = current
    /\ UNCHANGED <<loopVars, ctxVars, streamVars>>

\* Fault: the goroutine ends without closing what it loaded.
ShutCloseForgotten ==
    /\ shut = "closing"
    /\ shut' = "gone"
    /\ UNCHANGED <<held, loopVars, ctxVars, streamVars>>

ShutClose ==
    /\ shut = "closing"
    /\ Close(held)
    /\ shut' = "gone"
    /\ UNCHANGED <<held, loopVars, ctxVars, reader, eventCh, frames, got>>

\* RunWithClient has returned and closed the channel stop.
ShutStop ==
    /\ shut = "waiting"
    /\ at = "done"
    /\ shut' = "gone"
    /\ UNCHANGED <<held, loopVars, ctxVars, streamVars>>

-----------------------------------------------------------------------------
(* readSSE                                                                 *)

\* A complete, valid frame.  The scanner may still hold some after a Close.
\* A frame that cannot be decoded or is invalid is skipped: nothing changes.
ReadFrame(c) ==
    /\ reader[c] = "reading"
    /\ frames[c] < MaxFrames
    /\ frames' = [frames EXCEPT ![c] = @ + 1]
    /\ reader' = [reader EXCEPT ![c] = "pushing"]
    /\ UNCHANGED <<loopVars, shutVars, ctxVars, closed, eventCh, got>>

PushFrame(c) ==
    /\ reader[c] = "pushing"
    /\ Len(eventCh[c]) < ChanBuf
    /\ eventCh' = [eventCh EXCEPT ![c] = Append(@, frames[c])]
    /\ reader' = [reader EXCEPT ![c] = "reading"]
    /\ UNCHANGED <<loopVars, shutVars, ctxVars, closed, frames, got>>

PushAbandoned(c) ==
    /\ reader[c] = "pushing"
    /\ closed[c]
    /\ reader' = [reader EXCEPT ![c] = "gone"]
    /\ UNCHANGED <<loopVars, shutVars, ctxVars, closed, eventCh, frames, got>>

\* Fault: the event is dropped and the stream goes on.
PushStallsDrops(c) ==
    /\ reader[c] = "pushing"
    /\ Len(eventCh[c]) >= ChanBuf
    /\ reader' = [reader EXCEPT ![c] = "reading"]
    /\ UNCHANGED <<loopVars, shutVars, ctxVars, closed, eventCh, frames, got>>

\* sseSendTimeout has passed and the channel is still full.
PushStalls(c) ==
    /\ reader[c] = "pushing"
    /\ Len(eventCh[c]) >= ChanBuf
    /\ Close(c)
    /\ reader' = [reader EXCEPT ![c] = "gone"]
    /\ UNCHANGED <<loopVars, shutVars, ctxVars, eventCh, frames, got>>

ScanEnds(c) ==
    /\ reader[c] = "reading"
    /\ Close(c)
    /\ reader' = [reader EXCEPT ![c] = "gone"]
    /\ UNCHANGED <<loopVars, shutVars, ctxVars, eventCh, frames, got>>

\* The frontend ends the stream, the connection breaks, or a line is too long.
StreamEnds(c) == ~closed[c] /\ ScanEnds(c)

\* Close has closed the body, so the scan fails.
ReaderEnds(c) == closed[c] /\ ScanEnds(c)

-----------------------------------------------------------------------------
(* run and reconnect                                                       *)

Return(result) ==
    /\ at' = "done"
    /\ outcome' = result

Goto(where) ==
    /\ at' = where
    /\ UNCHANGED outcome

TakeEvent ==
    /\ at = "recv"
    /\ eventCh[client] # <<>>
    /\ got' = [got EXCEPT ![client] = Append(@, Head(eventCh[client]))]
    /\ eventCh' = [eventCh EXCEPT ![client] = Tail(@)]
    /\ Goto("handle")
    /\ UNCHANGED <<client, current, shutVars, ctxVars, closed, reader, frames>>

\* Fault: a received event leaves the count of failures alone.
RecvOkKeepsCount ==
    /\ TakeEvent
    /\ tries' = 0
    /\ backoff' = BaseBackoff
    /\ UNCHANGED failures

RecvOk ==
    /\ TakeEvent
    /\ tries' = 0
    /\ backoff' = BaseBackoff
    /\ failures' = 0

\* RecvEvent chooses at random when an event waits on a closed client.
RecvFails ==
    /\ at = "recv"
    /\ closed[client]
    /\ IF ctxDone THEN Return("stopped") ELSE Goto("count")
    /\ UNCHANGED <<client, current, failures, backoff, tries,
                   shutVars, ctxVars, streamVars>>

\* handle returns; its error is only reported.
HandleEvent ==
    /\ at = "handle"
    /\ Goto("recv")
    /\ UNCHANGED <<client, current, failures, backoff, tries,
                   shutVars, ctxVars, streamVars>>

CountFailure ==
    /\ at = "count"
    /\ failures' = failures + 1
    /\ IF failures' < MaxReconnectFailures
       THEN Goto("wait")
       ELSE Return(IF ctxDone THEN "stopped" ELSE "gaveUp")
    /\ UNCHANGED <<client, current, backoff, tries, shutVars, ctxVars, streamVars>>

WaitCancelled ==
    /\ at = "wait"
    /\ ctxDone
    /\ Return("stopped")
    /\ UNCHANGED <<client, current, failures, backoff, tries,
                   shutVars, ctxVars, streamVars>>

WaitOver ==
    /\ at = "wait"
    /\ Goto("dial")
    /\ UNCHANGED <<client, current, failures, backoff, tries,
                   shutVars, ctxVars, streamVars>>

\* The history of attempts; the cap is out of reach of the code's own count.
CountTry == tries' = IF tries < MaxReconnectFailures THEN tries + 1 ELSE tries

\* A slot that no goroutine refers to any more.
Free(c) ==
    /\ closed[c]
    /\ reader[c] = "gone"
    /\ c \notin {client, current}
    /\ shut = "closing" => c # held

FreshClient(c) ==
    /\ Free(c)
    /\ client' = c
    /\ closed' = [closed EXCEPT ![c] = FALSE]
    /\ reader' = [reader EXCEPT ![c] = "reading"]
    /\ eventCh' = [eventCh EXCEPT ![c] = <<>>]
    /\ frames' = [frames EXCEPT ![c] = 0]
    /\ got' = [got EXCEPT ![c] = <<>>]

\* Fault: the handshake alone clears the count of failures.
DialOkResets(c) ==
    /\ at = "dial"
    /\ FreshClient(c)
    /\ CountTry
    /\ failures' = 0
    /\ Goto("check")
    /\ UNCHANGED <<current, backoff, shutVars, ctxVars>>

\* Connect's handshake is answered with 200; failures and backoff stay.
DialOk(c) ==
    /\ at = "dial"
    /\ FreshClient(c)
    /\ CountTry
    /\ Goto("check")
    /\ UNCHANGED <<current, failures, backoff, shutVars, ctxVars>>

DialFails ==
    /\ at = "dial"
    /\ CountTry
    /\ backoff' = IF 2 * backoff > MaxBackoff THEN MaxBackoff ELSE 2 * backoff
    /\ Goto("count")
    /\ UNCHANGED <<client, current, failures, shutVars, ctxVars, streamVars>>

\* Fault: the loop returns without closing the client it has just dialled.
CheckShutdownLeaks ==
    /\ at = "check"
    /\ IF ctxDone THEN Return("stopped") ELSE Goto("store")
    /\ UNCHANGED <<client, current, failures, backoff, tries,
                   shutVars, ctxVars, streamVars>>

\* A shutdown during the reconnect has found only the old client to close.
CheckShutdown ==
    /\ at = "check"
    /\ IF ctxDone
       THEN Close(client) /\ Return("stopped")
       ELSE Goto("store") /\ UNCHANGED closed
    /\ UNCHANGED <<client, current, failures, backoff, tries,
                   shutVars, ctxVars, reader, eventCh, frames, got>>

StoreCurrent ==
    /\ at = "store"
    /\ current' = client
    /\ Goto("recv")
    /\ UNCHANGED <<client, failures, backoff, tries, shutVars, ctxVars, streamVars>>

-----------------------------------------------------------------------------
Receive  == RecvOk \/ RecvFails
WaitStep == WaitCancelled \/ WaitOver
Dial     == DialFails \/ \E c \in Clients : DialOk(c)
LoopStep == Receive \/ HandleEvent \/ CountFailure \/ WaitStep \/ Dial
                \/ CheckShutdown \/ StoreCurrent
ShutStep == ShutLoad \/ ShutClose \/ ShutStop
PushStep(c)   == PushFrame(c) \/ PushAbandoned(c) \/ PushStalls(c)
ReaderStep(c) == ReadFrame(c) \/ PushStep(c) \/ StreamEnds(c) \/ ReaderEnds(c)

Next == Cancel \/ ShutStep \/ LoopStep \/ \E c \in Clients : ReaderStep(c)

RecSpec == Init /\ [][Next]_recVars

\* Every goroutine that can move does, timers expire, and handle returns.
\* Nothing is assumed of the frontend, nor of when the shutdown comes.
RecFairness ==
    /\ WF_recVars(LoopStep)
    /\ WF_recVars(ShutStep)
    /\ \A c \in Clients : WF_recVars(PushStep(c)) /\ WF_recVars(ReaderEnds(c))

RecFairSpec == RecSpec /\ RecFairness

-----------------------------------------------------------------------------
(* Properties                                                              *)

\* Types and ranges: the delay stays within its floor and cap, the counts below
\* the give-up threshold (backoff and failures in reconnect).
RecTypeOK ==
    /\ ctxDone \in BOOLEAN
    /\ cancelAt \in LoopState \cup {"never"}
    /\ at \in LoopState
    /\ client \in Clients
    /\ current \in Clients
    /\ failures \in 0 .. MaxReconnectFailures
    /\ backoff \in BaseBackoff .. MaxBackoff
    /\ outcome \in {"running", "stopped", "gaveUp"}
    /\ tries \in 0 .. MaxReconnectFailures
    /\ shut \in {"waiting", "closing", "gone"}
    /\ held \in Clients
    /\ closed \in [Clients -> BOOLEAN]
    /\ reader \in [Clients -> {"reading", "pushing", "gone"}]
    /\ eventCh \in [Clients -> Seq(Nat)]
    /\ frames \in [Clients -> Nat]
    /\ got \in [Clients -> Seq(Nat)]

\* What the loop receives from one stream is a prefix of what the stream
\* carried: a stall, a Close or a late push may cut the tail off, and never
\* leaves a gap, reorders or repeats (readSSE against RecvEvent and Close).
ReceivedPrefix ==
    \A c \in Clients : \A i \in 1 .. Len(got[c]) : got[c][i] = i

\* The loop owns every open stream: only the client it holds may be open, and
\* none is once RunWithClient has returned, whichever goroutine came first
\* (the ownership that RunWithClient promises its callers).
NoLeakedStream ==
    \A c \in Clients : ~closed[c] => c = client /\ at # "done"

\* ErrGiveUpReconnect means a sustained outage: Connect was called on each of
\* the counted attempts but the last, and no event came in between.
GiveUpEarned ==
    outcome = "gaveUp" => tries = MaxReconnectFailures - 1

\* A frontend that accepts every handshake and then drops the stream without
\* an event cannot keep the loop busy for ever (reconnect counts attempts, and
\* only a received event resets the count).
FlappingEnds ==
    (/\ <>[][~RecvOk]_recVars
     /\ []<>(\A c \in Clients : closed[c])) => <>(at = "done")

Stopped ==
    /\ at = "done"
    /\ \A c \in Clients : closed[c] /\ reader[c] = "gone"

\* A shutdown ends the loop and every reader, wherever the loop is, unless it
\* comes in the window between the loop's check and its store.
ShutdownEnds == (ctxDone /\ cancelAt # "store") ~> Stopped

\* The same without the exception, as the comment in run says: a reconnect
\* that succeeds during a shutdown does not leave the loop blocked for ever.
ShutdownAlwaysEnds == ctxDone ~> Stopped
=============================================================================
