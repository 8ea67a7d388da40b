-------------------------- MODULE BackendRegistry --------------------------
(***************************************************************************)
(* The frontend's registry of backend connections, the SSE handler that    *)
(* owns each connection and the health checker that evicts silent ones:    *)
(*   internal/feishufront/registry.go           BackendConn, Registry      *)
(*   internal/feishufront/ipcserver/ipcserver_sse.go      handleSSE        *)
(*   internal/feishufront/ipcserver/ipcserver_health.go   healthTick       *)
(*   internal/feishufront/ipcserver/ipcserver.go          markOffline      *)
(*                                                                         *)
(* One element of Conns is one SSE request: its handler goroutine and the  *)
(* BackendConn it registers.  A step is one critical section (registry.mu, *)
(* conn.mu, the sync.Map) or one flush; everything between two of them can *)
(* interleave with the other handlers, the health checker and the          *)
(* dispatcher.                                                             *)
(***************************************************************************)
EXTENDS Naturals, Sequences, FiniteSets

CONSTANTS
    Backends,       \* backend ids
    Conns,          \* SSE requests the frontend serves; each is used once
    Owner,          \* [Conns -> Backends]: the backendID of the request
    Wedged,         \* conns whose backend reads the stream but never answers
    NoConn,         \* Go's missing map entry
    ChanCap,        \* connEventChanBuf
    MaxMissed,      \* maxMissedPongs
    MaxWasOffline,  \* maxWasOffline
    MaxPrompts      \* bound of the model: prompts the dispatcher sends

ASSUME RegistryAssumption ==
    /\ Owner \in [Conns -> Backends]
    /\ Wedged \subseteq Conns
    /\ NoConn \notin Conns
    /\ ChanCap \in Nat \ {0}
    /\ MaxMissed \in Nat \ {0}
    /\ MaxWasOffline \in Nat \ {0}
    /\ MaxPrompts \in Nat

VARIABLES
    conns,       \* BackendRegistry.conns: the connection bound to each id
    closed,      \* conns whose BackendConn.closed is set (channel closed)
    eventCh,     \* BackendConn.eventCh of each conn
    silent,      \* conns whose lastSeen is older than the health timeout
    missed,      \* BackendConn.missedPongs
    handler,     \* position of each SSE handler goroutine
    health,      \* the health checker goroutine
    wasOffline,  \* IPCServer.wasOffline
    cb,          \* callbacks fireCallback started that have not run yet
    pongs,       \* backends with a pong POST in flight
    sender,      \* the conn the dispatcher's SendEvent looked up
    prompts,     \* prompts sent so far (bounded by MaxPrompts)
    fired,       \* history: offline callbacks each conn's removal fired
    replaced     \* history: conns RegisterWithToken closed and replaced

regVars == << conns, closed, eventCh, silent, missed, handler, health,
              wasOffline, cb, pongs, sender, prompts, fired, replaced >>

HandlerState == {"none", "registered", "streaming", "exiting", "removed", "done"}
Event == {"prompt", "ping"}
ConnOrNone == Conns \cup {NoConn}

\* The health checker: idle, pinging the ids it snapshot (send: id is due a
\* ping; bump: it was queued, its count is not raised yet), judging them, about
\* to Unregister the id it judged dead, or about to report the conn it removed.
HealthState ==
    [at: {"idle", "ping", "send", "bump", "judge", "evict", "report"},
     ids: SUBSET Backends, todo: SUBSET Backends,
     id: SUBSET Backends, conn: ConnOrNone]

Idle == [at |-> "idle", ids |-> {}, todo |-> {}, id |-> {}, conn |-> NoConn]

RegTypeOK ==
    /\ conns \in [Backends -> ConnOrNone]
    /\ closed \subseteq Conns
    /\ eventCh \in [Conns -> Seq(Event)]
    /\ silent \subseteq Conns
    /\ missed \in [Conns -> Nat]
    /\ handler \in [Conns -> HandlerState]
    /\ health \in HealthState
    /\ wasOffline \subseteq Backends
    /\ cb \in [{"offline", "online"} -> [Backends -> Nat]]
    /\ pongs \subseteq Backends
    /\ sender \in ConnOrNone
    /\ prompts \in Nat
    /\ fired \in [Conns -> Nat]
    /\ replaced \subseteq Conns

RegInit ==
    /\ conns = [b \in Backends |-> NoConn]
    /\ closed = {}
    /\ eventCh = [c \in Conns |-> << >>]
    /\ silent = {}
    /\ missed = [c \in Conns |-> 0]
    /\ handler = [c \in Conns |-> "none"]
    /\ health = Idle
    /\ wasOffline = {}
    /\ cb = [k \in {"offline", "online"} |-> [b \in Backends |-> 0]]
    /\ pongs = {}
    /\ sender = NoConn
    /\ prompts = 0
    /\ fired = [c \in Conns |-> 0]
    /\ replaced = {}

-----------------------------------------------------------------------------
(* Operations shared by the actions *)

Bound(c) == conns[Owner[c]] = c

\* fireCallback: the callback runs later, in a goroutine of its own.
FireCallback(kind, b) == cb' = [cb EXCEPT ![kind][b] = @ + 1]

\* markOffline followed by fireCallback(onOffline).  A full set is emptied
\* before the new id is stored.
ReportOffline(b) ==
    /\ wasOffline' = (IF Cardinality(wasOffline) >= MaxWasOffline
                      THEN {} ELSE wasOffline) \cup {b}
    /\ FireCallback("offline", b)

\* Fault: no look at the closed flag.
CanSendUnchecked(c) == Len(eventCh[c]) < ChanCap

\* BackendConn.SendEvent: refused when closed or full, never blocking.
CanSend(c) == c \notin closed /\ Len(eventCh[c]) < ChanCap

-----------------------------------------------------------------------------
(* The SSE handler *)

\* Fault: the connection bound before is forgotten, not closed.
RegisterWithoutClose(c) ==
    /\ handler[c] = "none"
    /\ handler' = [handler EXCEPT ![c] = "registered"]
    /\ replaced' = replaced \cup ({conns[Owner[c]]} \ {NoConn})
    /\ conns' = [conns EXCEPT ![Owner[c]] = c]
    /\ UNCHANGED << closed, eventCh, silent, missed, health, wasOffline, cb,
                    pongs, sender, prompts, fired >>

\* RegisterWithToken: the connection bound before is closed and replaced.
RegisterWithToken(c) ==
    /\ handler[c] = "none"
    /\ handler' = [handler EXCEPT ![c] = "registered"]
    /\ closed' = closed \cup ({conns[Owner[c]]} \ {NoConn})
    /\ replaced' = replaced \cup ({conns[Owner[c]]} \ {NoConn})
    /\ conns' = [conns EXCEPT ![Owner[c]] = c]
    /\ UNCHANGED << eventCh, silent, missed, health, wasOffline, cb, pongs,
                    sender, prompts, fired >>

\* wasOffline.LoadAndDelete, then the online callback when the id was there.
NoteOnline(c) ==
    /\ handler[c] = "registered"
    /\ handler' = [handler EXCEPT ![c] = "streaming"]
    /\ wasOffline' = wasOffline \ {Owner[c]}
    /\ IF Owner[c] \in wasOffline THEN FireCallback("online", Owner[c])
                                  ELSE UNCHANGED cb
    /\ UNCHANGED << conns, closed, eventCh, silent, missed, health, pongs,
                    sender, prompts, fired, replaced >>

\* One event written, flushed and followed by Touch.  A closed channel still
\* yields the events it buffered.  A backend that is not wedged answers a ping
\* with a pong POST.
Flush(c) ==
    /\ handler[c] = "streaming"
    /\ eventCh[c] # << >>
    /\ eventCh' = [eventCh EXCEPT ![c] = Tail(@)]
    /\ silent' = silent \ {c}
    /\ pongs' = IF Head(eventCh[c]) = "ping" /\ c \notin Wedged
                THEN pongs \cup {Owner[c]} ELSE pongs
    /\ UNCHANGED << conns, closed, missed, handler, health, wasOffline, cb,
                    sender, prompts, fired, replaced >>

\* The write fails or passes its deadline: the event is lost, no Touch.
FlushFails(c) ==
    /\ handler[c] = "streaming"
    /\ eventCh[c] # << >>
    /\ eventCh' = [eventCh EXCEPT ![c] = Tail(@)]
    /\ handler' = [handler EXCEPT ![c] = "exiting"]
    /\ UNCHANGED << conns, closed, silent, missed, health, wasOffline, cb,
                    pongs, sender, prompts, fired, replaced >>

\* The request context ends: the backend went away.
PeerGone(c) ==
    /\ handler[c] = "streaming"
    /\ handler' = [handler EXCEPT ![c] = "exiting"]
    /\ UNCHANGED << conns, closed, eventCh, silent, missed, health, wasOffline,
                    cb, pongs, sender, prompts, fired, replaced >>

\* The receive on the closed, drained channel ends the loop.
ChannelClosed(c) ==
    /\ handler[c] = "streaming"
    /\ c \in closed
    /\ eventCh[c] = << >>
    /\ handler' = [handler EXCEPT ![c] = "exiting"]
    /\ UNCHANGED << conns, closed, eventCh, silent, missed, health, wasOffline,
                    cb, pongs, sender, prompts, fired, replaced >>

\* Fault: Unregister by id, without comparing the connection.
UnregisterById(c) ==
    /\ handler[c] = "exiting"
    /\ IF conns[Owner[c]] # NoConn
       THEN /\ conns' = [conns EXCEPT ![Owner[c]] = NoConn]
            /\ closed' = closed \cup {conns[Owner[c]]}
            /\ handler' = [handler EXCEPT ![c] = "removed"]
       ELSE /\ handler' = [handler EXCEPT ![c] = "done"]
            /\ UNCHANGED << conns, closed >>
    /\ UNCHANGED << eventCh, silent, missed, health, wasOffline, cb, pongs,
                    sender, prompts, fired, replaced >>

\* Fault: the exit reports a loss whether or not it removed anything.
UnregisterReportsAlways(c) ==
    /\ handler[c] = "exiting"
    /\ handler' = [handler EXCEPT ![c] = "removed"]
    /\ IF Bound(c)
       THEN /\ conns' = [conns EXCEPT ![Owner[c]] = NoConn]
            /\ closed' = closed \cup {c}
       ELSE UNCHANGED << conns, closed >>
    /\ UNCHANGED << eventCh, silent, missed, health, wasOffline, cb, pongs,
                    sender, prompts, fired, replaced >>

\* The deferred UnregisterIfMatch: only the handler's own connection goes.
UnregisterIfMatch(c) ==
    /\ handler[c] = "exiting"
    /\ IF Bound(c)
       THEN /\ conns' = [conns EXCEPT ![Owner[c]] = NoConn]
            /\ closed' = closed \cup {c}
            /\ handler' = [handler EXCEPT ![c] = "removed"]
       ELSE /\ handler' = [handler EXCEPT ![c] = "done"]
            /\ UNCHANGED << conns, closed >>
    /\ UNCHANGED << eventCh, silent, missed, health, wasOffline, cb, pongs,
                    sender, prompts, fired, replaced >>

\* Fault: the exit path fires the callback without marking the id.
ExitReportUnmarked(c) ==
    /\ handler[c] = "removed"
    /\ handler' = [handler EXCEPT ![c] = "done"]
    /\ FireCallback("offline", Owner[c])
    /\ fired' = [fired EXCEPT ![c] = @ + 1]
    /\ UNCHANGED << conns, closed, eventCh, silent, missed, health, wasOffline,
                    pongs, sender, prompts, replaced >>

\* ... and, when it removed it, markOffline and the offline callback.
ExitReport(c) ==
    /\ handler[c] = "removed"
    /\ handler' = [handler EXCEPT ![c] = "done"]
    /\ ReportOffline(Owner[c])
    /\ fired' = [fired EXCEPT ![c] = @ + 1]
    /\ UNCHANGED << conns, closed, eventCh, silent, missed, health, pongs,
                    sender, prompts, replaced >>

-----------------------------------------------------------------------------
(* The dispatcher's SendEvent and the backend's pong *)

\* registry.SendEvent looks the connection up under the registry's lock ...
SendLookup(b) ==
    /\ sender = NoConn
    /\ prompts < MaxPrompts
    /\ conns[b] # NoConn
    /\ sender' = conns[b]
    /\ prompts' = prompts + 1
    /\ UNCHANGED << conns, closed, eventCh, silent, missed, handler, health,
                    wasOffline, cb, pongs, fired, replaced >>

\* ... and pushes the event under the connection's own lock.
SendPush ==
    /\ sender # NoConn
    /\ eventCh' = IF CanSend(sender)
                  THEN [eventCh EXCEPT ![sender] = Append(@, "prompt")]
                  ELSE eventCh
    /\ sender' = NoConn
    /\ UNCHANGED << conns, closed, silent, missed, handler, health, wasOffline,
                    cb, pongs, prompts, fired, replaced >>

\* handleControl of a TypePong: resets the connection bound to the id NOW.
ReceivePong(b) ==
    /\ b \in pongs
    /\ pongs' = pongs \ {b}
    /\ IF conns[b] = NoConn
       THEN UNCHANGED << missed, silent >>
       ELSE /\ missed' = [missed EXCEPT ![conns[b]] = 0]
            /\ silent' = silent \ {conns[b]}
    /\ UNCHANGED << conns, closed, eventCh, handler, health, wasOffline, cb,
                    sender, prompts, fired, replaced >>

\* Time: a connection's lastSeen falls behind the health timeout.  Not before
\* NoteOnline, which follows Register at once: the timeout is 90 s.
GoSilent(c) ==
    /\ Bound(c)
    /\ handler[c] # "registered"
    /\ c \notin silent
    /\ silent' = silent \cup {c}
    /\ UNCHANGED << conns, closed, eventCh, missed, handler, health, wasOffline,
                    cb, pongs, sender, prompts, fired, replaced >>

-----------------------------------------------------------------------------
(* The health checker: healthTick *)

HealthSnapshot ==
    LET online == {b \in Backends : conns[b] # NoConn} IN
    /\ health.at = "idle"
    /\ online # {}
    /\ health' = [Idle EXCEPT !.at = "ping", !.ids = online, !.todo = online]
    /\ UNCHANGED << conns, closed, eventCh, silent, missed, handler, wasOffline,
                    cb, pongs, sender, prompts, fired, replaced >>

\* The last id starts the eviction pass, once healthPingWait has passed.
NextPing(b) ==
    health' = IF health.todo = {b}
              THEN [Idle EXCEPT !.at = "judge", !.ids = health.ids,
                                !.todo = health.ids]
              ELSE [Idle EXCEPT !.at = "ping", !.ids = health.ids,
                                !.todo = health.todo \ {b}]

\* Get(id): a connection that is silent or still owes a pong is to be pinged ...
HealthLook(b) ==
    LET c == conns[b] IN
    /\ health.at = "ping"
    /\ b \in health.todo
    /\ IF c # NoConn /\ (c \in silent \/ missed[c] > 0)
       THEN health' = [health EXCEPT !.at = "send", !.id = {b}, !.conn = c]
       ELSE NextPing(b)
    /\ UNCHANGED << conns, closed, eventCh, silent, missed, handler, wasOffline,
                    cb, pongs, sender, prompts, fired, replaced >>

\* ... through registry.SendEvent(id), which looks the id up again ...
HealthPing(b) ==
    LET c == conns[b] IN
    /\ health.at = "send"
    /\ health.id = {b}
    /\ IF c # NoConn /\ CanSend(c)
       THEN /\ eventCh' = [eventCh EXCEPT ![c] = Append(@, "ping")]
            /\ health' = [health EXCEPT !.at = "bump"]
       ELSE /\ NextPing(b)
            /\ UNCHANGED eventCh
    /\ UNCHANGED << conns, closed, silent, missed, handler, wasOffline, cb,
                    pongs, sender, prompts, fired, replaced >>

\* Fault: the ping is not counted.
HealthBumpUncounted(b) ==
    /\ health.at = "bump"
    /\ health.id = {b}
    /\ NextPing(b)
    /\ UNCHANGED << conns, closed, eventCh, silent, missed, handler, wasOffline,
                    cb, pongs, sender, prompts, fired, replaced >>

\* ... and a ping that could be queued is counted on the connection of the
\* first lookup; its pong may be here already.
HealthBump(b) ==
    /\ health.at = "bump"
    /\ health.id = {b}
    /\ missed' = [missed EXCEPT ![health.conn] = @ + 1]
    /\ NextPing(b)
    /\ UNCHANGED << conns, closed, eventCh, silent, handler, wasOffline, cb,
                    pongs, sender, prompts, fired, replaced >>

DropId(b) == IF health.todo = {b} THEN Idle
             ELSE [health EXCEPT !.at = "judge", !.todo = @ \ {b},
                                 !.id = {}, !.conn = NoConn]

Unhealthy(c) == c \in silent \/ missed[c] >= MaxMissed

\* Get(id) and the live values of that connection decide ...
HealthJudge(b) ==
    /\ health.at = "judge"
    /\ b \in health.todo
    /\ health' = IF conns[b] # NoConn /\ Unhealthy(conns[b])
                 THEN [health EXCEPT !.at = "evict", !.id = {b},
                                     !.conn = conns[b]]
                 ELSE DropId(b)
    /\ UNCHANGED << conns, closed, eventCh, silent, missed, handler, wasOffline,
                    cb, pongs, sender, prompts, fired, replaced >>

\* ... and Unregister(id), under the lock again, removes whatever connection
\* the id has by then.
HealthEvict(b) ==
    /\ health.at = "evict"
    /\ health.id = {b}
    /\ IF conns[b] = NoConn
       THEN /\ health' = DropId(b)
            /\ UNCHANGED << conns, closed >>
       ELSE /\ health' = [health EXCEPT !.at = "report", !.conn = conns[b]]
            /\ closed' = closed \cup {conns[b]}
            /\ conns' = [conns EXCEPT ![b] = NoConn]
    /\ UNCHANGED << eventCh, silent, missed, handler, wasOffline, cb, pongs,
                    sender, prompts, fired, replaced >>

HealthReport(b) ==
    /\ health.at = "report"
    /\ health.id = {b}
    /\ health' = DropId(b)
    /\ ReportOffline(b)
    /\ fired' = [fired EXCEPT ![health.conn] = @ + 1]
    /\ UNCHANGED << conns, closed, eventCh, silent, missed, handler, pongs,
                    sender, prompts, replaced >>

-----------------------------------------------------------------------------
SSEStep(c) ==
    \/ NoteOnline(c)
    \/ Flush(c)
    \/ FlushFails(c)
    \/ ChannelClosed(c)
    \/ UnregisterIfMatch(c)
    \/ ExitReport(c)

HealthStep(b) ==
    \/ HealthLook(b)
    \/ HealthPing(b)
    \/ HealthBump(b)
    \/ HealthJudge(b)
    \/ HealthEvict(b)
    \/ HealthReport(b)

\* Every step of the registry except the running of a callback.
RegStep ==
    \/ \E c \in Conns : RegisterWithToken(c) \/ PeerGone(c) \/ GoSilent(c) \/ SSEStep(c)
    \/ \E b \in Backends : SendLookup(b) \/ ReceivePong(b) \/ HealthStep(b)
    \/ SendPush
    \/ HealthSnapshot

\* A callback goroutine starts to run.
TakeCallback(kind, b) ==
    /\ cb[kind][b] > 0
    /\ cb' = [cb EXCEPT ![kind][b] = @ - 1]
    /\ UNCHANGED << conns, closed, eventCh, silent, missed, handler, health,
                    wasOffline, pongs, sender, prompts, fired, replaced >>

RegNext == \/ RegStep
           \/ \E kind \in {"offline", "online"}, b \in Backends : TakeCallback(kind, b)

RegSpec == RegInit /\ [][RegNext]_regVars

\* Goroutines run, written events are flushed, time passes and the health
\* ticker keeps ticking.  Nothing forces a backend to connect, to leave or to
\* answer a ping.
RegFairness ==
    /\ \A c \in Conns : WF_regVars(SSEStep(c)) /\ WF_regVars(GoSilent(c))
    /\ WF_regVars(HealthSnapshot)
    /\ \A b \in Backends : WF_regVars(HealthStep(b))

-----------------------------------------------------------------------------
(* Properties *)

Alive(c) == handler[c] \in {"registered", "streaming", "exiting"}

\* A connection is in the map exactly while its handler lives and its channel
\* is open, whatever the order of reconnects, handler exits and evictions: no
\* open connection is unreachable (its handler would wait for ever), and the
\* map never holds a closed one or one of another backend.
NoOrphanConn ==
    /\ \A c \in Conns :
          /\ Bound(c) <=> Alive(c) /\ c \notin closed
          /\ c \in closed => handler[c] # "none"
    /\ \A b \in Backends : conns[b] # NoConn => Owner[conns[b]] = b

\* Who has removed connection c and is about to report it.
SSEReports(c) == handler[c] = "removed"
HealthReports(c) == health.at = "report" /\ health.conn = c

One(condition) == IF condition THEN 1 ELSE 0

\* The replacing Register, the SSE exit and the health checker race to take one
\* connection out of the map.  Every connection that was ever registered has
\* exactly one fate: still bound, silently replaced, about to be reported by
\* one of the two, or reported once.  No loss goes unreported, onOffline never
\* fires twice for one connection, and the exit of a replaced handler never
\* takes the new connection away (UnregisterIfMatch compares pointers for this).
LossAccounted ==
    \A c \in Conns :
        One(Bound(c)) + One(c \in replaced) + One(SSEReports(c))
          + One(HealthReports(c)) + fired[c]
        = One(handler[c] # "none")

\* What has become of connection c.
Fate(c) ==
    IF fired[c] = 1 THEN "reported"
    ELSE IF SSEReports(c) \/ HealthReports(c) THEN "lost"
    ELSE IF c \in replaced THEN "replaced"
    ELSE IF Bound(c) THEN "bound"
    ELSE "new"

\* The registry implements the life of a connection: whoever of Register, the
\* SSE exit and the health checker is faster, a registration replaces exactly
\* the connection bound before, only a bound connection is lost, one at a time,
\* and only a lost one is reported, never one that was replaced.
Life == INSTANCE ConnLife WITH fate <- [c \in Conns |-> Fate(c)]
ImplementsConnLife == Life!LifeSpec

\* Nothing is ever pushed into a closed channel (in Go that panics), although
\* the lookup and the push of SendEvent are two critical sections.
NoSendOnClosed ==
    [][\A c \in Conns : Len(eventCh'[c]) > Len(eventCh[c]) => c \notin closed]_regVars

\* "so handleSSE can distinguish a reconnect from a first-time connect" (the
\* comment on IPCServer.wasOffline): the first connection after the reported
\* loss of a backend's only other one runs the online callback.
ReconnectFiresOnline ==
    [][\A c, d \in Conns :
          /\ Owner[c] = Owner[d] /\ c # d /\ fired[d] > 0
          /\ \A e \in Conns \ {c, d} : Owner[e] = Owner[c] => handler[e] = "none"
          /\ handler[c] = "registered" /\ handler'[c] = "streaming"
          => cb'["online"][Owner[c]] > cb["online"][Owner[c]]]_regVars

\* A backend whose consumer never answers a ping loses its connection, however
\* well the pipe flushes (the missed-pong count does it).
WedgedEvicted == \A c \in Wedged : Bound(c) ~> ~Bound(c)
=============================================================================
