---------------------------- MODULE LarkSession -----------------------------
(***************************************************************************)
(* The Lark websocket client: the connect, session, reconnect loop; the    *)
(* read loop that joins the chunks of an event, acknowledges it and hands  *)
(* it to the session's pool of workers; and the end of a session, which    *)
(* cancels its context and drains the pool.  What a worker does with an    *)
(* event is module Inbound.  The Lark server sends an event again as long  *)
(* as it has no acknowledgement.                                           *)
(***************************************************************************)
EXTENDS Integers, Sequences, FiniteSets, Functions

CONSTANTS Events, Workers, Reader, NoEvent,
          Chunked,      \* the events the server splits in two
          QueueCap,     \* dispatchQueueCap
          Budgets,      \* the reconnect counts a pong may carry
          MaxSends,     \* bound on the deliveries of all the events
          MaxDials      \* bound on the failed dials in a row

ASSUME SessionAssumption == /\ QueueCap \in Nat /\ Budgets \subseteq Int
                            /\ Reader \notin Workers /\ NoEvent \notin Events

VARIABLES
  conn,         \* "dial", "up", "ending", "sleep"; "exhausted", "fatal", "stopped": Start returned
  stop,         \* the context given to Start is done
  budget,       \* cfg.ReconnectCount; negative: no limit
  reconnects,   \* the local counter of Start
  wire,         \* the frames on their way to the client
  pending,      \* the reassembler: event -> the chunks stored and the count got
  queue,        \* the jobs channel of the pool
  job,          \* the read loop and the workers -> the event each handles and its step
  acked,        \* the events the server has an acknowledgement of
  sends,        \* event -> how often the server has sent it
  owed,         \* history: event -> how often it was joined less how often its job finished
  torn,         \* history: an event was joined without all of its chunks
  failedDials   \* history: the failed dials since the last session

sessionVars == <<conn, stop, budget, reconnects, wire, pending, queue, job, acked,
                 sends, owed, torn, failedDials>>

Runners == Workers \cup {Reader}
NoJob == [event |-> NoEvent, pc |-> "none"]
Chunks(e) == IF e \in Chunked THEN {0, 1} ELSE {0}
NothingPending == [e \in Events |-> [have |-> {}, got |-> 0]]

(* The context of every job is the session's.                              *)
Cancelled == conn # "up" \/ stop

SessionInit ==
  /\ conn = "dial" /\ stop = FALSE /\ budget = -1 /\ reconnects = 0
  /\ wire = <<>> /\ pending = NothingPending /\ queue = <<>>
  /\ job = [r \in Runners |-> NoJob]
  /\ acked = {} /\ sends = [e \in Events |-> 0]
  /\ owed = [e \in Events |-> 0] /\ torn = FALSE
  /\ failedDials = 0

-----------------------------------------------------------------------------
(* Start: connect, session, reconnect.                                     *)

(* reconnectStep: the budget counts the attempts since the last session.   *)
ReconnectStep(n) ==
  IF stop THEN conn' = "stopped" /\ reconnects' = n
  ELSE IF budget >= 0 /\ n >= budget THEN conn' = "exhausted" /\ reconnects' = n
  ELSE conn' = "sleep" /\ reconnects' = n + 1

DialOk ==
  /\ conn = "dial" /\ ~stop
  /\ conn' = "up" /\ reconnects' = 0 /\ failedDials' = 0
  /\ UNCHANGED <<stop, budget, wire, pending, queue, job, acked, sends, owed, torn>>

(* The bootstrap or the dial fails; wrong credentials are fatal.           *)
DialFails ==
  /\ conn = "dial" /\ ~stop /\ failedDials < MaxDials
  /\ failedDials' = failedDials + 1
  /\ \/ conn' = "fatal" /\ reconnects' = reconnects
     \/ ReconnectStep(reconnects)
  /\ UNCHANGED <<stop, budget, wire, pending, queue, job, acked, sends, owed, torn>>

(* reconnectSleep, which a stop cuts short.                                *)
SleepEnds ==
  /\ conn = "sleep"
  /\ conn' = IF stop THEN "stopped" ELSE "dial"
  /\ UNCHANGED <<stop, budget, reconnects, wire, pending, queue, job, acked, sends,
                 owed, torn, failedDials>>

Stop ==
  /\ ~stop /\ stop' = TRUE
  /\ conn' = IF conn = "dial" THEN "stopped" ELSE conn
  /\ UNCHANGED <<budget, reconnects, wire, pending, queue, job, acked, sends, owed, torn, failedDials>>

(* A pong that carries a configuration: merge keeps what is zero.          *)
Merge(n) == budget' = IF n = 0 THEN budget ELSE n

Pong ==
  /\ conn = "up" /\ job[Reader] = NoJob
  /\ \E n \in Budgets : Merge(n)
  /\ UNCHANGED <<conn, stop, reconnects, wire, pending, queue, job, acked, sends,
                 owed, torn, failedDials>>

-----------------------------------------------------------------------------
(* The server, and the read loop.                                          *)

(* The server delivers an event it has no acknowledgement of, in as many   *)
(* frames as it has chunks, or one chunk of it once more.                  *)
Frame(e, n) == [event |-> e, seq |-> n]
Frames(e) == IF e \in Chunked THEN <<Frame(e, 0), Frame(e, 1)>> ELSE <<Frame(e, 0)>>

Deliver(e) ==
  /\ conn = "up" /\ e \notin acked /\ SumFunction(sends) < MaxSends
  /\ wire' \in {wire \o Frames(e)} \cup {Append(wire, Frame(e, n)) : n \in Chunks(e)}
  /\ sends' = [sends EXCEPT ![e] = @ + 1]
  /\ UNCHANGED <<conn, stop, budget, reconnects, pending, queue, job, acked, owed, torn, failedDials>>

(* Fault: a chunk that is already stored is counted again.                 *)
StoreCountsTwice(p, seq) == [have |-> p.have \cup {seq}, got |-> p.got + 1]
Store(p, seq) == IF seq \in p.have THEN p ELSE [have |-> p.have \cup {seq}, got |-> p.got + 1]

(* Fault: submit drops the event when the queue is full.                   *)
SubmitOrDrop(e) ==
  /\ queue' = IF Len(queue) < QueueCap THEN Append(queue, e) ELSE queue
  /\ job' = job

(* submit, or with a full queue the handler runs on the read loop.         *)
Submit(e) ==
  IF Len(queue) < QueueCap
  THEN queue' = Append(queue, e) /\ job' = job
  ELSE job' = [job EXCEPT ![Reader] = [event |-> e, pc |-> "handle"]] /\ queue' = queue

(* feed: the frame completes its event, or more chunks are outstanding.    *)
(* The acknowledgement of a whole event is written before it is handed on, *)
(* and may be lost with the connection.                                    *)
ReadFrame ==
  /\ conn = "up" /\ ~stop /\ job[Reader] = NoJob /\ wire # <<>>
  /\ LET e == Head(wire).event
         p == Store(pending[e], Head(wire).seq)
     IN \/ /\ p.got < Cardinality(Chunks(e))
           /\ pending' = [pending EXCEPT ![e] = p]
           /\ UNCHANGED <<acked, queue, job, owed, torn>>
        \/ /\ p.got = Cardinality(Chunks(e))
           /\ pending' = [pending EXCEPT ![e] = [have |-> {}, got |-> 0]]
           /\ acked' \in {acked, acked \cup {e}}
           /\ owed' = [owed EXCEPT ![e] = @ + 1]
           /\ torn' = (torn \/ p.have # Chunks(e))
           /\ Submit(e)
  /\ wire' = Tail(wire)
  /\ UNCHANGED <<conn, stop, budget, reconnects, sends, failedDials>>

(* The sweep drops a group of chunks that has waited for its rest too long.*)
Sweep(e) ==
  /\ conn = "up" /\ pending[e].got > 0
  /\ pending' = [pending EXCEPT ![e] = [have |-> {}, got |-> 0]]
  /\ UNCHANGED <<conn, stop, budget, reconnects, wire, queue, job, acked, sends, owed, torn, failedDials>>

WorkerTakes(w) ==
  /\ conn \in {"up", "ending"} /\ job[w] = NoJob /\ queue # <<>>
  /\ job' = [job EXCEPT ![w] = [event |-> Head(queue), pc |-> "handle"]]
  /\ queue' = Tail(queue)
  /\ UNCHANGED <<conn, stop, budget, reconnects, wire, pending, acked, sends, owed, torn, failedDials>>

-----------------------------------------------------------------------------
(* The end of a session: the connection is closed and the context done;    *)
(* when the loops and the workers have returned, Start goes on.            *)

(* A loop has ended: a read or a ping failed, the read deadline passed, or *)
(* the context is done.                                                    *)
SessionBreaks ==
  /\ conn = "up"
  /\ conn' = "ending" /\ wire' = <<>>
  /\ UNCHANGED <<stop, budget, reconnects, pending, queue, job, acked, sends, owed, torn, failedDials>>

SessionEnds ==
  /\ conn = "ending" /\ queue = <<>> /\ \A r \in Runners : job[r] = NoJob
  /\ pending' = NothingPending
  /\ ReconnectStep(0)
  /\ UNCHANGED <<stop, budget, wire, queue, job, acked, sends, owed, torn, failedDials>>

SessionNext ==
  \/ DialOk \/ DialFails \/ SleepEnds \/ Stop \/ Pong \/ ReadFrame
  \/ SessionBreaks \/ SessionEnds
  \/ \E e \in Events : Deliver(e) \/ Sweep(e)
  \/ \E w \in Workers : WorkerTakes(w)

-----------------------------------------------------------------------------
InFlight(e) == Cardinality({i \in DOMAIN queue : queue[i] = e})
               + Cardinality({r \in Runners : job[r].event = e})

(* No acknowledged event falls between the read loop and its handler: as   *)
(* often as an event was joined and not yet handled, it is queued or being *)
(* handled, across full queues and the end of sessions.                    *)
NoEventDropped == \A e \in Events : owed[e] = InFlight(e)

(* Only whole events are handed on, however often the server repeats their *)
(* chunks and whenever the sweep runs.                                     *)
WholeEventsOnly == ~torn
=============================================================================
