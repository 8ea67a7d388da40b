----------------------------- MODULE FeishuBot -----------------------------
(***************************************************************************)
(* The outgoing side of the Feishu bot.                                    *)
(*   internal/lark/auth.go          Token: one fetch for all its callers   *)
(*   internal/lark/rest.go          the card and message endpoints         *)
(*   internal/feishu/bot_send.go    SendCard, UpdateCard, the sequence     *)
(*   internal/feishu/bot.go, cmd/feishu-front/main.go   the watchdog       *)
(*                                                                         *)
(* One card is created as an entity, sent by reference and then updated by *)
(* several goroutines.  Every request first asks the token manager for a   *)
(* token, which it may have to fetch.  Tokens and fetches are numbered.    *)
(***************************************************************************)
EXTENDS Integers, FiniteSets

CONSTANTS
    Sender,          \* the goroutine that sends the card
    Updates,         \* updates of the card, each on a goroutine of its own
    Oversized,       \* the updates whose content the server rejects
    NoUpdate,
    MaxFetches,      \* bound: token fetches
    MaxLosses,       \* bound: requests that fail or whose answer is lost
    WsFatalAfter,    \* ticks without a healthy signal until the watchdog exits
    MaxTicks         \* bound: the clock

Callers == Updates \cup {Sender}

ASSUME BotAssumption ==
    /\ Sender \notin Updates /\ NoUpdate \notin Updates /\ Oversized \subseteq Updates
    /\ WsFatalAfter \in Nat /\ MaxFetches \in Nat /\ MaxLosses \in Nat /\ MaxTicks \in Nat

VARIABLES
    cached, fresh,          \* tokenManager.cached (0: none) and whether it is in time
    inflight,               \* the fetch in flight, 0: none
    inflightTok, inflightErr,
    fetches,                \* fetches begun
    call,                   \* caller -> [op, pos, tok, ch]: its request
    ref,                    \* the card: "none", "entity", "sent", "lost"
    counter,                \* cardState.seq
    seqOf,                  \* update -> the sequence of its PUT
    card,                   \* the entity on the server: [seq, shows, gone]
    losses,
    ticks, lastHealthy,     \* the clock and Bot.lastHealthy, -1: never healthy
    link,                   \* the websocket session: "down", "up"
    stableSince,            \* history: when the session came up
    front                   \* the frontend process: "up", "exited"

tokenVars == << cached, fresh, inflight, inflightTok, inflightErr, fetches >>
cardVars == << ref, counter, seqOf, card, losses >>
healthVars == << ticks, lastHealthy, link, stableSince, front >>
botVars == << tokenVars, cardVars, healthVars, call >>

Idle == [op |-> "none", pos |-> "idle", tok |-> 0, ch |-> 0]

BotInit ==
    /\ cached = 0 /\ fresh = FALSE /\ inflight = 0
    /\ inflightTok = 0 /\ inflightErr = FALSE /\ fetches = 0
    /\ call = [u \in Callers |-> Idle]
    /\ ref = "none" /\ counter = 0 /\ losses = 0
    /\ seqOf = [u \in Updates |-> 0]
    /\ card = [seq |-> 0, shows |-> NoUpdate, gone |-> FALSE]
    /\ ticks = 0 /\ lastHealthy = -1 /\ link = "down" /\ stableSince = 0 /\ front = "up"

At(u, pos) == front = "up" /\ call[u].pos = pos
Move(u, pos) == call' = [call EXCEPT ![u].pos = pos]
Request(u, op) == call' = [call EXCEPT ![u] = [Idle EXCEPT !.op = op, !.pos = "token"]]
MarkHealthy == lastHealthy' = ticks

-----------------------------------------------------------------------------
(* tokenManager.Token *)

GotToken(u, tok) == call' = [call EXCEPT ![u].pos = "http", ![u].tok = tok]

\* The request ends with the error; what it was for is over.
GaveUp(u) == Move(u, "failed")

TokenCached(u) ==
    /\ At(u, "token") /\ cached # 0 /\ fresh
    /\ GotToken(u, cached)
    /\ UNCHANGED << tokenVars, cardVars, healthVars >>

TokenFollow(u) ==
    /\ At(u, "token") /\ ~(cached # 0 /\ fresh) /\ inflight # 0
    /\ call' = [call EXCEPT ![u].pos = "wait", ![u].ch = inflight]
    /\ UNCHANGED << tokenVars, cardVars, healthVars >>

\* Fault: the results of the fetch before are reset when the gate opens.
TokenLeadResets(u) ==
    /\ At(u, "token") /\ ~(cached # 0 /\ fresh) /\ inflight = 0
    /\ fetches < MaxFetches
    /\ fetches' = fetches + 1 /\ inflight' = fetches + 1
    /\ inflightTok' = 0 /\ inflightErr' = FALSE
    /\ Move(u, "fetch")
    /\ UNCHANGED << cached, fresh, cardVars, healthVars >>

TokenLead(u) ==
    /\ At(u, "token") /\ ~(cached # 0 /\ fresh) /\ inflight = 0
    /\ fetches < MaxFetches
    /\ fetches' = fetches + 1 /\ inflight' = fetches + 1
    /\ Move(u, "fetch")
    /\ UNCHANGED << cached, fresh, inflightTok, inflightErr, cardVars, healthVars >>

\* fetch returns to the leader, which publishes the result and closes the
\* channel in one critical section.
FetchOk(u) ==
    /\ At(u, "fetch")
    /\ cached' = inflight /\ fresh' = TRUE
    /\ inflightTok' = inflight /\ inflightErr' = FALSE /\ inflight' = 0
    /\ GotToken(u, inflight)
    /\ UNCHANGED << fetches, cardVars, healthVars >>

\* Any failure of fetch, the end of the leader's context included.
FetchFails(u) ==
    /\ At(u, "fetch")
    /\ inflightTok' = 0 /\ inflightErr' = TRUE /\ inflight' = 0
    /\ GaveUp(u)
    /\ UNCHANGED << cached, fresh, fetches, cardVars, healthVars >>

\* The channel is closed: the shared result, which may be that of a later fetch.
FollowerWakes(u) ==
    /\ At(u, "wait") /\ inflight # call[u].ch
    /\ IF inflightErr THEN GaveUp(u) ELSE GotToken(u, inflightTok)
    /\ UNCHANGED << tokenVars, cardVars, healthVars >>

\* The follower's own context is done first.
FollowerGivesUp(u) ==
    /\ At(u, "wait")
    /\ GaveUp(u)
    /\ UNCHANGED << tokenVars, cardVars, healthVars >>

TokenExpires ==
    /\ fresh
    /\ fresh' = FALSE
    /\ UNCHANGED << cached, inflight, inflightTok, inflightErr, fetches, call,
                    cardVars, healthVars >>

TokenStep(u) == TokenCached(u) \/ TokenFollow(u) \/ TokenLead(u) \/ FetchOk(u)
                    \/ FetchFails(u) \/ FollowerWakes(u) \/ FollowerGivesUp(u)

-----------------------------------------------------------------------------
(* SendCard: the entity, then the message that refers to it *)

SendCard ==
    /\ At(Sender, "idle")
    /\ Request(Sender, "create")
    /\ UNCHANGED << tokenVars, cardVars, healthVars >>

CreateCardEntity ==
    /\ At(Sender, "http") /\ call[Sender].op = "create"
    /\ ref' = "entity"
    /\ Request(Sender, "send")
    /\ UNCHANGED << tokenVars, counter, seqOf, card, losses, healthVars >>

SendReference ==
    /\ At(Sender, "http") /\ call[Sender].op = "send"
    /\ ref' = "sent"
    /\ Move(Sender, "done")
    /\ MarkHealthy
    /\ UNCHANGED << tokenVars, counter, seqOf, card, losses, ticks, link, stableSince, front >>

-----------------------------------------------------------------------------
(* UpdateCard: a sequence number under the card's mutex, then the PUT *)

\* Fault: the number is read under the mutex and counted up by a later step.
AllocateSeqUncounted(u, op) ==
    /\ counter' = counter + (IF op = "fallback" THEN 1 ELSE 0)
    /\ seqOf' = [seqOf EXCEPT ![u] = counter + 1]
    /\ Request(u, op)

AllocateSeq(u, op) ==
    /\ counter' = counter + 1
    /\ seqOf' = [seqOf EXCEPT ![u] = counter + 1]
    /\ Request(u, op)

BeginUpdate(u) ==
    /\ At(u, "idle") /\ ref = "sent"
    /\ AllocateSeq(u, "put")
    /\ UNCHANGED << tokenVars, ref, card, losses, healthVars >>

InOrder(u) == seqOf[u] > card.seq /\ ~card.gone

\* The server replaces the card.  A fallback card belongs to its update.
PutOk(u) ==
    /\ At(u, "http") /\ InOrder(u)
    /\ call[u].op = "put" => u \notin Oversized
    /\ card' = [card EXCEPT !.seq = seqOf[u], !.shows = u]
    /\ Move(u, "done")
    /\ MarkHealthy
    /\ UNCHANGED << tokenVars, ref, counter, seqOf, losses, ticks, link, stableSince, front >>

\* 300317: not the newest number any more.
PutOutOfOrder(u) ==
    /\ At(u, "http") /\ seqOf[u] <= card.seq /\ ~card.gone
    /\ Move(u, "stale")
    /\ UNCHANGED << tokenVars, cardVars, healthVars >>

\* 230025, 11310: the fallback card goes out under the next number.
PutRejected(u) ==
    /\ At(u, "http") /\ call[u].op = "put" /\ u \in Oversized /\ ~card.gone
    /\ AllocateSeq(u, "fallback")
    /\ UNCHANGED << tokenVars, ref, card, losses, healthVars >>

\* The entity is deleted or past its 14 days, on the server.
CardExpires ==
    /\ ref = "sent" /\ ~card.gone
    /\ card' = [card EXCEPT !.gone = TRUE]
    /\ UNCHANGED << tokenVars, ref, counter, seqOf, losses, healthVars, call >>

\* 200740, 200750 (IsCardGone): the card's counter is dropped.
PutGone(u) ==
    /\ At(u, "http") /\ card.gone
    /\ counter' = 0
    /\ Move(u, "failed")
    /\ UNCHANGED << tokenVars, ref, seqOf, card, losses, healthVars >>

\* Any other failure of a request, which may have reached the server.
RequestFails(u) ==
    /\ At(u, "http") /\ losses < MaxLosses
    /\ losses' = losses + 1
    /\ Move(u, "failed")
    /\ card' \in {card} \cup (IF u \in Updates /\ InOrder(u)
                                THEN {[card EXCEPT !.seq = seqOf[u], !.shows = u]} ELSE {})
    /\ ref' = IF u = Sender THEN "lost" ELSE ref
    /\ UNCHANGED << tokenVars, counter, seqOf, healthVars >>

CardStep == \/ SendCard \/ CreateCardEntity \/ SendReference
            \/ \E u \in Updates : BeginUpdate(u) \/ PutOk(u) \/ PutOutOfOrder(u) \/ PutRejected(u)
                                    \/ PutGone(u)
            \/ CardExpires
            \/ \E u \in Callers : RequestFails(u)

-----------------------------------------------------------------------------
(* The health signal and the watchdog *)

\* OnReady and OnReconnected
SessionUp ==
    /\ front = "up" /\ link = "down"
    /\ link' = "up" /\ stableSince' = ticks
    /\ MarkHealthy
    /\ UNCHANGED << tokenVars, cardVars, call, ticks, front >>

SessionDown ==
    /\ front = "up" /\ link = "up"
    /\ link' = "down"
    /\ UNCHANGED << tokenVars, cardVars, call, ticks, lastHealthy, stableSince, front >>

\* A message or a card action arrives.  The pongs of the session do not count.
InboundEvent ==
    /\ front = "up" /\ link = "up" /\ lastHealthy # ticks
    /\ MarkHealthy
    /\ UNCHANGED << tokenVars, cardVars, call, ticks, link, stableSince, front >>

ClockTick ==
    /\ front = "up" /\ ticks < MaxTicks
    /\ ticks' = ticks + 1
    /\ UNCHANGED << tokenVars, cardVars, call, lastHealthy, link, stableSince, front >>

\* ShouldExitUnhealthy; the process started at 0.
ShouldExitUnhealthy ==
    lastHealthy # -1 /\ ticks >= WsFatalAfter /\ ticks - lastHealthy > WsFatalAfter

Watchdog ==
    /\ front = "up" /\ ShouldExitUnhealthy
    /\ front' = "exited"
    /\ UNCHANGED << tokenVars, cardVars, call, ticks, lastHealthy, link, stableSince >>

BotNext ==
    \/ \E u \in Callers : TokenStep(u)
    \/ TokenExpires \/ CardStep
    \/ SessionUp \/ SessionDown \/ InboundEvent \/ ClockTick \/ Watchdog

BotSpec == BotInit /\ [][BotNext]_botVars

-----------------------------------------------------------------------------
(* Properties *)

\* A follower reads the shared result after its channel was closed, when other
\* fetches may have begun or ended: it gets a token or an error, never the
\* empty token of a result that is not there yet.
NoEmptyToken == \A u \in Callers : call[u].pos = "http" => call[u].tok # 0

\* Sequence numbers order the updates although the PUTs of the ticker, the
\* pump and the clicks overtake one another: once all have ended and none was
\* lost, the card shows the one numbered last, the fallbacks included.
NewestShown ==
    (~card.gone /\ \A u \in Updates : call[u].pos \in {"idle", "done", "stale"})
        => card.seq = counter

\* What main.go says of wsFatalAfter: a stable connection is not mistaken for
\* dead during idle periods.
IdleNotMistakenForDead ==
    [][Watchdog => link = "down" \/ ticks - stableSince <= WsFatalAfter]_botVars

=============================================================================
