---------------------------- MODULE MCLifecycle -----------------------------
(***************************************************************************)
(* What must end: the receive loop of a backend, a turn, an unanswered     *)
(* form and a cancelled CLI process.  The four modules share no variable,  *)
(* so one run explores each of them by itself: part is the one that moves, *)
(* and the fairness of the others asks nothing.                            *)
(***************************************************************************)
EXTENDS Reconnect

CONSTANTS
    Prompts, NoPrompt, Kinds, MaxDeliveries, MaxProgress, MaxOutages, MaxQuickReturns,
    Requests, TurnPrompts, Nobody, MaxClicks,
    Turns, Chats, NoTurn, MaxConcurrent, EventBuf, MaxLines, MaxAttempts, MaxNew

VARIABLES
    part,
    eventIDs, bot, turns, terminals, progress, finalized, pending, tick,
    ctlPump, reclaim, controls, card, replies, unpatched, job, link, used,
    interactive, old, cards, timers, sender, expiry, click, ending, openTurns,
    ended, actionIDs, shown, clicks, answers, askedFor, credit,
    cancelBy, handlerClosed, turn, binding, session, epoch, loop, broker, reply,
    asked, jobs, sent, sem, proc, pump, out, cancelled, lines

Cards == INSTANCE TurnCards WITH answers <- replies
Forms == INSTANCE Interactive WITH asked <- askedFor
Agent == INSTANCE MiniAgent WITH closed <- handlerClosed

cardVars == << eventIDs, bot, turns, terminals, progress, finalized, pending, tick,
               ctlPump, reclaim, controls, card, replies, unpatched, job, link, used >>
formVars == << interactive, old, cards, timers, sender, expiry, click, ending, openTurns,
               ended, actionIDs, shown, clicks, answers, askedFor, credit >>
agentVars == << cancelBy, handlerClosed, turn, binding, session, epoch, loop, broker, reply,
                asked, jobs, sent, sem, proc, pump, out, cancelled, lines >>
lifeVars == << part, recVars, cardVars, formVars, agentVars >>

LifeInit ==
    /\ part \in {"loop", "cards", "forms", "agent"}
    /\ part = "loop" \/ client = CHOOSE c \in Clients : TRUE
    /\ Init /\ Cards!TurnInit /\ Forms!InterInit /\ Agent!AgentInit

LifeNext ==
    \/ part = "loop" /\ Next /\ UNCHANGED << part, cardVars, formVars, agentVars >>
    \/ part = "cards" /\ Cards!TurnNext /\ UNCHANGED << part, recVars, formVars, agentVars >>
    \/ part = "forms" /\ Forms!InterNext /\ UNCHANGED << part, recVars, cardVars, agentVars >>
    \/ part = "agent" /\ Agent!AgentNext /\ UNCHANGED << part, recVars, cardVars, formVars >>

LifeFairSpec ==
    /\ LifeInit /\ [][LifeNext]_lifeVars
    /\ RecFairness /\ Cards!TurnFairness /\ Forms!InterFairness /\ Agent!AgentFairness

\* A turn does not stay in flight for ever (TurnCards).
TurnReleased == Cards!TurnReleased

\* An unanswered form does not stay in the cache for ever (Interactive).
UnansweredIsReaped == Forms!UnansweredIsReaped

\* A cancelled turn of the backend gives its slot and its permit back
\* (MiniAgent).
CancelledEnds == Agent!CancelledEnds
=============================================================================
