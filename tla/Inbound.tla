------------------------------ MODULE Inbound -------------------------------
(***************************************************************************)
(* The frontend's handling of an inbound message, run by the workers of    *)
(* the websocket session: the age check, the dedup set of event ids, the   *)
(* file and post pipelines, the placeholder card, the turn and the prompt  *)
(* for the backend, with the error path of each.                           *)
(***************************************************************************)
EXTENDS LarkSession

CONSTANTS Uploads,        \* the events that are files or posts to materialise
          StaleWindow, EventTTL, MaxEntries,
          MaxNow,         \* bound on the clock
          MaxFaults       \* bound on failing calls besides cancelled ones

(* The defaults are 300 s for both.                                        *)
ASSUME WindowAssumption == StaleWindow \in Nat /\ EventTTL \in Nat /\ StaleWindow <= EventTTL

VARIABLES
  now,
  born,       \* event -> create_time
  seen,       \* the dedup set: event -> when it was added; -1: absent
  turnOf,     \* the events with a turn in the turn manager
  prompts,    \* history: event -> prompts forwarded to a backend
  failed,     \* history: the events whose last handling failed before a turn
  evicted,    \* history: the events the full dedup set has forgotten
  faultCount

inboundVars == <<sessionVars, now, born, seen, turnOf, prompts, failed, evicted, faultCount>>

InboundInit ==
  /\ SessionInit
  /\ now = 0 /\ born = [e \in Events |-> 0] /\ seen = [e \in Events |-> -1]
  /\ turnOf = {} /\ prompts = [e \in Events |-> 0]
  /\ failed = {} /\ evicted = {} /\ faultCount = 0

-----------------------------------------------------------------------------
(* The steps of a job: goto another step, or finish.                       *)

Goto(r, pc) == job' = [job EXCEPT ![r].pc = pc] /\ owed' = owed
Finish(r) == /\ job' = [job EXCEPT ![r] = NoJob]
             /\ owed' = [owed EXCEPT ![job[r].event] = @ - 1]

SessionKept == UNCHANGED <<conn, stop, budget, reconnects, wire, pending, queue, acked,
                           sends, torn, failedDials>>

(* A call of the Feishu API succeeds only while the context lives, and     *)
(* fails when it does not or by a fault of its own.                        *)
CallOk == ~Cancelled /\ faultCount' = faultCount
CallFails == \/ Cancelled /\ faultCount' = faultCount
             \/ faultCount < MaxFaults /\ faultCount' = faultCount + 1

IsStale(e) == now - born[e] > StaleWindow
Fresh(e) == seen[e] >= 0 /\ now - seen[e] <= EventTTL

(* dedupSet.Add of an id that is not fresh; a full set forgets its oldest. *)
Present == {e \in Events : seen[e] >= 0}
Add(e) ==
  IF seen[e] < 0 /\ Cardinality(Present) >= MaxEntries
  THEN \E old \in Present :
         /\ \A x \in Present : seen[old] <= seen[x]
         /\ seen' = [seen EXCEPT ![old] = -1, ![e] = now]
         /\ evicted' = evicted \cup {old}
  ELSE seen' = [seen EXCEPT ![e] = now] /\ evicted' = evicted

(* Fault: every delivery is handled as new.                                *)
HandleWithoutDedup(r) ==
  /\ job[r].pc = "handle"
  /\ LET e == job[r].event IN
       \/ IsStale(e) /\ Finish(r) /\ UNCHANGED <<seen, evicted, failed>>
       \/ /\ ~IsStale(e) /\ Add(e) /\ failed' = failed \ {e}
          /\ Goto(r, IF e \in Uploads THEN "fetch" ELSE "card")
  /\ SessionKept /\ UNCHANGED <<now, born, turnOf, prompts, faultCount>>

(* DispatchIncoming: an old message and a repeated one end here; a file or *)
(* a post is materialised first; an empty one ends, and one that is too    *)
(* long or of another type is answered with a notice.                      *)
Handle(r) ==
  /\ job[r].pc = "handle"
  /\ LET e == job[r].event IN
       \/ (IsStale(e) \/ Fresh(e)) /\ Finish(r) /\ UNCHANGED <<seen, evicted, failed>>
       \/ /\ ~IsStale(e) /\ ~Fresh(e) /\ Add(e) /\ failed' = failed \ {e}
          /\ \/ Goto(r, IF e \in Uploads THEN "fetch" ELSE "card")
             \/ Goto(r, "notice")
             \/ Finish(r)
  /\ SessionKept /\ UNCHANGED <<now, born, turnOf, prompts, faultCount>>

(* handleFileMessage, handlePostMessage: the route is checked, the file is *)
(* downloaded, stored within the size limit and converted, the images of a *)
(* post become references or placeholders; each failure is a notice.       *)
Fetch(r) ==
  /\ job[r].pc = "fetch"
  /\ \/ CallOk /\ Goto(r, "card")
     \/ CallFails /\ Goto(r, "notice")
  /\ SessionKept /\ UNCHANGED <<now, born, seen, turnOf, prompts, failed, evicted>>

(* dispatchPrompt up to the turn: a chat without a backend, or with one    *)
(* that is offline, gets a notice; when the placeholder card cannot be     *)
(* sent the dedup mark is removed again.                                   *)
SendPlaceholder(r) ==
  /\ job[r].pc = "card"
  /\ \/ /\ CallOk
        /\ \/ Goto(r, "send") /\ turnOf' = turnOf \cup {job[r].event}
           \/ Goto(r, "notice") /\ turnOf' = turnOf
        /\ UNCHANGED <<seen, failed>>
     \/ /\ CallFails /\ Finish(r)
        /\ seen' = [seen EXCEPT ![job[r].event] = -1]
        /\ failed' = failed \cup {job[r].event} /\ turnOf' = turnOf
  /\ SessionKept /\ UNCHANGED <<now, born, prompts, evicted>>

(* Fault: the turn stays although the backend never got the prompt.        *)
ForwardKeepsTurn(r) ==
  /\ job[r].pc = "send"
  /\ \/ prompts' = [prompts EXCEPT ![job[r].event] = @ + 1] /\ Finish(r) /\ faultCount' = faultCount
     \/ /\ faultCount < MaxFaults /\ faultCount' = faultCount + 1
        /\ Goto(r, "notice") /\ prompts' = prompts
  /\ SessionKept /\ UNCHANGED <<now, born, seen, turnOf, failed, evicted>>

(* SendEvent to the backend, which may just have gone: the turn is ended   *)
(* and the user told.                                                      *)
Forward(r) ==
  /\ job[r].pc = "send"
  /\ \/ /\ prompts' = [prompts EXCEPT ![job[r].event] = @ + 1] /\ Finish(r)
        /\ UNCHANGED <<turnOf, faultCount>>
     \/ /\ faultCount < MaxFaults /\ faultCount' = faultCount + 1
        /\ turnOf' = turnOf \ {job[r].event}
        /\ Goto(r, "notice") /\ prompts' = prompts
  /\ SessionKept /\ UNCHANGED <<now, born, seen, failed, evicted>>

(* The notice reaches the chat, or its failure is only reported.           *)
Notice(r) ==
  /\ job[r].pc = "notice"
  /\ CallOk \/ CallFails
  /\ Finish(r)
  /\ SessionKept /\ UNCHANGED <<now, born, seen, turnOf, prompts, failed, evicted>>

(* The dedup sweeper.                                                      *)
PruneSeen ==
  /\ \E e \in Events : seen[e] >= 0 /\ ~Fresh(e)
  /\ seen' = [e \in Events |-> IF Fresh(e) THEN seen[e] ELSE -1]
  /\ UNCHANGED <<sessionVars, now, born, turnOf, prompts, failed, evicted, faultCount>>

Tick ==
  /\ now < MaxNow /\ now' = now + 1
  /\ UNCHANGED <<sessionVars, born, seen, turnOf, prompts, failed, evicted, faultCount>>

(* A session step; a message is created with its first delivery.           *)
SessionStep ==
  /\ SessionNext
  /\ born' = [e \in Events |-> IF sends[e] = 0 /\ sends'[e] = 1 THEN now ELSE born[e]]
  /\ UNCHANGED <<now, seen, turnOf, prompts, failed, evicted, faultCount>>

InboundNext ==
  \/ SessionStep \/ PruneSeen \/ Tick
  \/ \E r \in Runners : Handle(r) \/ Fetch(r) \/ SendPlaceholder(r) \/ Forward(r) \/ Notice(r)

InboundSpec == InboundInit /\ [][InboundNext]_inboundVars

-----------------------------------------------------------------------------
(* The server's redeliveries and the retries of a failed handling never    *)
(* make one message two prompts, as long as the dedup set is not full.     *)
OnePromptPerMessage == \A e \in Events \ evicted : prompts[e] <= 1

(* Every turn belongs to a prompt that was forwarded, or is about to be.   *)
NoOrphanTurn ==
  \A e \in turnOf : prompts[e] > 0 \/ \E r \in Runners : job[r] = [event |-> e, pc |-> "send"]

(* A message whose handling failed before a turn was established is        *)
(* delivered again: the server has no acknowledgement of it, or another    *)
(* delivery is on its way to a handler.                                    *)
FailedIsRedelivered == \A e \in failed : e \in acked => InFlight(e) > 0
=============================================================================
