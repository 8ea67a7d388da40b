---------------------------- MODULE StatusCards -----------------------------
(***************************************************************************)
(* The standing status cards of the frontend.                              *)
(*   internal/statusmonitor/handler.go               Run, tick, /status    *)
(*   internal/feishufront/dispatcher_status.go       sendStatusReportAsync *)
(*   internal/feishufront/dispatcher_control.go      sendStatusReport, ... *)
(*                                                                         *)
(* Every report of the status monitor is broadcast by a goroutine of its   *)
(* own, which updates the card of each bound chat or sends a new one.  The *)
(* map of message ids is written under statusMu and the map of entity ids  *)
(* under cardMu; both are read under statusMu.                             *)
(***************************************************************************)
EXTENDS Naturals, FiniteSets

CONSTANTS
    Reports,         \* broadcasts that may overlap: statusSendSem
    Chats,           \* chats bound to the status monitor
    MaxStatusCards,  \* maxStatusCards
    MaxCards         \* bound: cards sent, and with it the broadcasts

VARIABLES
    statusCards,    \* Dispatcher.statusCards: the message of each chat, 0: none
    statusCardIDs,  \* Dispatcher.statusCardIDs: the entity of each chat, 0: none
    report,         \* each broadcast: its step, the chats left, the card in hand
    cards,          \* cards sent; the n-th is the message n with the entity n
    gone,           \* entities that no longer exist
    crashed         \* the runtime has stopped the frontend

statusVars == << statusCards, statusCardIDs, report, cards, gone, crashed >>

Waiting == [at |-> "idle", todo |-> {}, chat |-> {}, msg |-> 0, id |-> 0]

StatusInit ==
    /\ statusCards = [k \in Chats |-> 0] /\ statusCardIDs = [k \in Chats |-> 0]
    /\ report = [r \in Reports |-> Waiting]
    /\ cards = 0 /\ gone = {} /\ crashed = FALSE

At(r, at) == ~crashed /\ report[r].at = at
Goto(r, at) == report' = [report EXCEPT ![r].at = at]
NextChat(r) == report' = [report EXCEPT ![r] =
                   IF @.todo = {} THEN Waiting ELSE [Waiting EXCEPT !.at = "read", !.todo = @.todo]]

\* With every permit taken a report is dropped.
SendStatusReport(r) ==
    /\ At(r, "idle") /\ Chats # {}
    /\ report' = [report EXCEPT ![r] = [Waiting EXCEPT !.at = "read", !.todo = Chats]]
    /\ UNCHANGED << statusCards, statusCardIDs, cards, gone, crashed >>

\* The monitor reports at every interval and when a user asks for it.
Tick(r) == SendStatusReport(r)
StatusRefresh(r) == SendStatusReport(r)

\* Both maps are read under statusMu.  A write of statusCardIDs does not hold
\* it: the read may see either entry, or the runtime stops the process.
ReadCard(r) ==
    /\ At(r, "read")
    /\ \E k \in report[r].todo :
           \E id \in {statusCardIDs[k]} \cup
                     {report[q].id : q \in {q \in Reports : /\ report[q].at = "writing"
                                                            /\ report[q].chat = {k}}} :
               report' = [report EXCEPT ![r] =
                   [at |-> IF statusCards[k] = 0 THEN "send" ELSE "patch",
                    todo |-> @.todo \ {k}, chat |-> {k}, msg |-> statusCards[k], id |-> id]]
    /\ crashed' \in {FALSE, \E q \in Reports : report[q].at = "writing"}
    /\ UNCHANGED << statusCards, statusCardIDs, cards, gone >>

\* The update lands, or a failure keeps the card for the next tick.
PatchCard(r) ==
    /\ At(r, "patch") /\ report[r].id \notin gone
    /\ NextChat(r)
    /\ UNCHANGED << statusCards, statusCardIDs, cards, gone, crashed >>

\* IsCardGone: the message id is forgotten, the entity id stays.
ForgetCard(r) ==
    /\ At(r, "patch") /\ report[r].id \in gone
    /\ statusCards' = [k \in Chats |-> IF k \in report[r].chat THEN 0 ELSE statusCards[k]]
    /\ Goto(r, "send")
    /\ UNCHANGED << statusCardIDs, cards, gone, crashed >>

SendCard(r) ==
    /\ At(r, "send") /\ cards < MaxCards
    /\ \/ /\ cards' = cards + 1
          /\ report' = [report EXCEPT ![r].at = "store", ![r].msg = cards + 1, ![r].id = cards + 1]
       \/ NextChat(r) /\ cards' = cards
    /\ UNCHANGED << statusCards, statusCardIDs, gone, crashed >>

\* Under statusMu; a full map is emptied first.
StoreMessage(r) ==
    /\ At(r, "store")
    /\ LET full == Cardinality({k \in Chats : statusCards[k] # 0}) >= MaxStatusCards
       IN  statusCards' = [k \in Chats |->
               IF k \in report[r].chat THEN report[r].msg ELSE IF full THEN 0 ELSE statusCards[k]]
    /\ Goto(r, "lock")
    /\ UNCHANGED << statusCardIDs, cards, gone, crashed >>

\* Under cardMu: two writes exclude each other.
WriteEntity(r) ==
    /\ At(r, "lock") /\ \A q \in Reports : report[q].at # "writing"
    /\ Goto(r, "writing")
    /\ UNCHANGED << statusCards, statusCardIDs, cards, gone, crashed >>

WrittenEntity(r) ==
    /\ At(r, "writing")
    /\ statusCardIDs' = [k \in Chats |->
           IF k \in report[r].chat THEN report[r].id ELSE statusCardIDs[k]]
    /\ NextChat(r)
    /\ UNCHANGED << statusCards, cards, gone, crashed >>

\* The entity is deleted or past its 14 days, on the server.
CardVanishes ==
    /\ ~crashed
    /\ \E n \in 1 .. cards \ gone : gone' = gone \cup {n}
    /\ UNCHANGED << statusCards, statusCardIDs, report, cards, crashed >>

StatusNext ==
    \/ \E r \in Reports : \/ Tick(r) \/ StatusRefresh(r) \/ ReadCard(r) \/ PatchCard(r) \/ ForgetCard(r)
                          \/ SendCard(r) \/ StoreMessage(r) \/ WriteEntity(r) \/ WrittenEntity(r)
    \/ CardVanishes

StatusSpec == StatusInit /\ [][StatusNext]_statusVars

-----------------------------------------------------------------------------
(* Properties *)

\* "statusCardIDs mirrors statusCards with the CardKit entity id the same card
\* was sent under": between broadcasts the two maps name the same card.
IDsMirrorCards ==
    (\A r \in Reports : report[r].at = "idle") =>
        \A k \in Chats : statusCards[k] # 0 => statusCardIDs[k] = statusCards[k]

=============================================================================
