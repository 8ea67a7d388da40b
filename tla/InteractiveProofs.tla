------------------------ MODULE InteractiveProofs --------------------------
(***************************************************************************)
(* Proofs about Interactive: a cached form is rendered expired or finished *)
(* once, one request owns a card, and no unanswered card stays in the      *)
(* cache without the timer that takes it out.                              *)
(***************************************************************************)
EXTENDS Interactive, TLAPS, FiniteSetTheorems

\* The types of the state; a card has the name of its first request.
Card == Requests \cup {Nobody}
Prompt == TurnPrompts \cup {Nobody}

Face == [r : Card, form : {"pending", "submitted", "expired", "finished"}]
TimerState == [at : {"none", "armed", "fired"}, msg : Card]
ExpiryState == [at : {"idle", "unbind", "take", "flip"}, msg : Card]
ClickState ==
    [at : {"idle", "take", "flip", "check", "store", "forward", "done"}, msg : Card]
EndingState == [at : {"idle", "take", "flip"}, todo : SUBSET (Requests \X Card)]
SenderState ==
    [at : {"idle", "sweep", "drop", "evict", "unload", "bind", "cache"},
     r : Card, p : Prompt, msg : Card, refresh : BOOLEAN, drop : SUBSET Requests]

InterTypeOK ==
    /\ interactive \in [Requests -> [msg : Card, prompt : Prompt]]
    /\ old \subseteq Requests
    /\ cards \in [Requests -> {"none", "pending", "submitted"}]
    /\ timers \in [Requests -> TimerState]
    /\ sender \in SenderState
    /\ expiry \in [Requests -> ExpiryState]
    /\ click \in [Requests -> ClickState]
    /\ ending \in [Ender -> EndingState]
    /\ openTurns \subseteq TurnPrompts /\ ended \subseteq TurnPrompts
    /\ actionIDs \subseteq Requests /\ asked \subseteq Requests
    /\ shown \in [Requests -> Face]
    /\ clicks \in Nat
    /\ answers \in [Requests -> Nat]
    /\ credit \in [Requests -> Int]

-----------------------------------------------------------------------------
(* The inductive invariant *)

\* The end of a turn in w still has the form of r to show finished.
Finishes(w, r) == ending[w].at = "flip" /\ \E b \in ending[w].todo : b[1] = r

\* The forms of r that are cached, or out of the cache and still to be flipped.
Count(P) == IF P THEN 1 ELSE 0
Held(r) == Count(Finishes("pump", r)) + Count(Finishes("reclaim", r))
             + Count(expiry[r].at = "flip") + Count(cards[r] # "none")

\* Whoever ends a turn lists a card once.
ListedOnce ==
    \A w \in Ender : \A b, c \in ending[w].todo : b[1] = c[1] => b = c

HeldIsCredited == \A r \in Requests : Held(r) <= credit[r]

\* A binding is whole, and it names a card that was sent.
BoundIsWhole ==
    \A r \in Requests :
        interactive[r] # NoBinding => /\ r \in asked
                                      /\ interactive[r].msg \in asked
                                      /\ interactive[r].prompt \in TurnPrompts

\* What Feishu shows was sent.
ShownWasSent == \A m \in Requests : shown[m].r # Nobody => m \in asked

\* A click in these steps patches the card it was made on.
Patching == {"take", "flip", "check", "store"}

\* The cards the callbacks, clicks and ends of turns patch were sent.
PatchedWasSent ==
    /\ \A r \in Requests : timers[r].at # "none" => timers[r].msg \in asked
    /\ \A r \in Requests : expiry[r].at # "idle" => expiry[r].msg \in asked
    /\ \A r \in Requests :
           click[r].at \in Patching => click[r].msg \in asked
    /\ \A w \in Ender : \A b \in ending[w].todo : b[2] \in asked

\* The card of the request being sent has no other owner: a first round has a
\* new card, and a follow-up round has evicted the rounds before it.
CardIsFree ==
    sender.at # "idle" =>
        /\ sender.r \in asked /\ sender.msg \in asked /\ sender.p \in TurnPrompts
        /\ sender.at # "cache" =>
               /\ interactive[sender.r] = NoBinding
               /\ ~sender.refresh \/ sender.at \in {"unload", "bind"} =>
                      \A q \in Requests : interactive[q].msg # sender.msg

\* No two bindings name the same card, at any time.
OwnersDiffer ==
    \A r, q \in Requests :
        interactive[r] # NoBinding /\ interactive[r].msg = interactive[q].msg => r = q

\* Only an answered request has a click under way.
ClickedIsAnswered == \A r \in Requests : click[r].at # "idle" => r \in actionIDs

\* The cached form of an unanswered request has a timer.
CachedHasTimer ==
    \A r \in Requests \ actionIDs : cards[r] # "none" => timers[r].at # "none"

InterInv ==
    /\ InterTypeOK /\ ListedOnce /\ HeldIsCredited /\ BoundIsWhole /\ ShownWasSent
    /\ PatchedWasSent /\ CardIsFree /\ OwnersDiffer /\ ClickedIsAnswered
    /\ CachedHasTimer

-----------------------------------------------------------------------------
(* Types *)

LEMMA InterTypeInit == InterInit => InterTypeOK
<1> SUFFICES ASSUME InterInit PROVE InterTypeOK
  OBVIOUS
<1>1. timers \in [Requests -> TimerState] /\ expiry \in [Requests -> ExpiryState]
  BY DEF InterInit, NoTimer, NoTimerRuns, TimerState, ExpiryState, Card
<1>2. ending \in [Ender -> EndingState]
  BY DEF InterInit, NoEnding, EndingState
<1>3. sender \in SenderState
  BY DEF InterInit, Quiet, SenderState, Card, Prompt
<1>4. /\ interactive \in [Requests -> [msg : Card, prompt : Prompt]]
      /\ click \in [Requests -> ClickState] /\ shown \in [Requests -> Face]
  BY DEF InterInit, NoBinding, ClickState, Face, Card, Prompt
<1> QED
  BY <1>1, <1>2, <1>3, <1>4 DEF InterInit, InterTypeOK

\* What Feishu shows keeps its type when a call that may fail changes it.
LEMMA UpdateCardType ==
    ASSUME InterTypeOK, NEW m, NEW r \in Requests,
           NEW form \in {"pending", "submitted", "expired", "finished"},
           UpdateCard(m, r, form)
    PROVE  shown' \in [Requests -> Face]
<1> DEFINE new == [r |-> r, form |-> form]
<1>1. shown \in [Requests -> Face] /\ new \in Face
  BY DEF InterTypeOK, Card, Face
<1>2. shown' = shown \/ shown' = [shown EXCEPT ![m] = new]
  BY DEF UpdateCard
<1> HIDE DEF new
<1> QED BY <1>1, <1>2

LEMMA SenderTypeStep ==
    ASSUME InterTypeOK, Ask \/ SenderStep
    PROVE  InterTypeOK'
<1>1. ASSUME NEW r \in Requests, NEW p \in TurnPrompts, NEW m \in Requests,
             SendRefresh(r, p, m)
      PROVE  InterTypeOK'
  <2>1. shown' \in [Requests -> Face]
    BY <1>1, UpdateCardType DEF SendRefresh
  <2>2. sender' = [Quiet EXCEPT !.at = "sweep", !.r = r, !.p = p, !.msg = m,
                                !.refresh = TRUE]
    BY <1>1 DEF SendRefresh
  <2>3. sender' \in SenderState
    BY <2>2 DEF Quiet, SenderState, Card, Prompt
  <2> QED BY <1>1, <2>1, <2>3 DEF SendRefresh, InterTypeOK
<1>2. ASSUME NEW r \in Requests, NEW p \in TurnPrompts, NEW t \in BOOLEAN,
             SendFirst(r, p, t)
      PROVE  InterTypeOK'
  <2>1. openTurns' \subseteq TurnPrompts
    BY <1>2 DEF SendFirst, InterTypeOK
  <2>2. CASE UNCHANGED << shown, sender, asked >>
    BY <1>2, <2>1, <2>2 DEF SendFirst, InterTypeOK
  <2>3. CASE ~UNCHANGED << shown, sender, asked >>
    <3>1. UpdateCard(r, r, "pending")
      BY <1>2, <2>3 DEF SendFirst, UpdateCard
    <3>2. shown' \in [Requests -> Face]
      BY <3>1, UpdateCardType
    <3>3. sender' = [Quiet EXCEPT !.at = "sweep", !.r = r, !.p = p, !.msg = r]
      BY <1>2, <2>3 DEF SendFirst
    <3>4. sender' \in SenderState
      BY <3>3 DEF Quiet, SenderState, Card, Prompt
    <3>5. asked' \subseteq Requests
      BY <1>2, <2>3 DEF SendFirst, InterTypeOK
    <3> QED BY <1>2, <2>1, <3>2, <3>4, <3>5 DEF SendFirst, InterTypeOK
  <2> QED BY <2>2, <2>3
<1>3. CASE SweepInteractive
  <2>1. interactive' \in [Requests -> [msg : Card, prompt : Prompt]]
    BY <1>3 DEF SweepInteractive, InterTypeOK, NoBinding, Card, Prompt
  <2>2. sender' \in SenderState
    BY <1>3 DEF SweepInteractive, InterTypeOK, SenderState
  <2> QED BY <1>3, <2>1, <2>2 DEF SweepInteractive, InterTypeOK, history
<1>4. CASE DropSwept
  <2>1. cards' \in [Requests -> {"none", "pending", "submitted"}]
    BY <1>4 DEF DropSwept, InterTypeOK
  <2>2. sender' \in SenderState
    BY <1>4 DEF DropSwept, InterTypeOK, SenderState
  <2> QED BY <1>4, <2>1, <2>2 DEF DropSwept, InterTypeOK, history
<1>5. CASE EvictRounds
  <2>1. interactive' \in [Requests -> [msg : Card, prompt : Prompt]]
    BY <1>5 DEF EvictRounds, InterTypeOK, NoBinding, Card, Prompt
  <2>2. sender' \in SenderState
    BY <1>5 DEF EvictRounds, InterTypeOK, SenderState
  <2> QED BY <1>5, <2>1, <2>2 DEF EvictRounds, InterTypeOK, history
<1>6. CASE UnloadRounds
  <2>1. /\ cards' \in [Requests -> {"none", "pending", "submitted"}]
        /\ timers' \in [Requests -> TimerState]
    BY <1>6 DEF UnloadRounds, InterTypeOK, TimerState, NoTimer, Card
  <2>2. sender' \in SenderState
    BY <1>6 DEF UnloadRounds, InterTypeOK, SenderState
  <2> QED BY <1>6, <2>1, <2>2 DEF UnloadRounds, InterTypeOK, history
<1>7. CASE BindInteractive
  <2>1. interactive' \in [Requests -> [msg : Card, prompt : Prompt]]
    BY <1>7 DEF BindInteractive, InterTypeOK, SenderState
  <2>2. sender' \in SenderState
    BY <1>7 DEF BindInteractive, InterTypeOK, SenderState
  <2> QED BY <1>7, <2>1, <2>2 DEF BindInteractive, InterTypeOK, history
<1>8. CASE CacheAndArm
  <2>1. sender' \in SenderState
    BY <1>8 DEF CacheAndArm, Quiet, SenderState, Card, Prompt
  <2>2. timers' \in [Requests -> TimerState]
    BY <1>8 DEF CacheAndArm, InterTypeOK, SenderState, TimerState
  <2>3. cards' \in [Requests -> {"none", "pending", "submitted"}]
    BY <1>8 DEF CacheAndArm, InterTypeOK
  <2>4. credit \in [Requests -> Int] /\ credit' = [credit EXCEPT ![sender.r] = @ + 1]
    BY <1>8 DEF CacheAndArm, InterTypeOK
  <2>5. credit' \in [Requests -> Int]
    <3>1. CASE sender.r \in Requests
      BY <2>4, <3>1
    <3>2. CASE sender.r \notin Requests
      BY <2>4, <3>2
    <3> QED BY <3>1, <3>2
  <2> QED BY <1>8, <2>1, <2>2, <2>3, <2>5 DEF CacheAndArm, InterTypeOK
<1> QED
  BY <1>1, <1>2, <1>3, <1>4, <1>5, <1>6, <1>7, <1>8 DEF Ask, SenderStep

LEMMA ExpiryTypeStep ==
    ASSUME InterTypeOK, NEW r \in Requests, TimerFires(r) \/ ExpireStep(r)
    PROVE  InterTypeOK'
<1>1. timers \in [Requests -> TimerState] /\ expiry \in [Requests -> ExpiryState]
  BY DEF InterTypeOK
<1>2. CASE TimerFires(r)
  <2>1. /\ timers' = [timers EXCEPT ![r].at = "fired"]
        /\ expiry' = [expiry EXCEPT ![r] = [at |-> "unbind", msg |-> timers[r].msg]]
    BY <1>2 DEF TimerFires
  <2>2. timers' \in [Requests -> TimerState] /\ expiry' \in [Requests -> ExpiryState]
    BY <1>1, <2>1 DEF TimerState, ExpiryState
  <2> QED BY <1>2, <2>2 DEF TimerFires, InterTypeOK, history
<1>3. CASE ExpireUnbind(r)
  <2>1. interactive' \in [Requests -> [msg : Card, prompt : Prompt]]
    BY <1>3 DEF ExpireUnbind, InterTypeOK, NoBinding, Card, Prompt
  <2>2. expiry' = [expiry EXCEPT ![r].at = "take"]
    BY <1>3 DEF ExpireUnbind
  <2>3. expiry' \in [Requests -> ExpiryState]
    BY <1>1, <2>2 DEF ExpiryState
  <2> QED BY <1>3, <2>1, <2>3 DEF ExpireUnbind, InterTypeOK, history
<1>4. CASE ExpireTake(r)
  <2>1. \/ expiry' = [expiry EXCEPT ![r] = NoTimerRuns]
        \/ expiry' = [expiry EXCEPT ![r].at = "flip"]
    BY <1>4 DEF ExpireTake
  <2>2. expiry' \in [Requests -> ExpiryState]
    BY <1>1, <2>1 DEF ExpiryState, NoTimerRuns, Card
  <2>3. timers' = [timers EXCEPT ![r] = NoTimer]
    BY <1>4 DEF ExpireTake
  <2>4. timers' \in [Requests -> TimerState]
    BY <1>1, <2>3 DEF TimerState, NoTimer, Card
  <2>5. cards' \in [Requests -> {"none", "pending", "submitted"}]
    BY <1>4 DEF ExpireTake, InterTypeOK
  <2> QED BY <1>4, <2>2, <2>4, <2>5 DEF ExpireTake, InterTypeOK, history
<1>5. CASE ExpireFlip(r)
  <2>1. expiry' = [expiry EXCEPT ![r] = NoTimerRuns]
    BY <1>5 DEF ExpireFlip
  <2>2. expiry' \in [Requests -> ExpiryState]
    BY <1>1, <2>1 DEF ExpiryState, NoTimerRuns, Card
  <2>3. credit' \in [Requests -> Int]
    BY <1>5 DEF ExpireFlip, InterTypeOK
  <2>4. shown' \in [Requests -> Face]
    BY <1>5, UpdateCardType DEF ExpireFlip
  <2> QED BY <1>5, <2>2, <2>3, <2>4 DEF ExpireFlip, InterTypeOK
<1> QED BY <1>2, <1>3, <1>4, <1>5 DEF ExpireStep

LEMMA ClickTypeStep ==
    ASSUME InterTypeOK, NEW r \in Requests, DispatchCardAction(r) \/ ClickStep(r)
    PROVE  InterTypeOK'
<1>1. click \in [Requests -> ClickState]
  BY DEF InterTypeOK
<1>2. CASE DispatchCardAction(r)
  <2>1. ClickFrom(r) \in ClickState
    BY DEF ClickFrom, InterTypeOK, ClickState
  <2>2. click' = click \/ click' = [click EXCEPT ![r] = ClickFrom(r)]
    BY <1>2 DEF DispatchCardAction
  <2>3. click' \in [Requests -> ClickState]
    BY <1>1, <2>1, <2>2
  <2>4. actionIDs' \subseteq Requests /\ clicks' \in Nat
    BY <1>2 DEF DispatchCardAction, InterTypeOK
  <2> QED BY <1>2, <2>3, <2>4 DEF DispatchCardAction, InterTypeOK
<1>3. ASSUME NEW at \in {"flip", "check", "store", "forward"},
             click' = [click EXCEPT ![r].at = at]
      PROVE  click' \in [Requests -> ClickState]
  BY <1>1, <1>3 DEF ClickState
<1>4. CASE ClickTake(r)
  <2>1. click' \in [Requests -> ClickState]
    BY <1>3, <1>4 DEF ClickTake
  <2>2. timers' \in [Requests -> TimerState]
    BY <1>4 DEF ClickTake, InterTypeOK, TimerState, NoTimer, Card
  <2> QED BY <1>4, <2>1, <2>2 DEF ClickTake, InterTypeOK, history
<1>5. CASE ClickFlip(r)
  <2>1. click' \in [Requests -> ClickState]
    BY <1>3, <1>5 DEF ClickFlip
  <2>2. shown' \in [Requests -> Face]
    BY <1>5, UpdateCardType DEF ClickFlip
  <2> QED BY <1>5, <2>1, <2>2 DEF ClickFlip, InterTypeOK, history
<1>6. CASE ClickCheck(r)
  <2>1. click' \in [Requests -> ClickState]
    BY <1>3, <1>6 DEF ClickCheck
  <2> QED BY <1>6, <2>1 DEF ClickCheck, InterTypeOK, history
<1>7. CASE ClickStore(r)
  <2>1. click' \in [Requests -> ClickState]
    BY <1>3, <1>7 DEF ClickStore
  <2>2. /\ cards' \in [Requests -> {"none", "pending", "submitted"}]
        /\ credit' \in [Requests -> Int]
    BY <1>7 DEF ClickStore, InterTypeOK
  <2> QED BY <1>7, <2>1, <2>2 DEF ClickStore, InterTypeOK
<1>8. CASE ForwardAnswer(r)
  <2>1. click' \in [Requests -> ClickState]
    BY <1>1, <1>8 DEF ForwardAnswer, ClickState, Card
  <2>2. answers' \in [Requests -> Nat]
    BY <1>8 DEF ForwardAnswer, InterTypeOK
  <2> QED BY <1>8, <2>1, <2>2 DEF ForwardAnswer, InterTypeOK
<1> QED BY <1>2, <1>4, <1>5, <1>6, <1>7, <1>8 DEF ClickStep

LEMMA EndingTypeStep ==
    ASSUME InterTypeOK, NEW w \in Ender,
           FinalizeStep(w) \/ \E p \in TurnPrompts : UnbindByPrompt(w, p)
    PROVE  InterTypeOK'
<1>1. ending \in [Ender -> EndingState]
  BY DEF InterTypeOK
<1>2. ASSUME NEW todo \in SUBSET (Requests \X Card)
      PROVE  ToFlip(todo) \in EndingState
  BY DEF ToFlip, NoEnding, EndingState
<1>3. ASSUME NEW p \in TurnPrompts, UnbindByPrompt(w, p)
      PROVE  InterTypeOK'
  <2> DEFINE todo == {<< r, interactive[r].msg >> :
                         r \in {q \in Requests : interactive[q].prompt = p}}
  <2>1. todo \in SUBSET (Requests \X Card)
    BY DEF InterTypeOK
  <2>2. ending' = [ending EXCEPT ![w] = [at |-> "take", todo |-> todo]]
    BY <1>3 DEF UnbindByPrompt
  <2> HIDE DEF todo
  <2>3. ending' \in [Ender -> EndingState]
    BY <1>1, <2>1, <2>2 DEF EndingState
  <2>4. interactive' \in [Requests -> [msg : Card, prompt : Prompt]]
    BY <1>3 DEF UnbindByPrompt, InterTypeOK, NoBinding, Card, Prompt
  <2>5. openTurns' \subseteq TurnPrompts /\ ended' \subseteq TurnPrompts
    BY <1>3 DEF UnbindByPrompt, InterTypeOK
  <2> QED BY <1>3, <2>3, <2>4, <2>5 DEF UnbindByPrompt, InterTypeOK, history
<1>4. CASE FinalizeTake(w)
  <2> DEFINE todo == {b \in ending[w].todo : cards[b[1]] # "none"}
  <2>1. todo \in SUBSET (Requests \X Card)
    BY <1>1 DEF EndingState
  <2>2. ending' = [ending EXCEPT ![w] = ToFlip(todo)]
    BY <1>4 DEF FinalizeTake
  <2> HIDE DEF todo
  <2>3. ending' \in [Ender -> EndingState]
    BY <1>1, <1>2, <2>1, <2>2
  <2>4. /\ cards' \in [Requests -> {"none", "pending", "submitted"}]
        /\ timers' \in [Requests -> TimerState]
    BY <1>4 DEF FinalizeTake, InterTypeOK, TimerState, NoTimer, Card
  <2> QED BY <1>4, <2>3, <2>4 DEF FinalizeTake, InterTypeOK, history
<1>5. CASE FinalizeFlip(w)
  <2>1. PICK b \in ending[w].todo :
            /\ UpdateCard(b[2], b[1], "finished")
            /\ credit' = [credit EXCEPT ![b[1]] = @ - 1]
            /\ ending' = [ending EXCEPT ![w] = ToFlip(ending[w].todo \ {b})]
    BY <1>5 DEF FinalizeFlip
  <2>2. b[1] \in Requests /\ ending[w].todo \ {b} \in SUBSET (Requests \X Card)
    BY <1>1 DEF EndingState
  <2>3. ending' \in [Ender -> EndingState]
    BY <1>1, <1>2, <2>1, <2>2
  <2>4. credit' \in [Requests -> Int]
    BY <2>1, <2>2 DEF InterTypeOK
  <2>5. shown' \in [Requests -> Face]
    BY <2>1, <2>2, UpdateCardType
  <2> QED BY <1>5, <2>3, <2>4, <2>5 DEF FinalizeFlip, InterTypeOK
<1> QED BY <1>3, <1>4, <1>5 DEF FinalizeStep

LEMMA InterTypeStep == InterTypeOK /\ [InterNext]_interVars => InterTypeOK'
<1> SUFFICES ASSUME InterTypeOK, [InterNext]_interVars PROVE InterTypeOK'
  OBVIOUS
<1>1. ASSUME NEW r \in Requests, GrowOld(r) PROVE InterTypeOK'
  BY <1>1 DEF GrowOld, InterTypeOK, history
<1>2. CASE UNCHANGED interVars
  BY <1>2 DEF interVars, InterTypeOK
<1> QED
  BY <1>1, <1>2, SenderTypeStep, ExpiryTypeStep, ClickTypeStep, EndingTypeStep
     DEF InterNext

-----------------------------------------------------------------------------
(* Forms in the cache and on their way to the screen *)

\* The two ends of turns, counted.
LEMMA EnderCount ==
    ASSUME NEW S \in SUBSET Ender
    PROVE  Cardinality(S) = Count("pump" \in S) + Count("reclaim" \in S)
<1>1. CASE S = {}
  BY <1>1, FS_EmptySet DEF Count
<1>2. CASE S = {"pump"} \/ S = {"reclaim"}
  <2>1. Cardinality({"pump"}) = 1 /\ Cardinality({"reclaim"}) = 1
    BY FS_Singleton
  <2> QED BY <1>2, <2>1 DEF Count
<1>3. CASE S = {"pump", "reclaim"}
  <2>1. IsFiniteSet({"pump"}) /\ Cardinality({"pump"}) = 1
    BY FS_Singleton
  <2>2. S = {"pump"} \cup {"reclaim"} /\ "reclaim" \notin {"pump"}
    BY <1>3
  <2>3. Cardinality(S) = 2
    BY <2>1, <2>2, FS_AddElement
  <2> QED BY <1>3, <2>3 DEF Count
<1> QED BY <1>1, <1>2, <1>3 DEF Ender

\* What the property counts is what the invariant counts.
LEMMA HeldIsCounted ==
    ASSUME NEW r \in Requests
    PROVE  Cardinality({w \in Ender :
                          ending[w].at = "flip" /\ r \in {b[1] : b \in ending[w].todo}})
             = Count(Finishes("pump", r)) + Count(Finishes("reclaim", r))
<1> DEFINE S == {w \in Ender :
                   ending[w].at = "flip" /\ r \in {b[1] : b \in ending[w].todo}}
<1>1. \A w \in Ender : w \in S <=> Finishes(w, r)
  BY DEF Finishes
<1>2. S \in SUBSET Ender /\ "pump" \in Ender /\ "reclaim" \in Ender
  BY DEF Ender
<1> HIDE DEF S
<1>3. Cardinality(S) = Count("pump" \in S) + Count("reclaim" \in S)
  BY <1>2, EnderCount
<1> QED BY <1>1, <1>2, <1>3 DEF S, Count

LEMMA ListedOnceStep ==
    ASSUME InterTypeOK, ListedOnce, [InterNext]_interVars
    PROVE  ListedOnce'
<1>1. CASE UNCHANGED ending
  BY <1>1 DEF ListedOnce
<1>2. ASSUME NEW w \in Ender, NEW new,
             ending' = [ending EXCEPT ![w] = new],
             \A b, c \in new.todo : b[1] = c[1] => b = c
      PROVE  ListedOnce'
  BY <1>2 DEF ListedOnce, InterTypeOK
<1>3. ASSUME NEW w \in Ender, NEW p \in TurnPrompts, UnbindByPrompt(w, p)
      PROVE  ListedOnce'
  <2> DEFINE new == [at |-> "take",
                     todo |-> {<< r, interactive[r].msg >> :
                         r \in {q \in Requests : interactive[q].prompt = p}}]
  <2>1. ending' = [ending EXCEPT ![w] = new]
    BY <1>3 DEF UnbindByPrompt
  <2>2. \A b, c \in new.todo : b[1] = c[1] => b = c
    OBVIOUS
  <2> HIDE DEF new
  <2> QED BY <1>2, <2>1, <2>2
<1>4. ASSUME NEW todo, \A b, c \in todo : b[1] = c[1] => b = c
      PROVE  \A b, c \in ToFlip(todo).todo : b[1] = c[1] => b = c
  BY <1>4 DEF ToFlip, NoEnding
<1>5. ASSUME NEW w \in Ender, FinalizeTake(w) PROVE ListedOnce'
  <2> DEFINE todo == {b \in ending[w].todo : cards[b[1]] # "none"}
  <2>1. ending' = [ending EXCEPT ![w] = ToFlip(todo)]
    BY <1>5 DEF FinalizeTake
  <2>2. \A b, c \in todo : b[1] = c[1] => b = c
    BY DEF ListedOnce
  <2> HIDE DEF todo
  <2> QED BY <1>2, <1>4, <2>1, <2>2
<1>6. ASSUME NEW w \in Ender, FinalizeFlip(w) PROVE ListedOnce'
  <2>1. PICK b \in ending[w].todo :
            ending' = [ending EXCEPT ![w] = ToFlip(ending[w].todo \ {b})]
    BY <1>6 DEF FinalizeFlip
  <2>2. \A c, d \in ending[w].todo \ {b} : c[1] = d[1] => c = d
    BY DEF ListedOnce
  <2> QED BY <1>2, <1>4, <2>1, <2>2
<1>7. CASE UNCHANGED interVars
  BY <1>1, <1>7 DEF interVars
<1> QED
  BY <1>1, <1>3, <1>5, <1>6, <1>7
     DEF InterNext, Ask, SendRefresh, SendFirst, SenderStep, SweepInteractive, DropSwept,
     EvictRounds, UnloadRounds, BindInteractive, CacheAndArm, GrowOld, TimerFires,
     ExpireStep, ExpireUnbind, ExpireTake, ExpireFlip, DispatchCardAction, ClickStep,
     ClickTake, ClickFlip, ClickCheck, ClickStore, ForwardAnswer, FinalizeStep

\* A step that takes nothing out of the cache to flip it, and caches nothing.
LEMMA HeldKept ==
    ASSUME InterTypeOK, HeldIsCredited, credit' = credit,
           \A w \in Ender, r \in Requests : Finishes(w, r)' => Finishes(w, r),
           \A r \in Requests : expiry'[r].at = "flip" => expiry[r].at = "flip",
           \A r \in Requests : cards'[r] # "none" => cards[r] # "none"
    PROVE  HeldIsCredited'
<1> SUFFICES ASSUME NEW r \in Requests PROVE Held(r)' <= credit'[r]
  BY DEF HeldIsCredited
<1>1. "pump" \in Ender /\ "reclaim" \in Ender
  BY DEF Ender
<1>2. /\ Count(Finishes("pump", r))' <= Count(Finishes("pump", r))
      /\ Count(Finishes("reclaim", r))' <= Count(Finishes("reclaim", r))
      /\ Count(expiry[r].at = "flip")' <= Count(expiry[r].at = "flip")
      /\ Count(cards[r] # "none")' <= Count(cards[r] # "none")
  BY <1>1 DEF Count
<1>3. Held(r) <= credit[r] /\ credit[r] \in Int
  BY DEF HeldIsCredited, InterTypeOK
<1> QED BY <1>2, <1>3 DEF Held, Count

\* The sender and a click cache a form, and credit it.
LEMMA HeldCached ==
    ASSUME InterTypeOK, HeldIsCredited, CacheAndArm \/ \E r \in Requests : ClickStore(r)
    PROVE  HeldIsCredited'
<1> SUFFICES ASSUME NEW r \in Requests PROVE Held(r)' <= credit'[r]
  BY DEF HeldIsCredited
<1>1. UNCHANGED << expiry, ending >>
  BY DEF CacheAndArm, ClickStore
<1>2. /\ Count(Finishes("pump", r))' = Count(Finishes("pump", r))
      /\ Count(Finishes("reclaim", r))' = Count(Finishes("reclaim", r))
      /\ Count(expiry[r].at = "flip")' = Count(expiry[r].at = "flip")
  BY <1>1 DEF Finishes
<1>3. \/ credit'[r] = credit[r] /\ cards'[r] = cards[r]
      \/ credit'[r] = credit[r] + 1
  BY DEF CacheAndArm, ClickStore, InterTypeOK
<1>4. Held(r) <= credit[r] /\ credit[r] \in Int
  BY DEF HeldIsCredited, InterTypeOK
<1> QED BY <1>2, <1>3, <1>4 DEF Held, Count

\* The callback takes the form it is about to flip out of the cache.
LEMMA HeldExpiry ==
    ASSUME InterTypeOK, HeldIsCredited, NEW q \in Requests,
           ExpireTake(q) \/ ExpireFlip(q)
    PROVE  HeldIsCredited'
<1> SUFFICES ASSUME NEW r \in Requests PROVE Held(r)' <= credit'[r]
  BY DEF HeldIsCredited
<1>1. ending' = ending
  BY DEF ExpireTake, ExpireFlip
<1>2. /\ Count(Finishes("pump", r))' = Count(Finishes("pump", r))
      /\ Count(Finishes("reclaim", r))' = Count(Finishes("reclaim", r))
  BY <1>1 DEF Finishes
<1>3. Held(r) <= credit[r] /\ credit[r] \in Int
  BY DEF HeldIsCredited, InterTypeOK
<1>4. CASE r # q
  <2>1. expiry'[r] = expiry[r] /\ cards'[r] = cards[r] /\ credit'[r] = credit[r]
    <3>1. CASE ExpireTake(q)
      BY <1>4, <3>1 DEF ExpireTake, InterTypeOK, history
    <3>2. CASE ExpireFlip(q)
      BY <1>4, <3>2 DEF ExpireFlip, InterTypeOK
    <3> QED BY <3>1, <3>2
  <2> QED BY <1>2, <1>3, <2>1 DEF Held, Count
<1>5. CASE r = q /\ ExpireTake(q)
  <2>1. /\ cards'[r] = "none" /\ credit'[r] = credit[r]
        /\ expiry[r].at = "take"
    BY <1>5 DEF ExpireTake, InterTypeOK, history
  <2>2. cards[r] = "none" => expiry'[r].at = "idle"
    BY <1>5 DEF ExpireTake, InterTypeOK, NoTimerRuns
  <2> QED BY <1>2, <1>3, <2>1, <2>2 DEF Held, Count
<1>6. CASE r = q /\ ExpireFlip(q)
  <2>1. /\ cards'[r] = cards[r] /\ credit'[r] = credit[r] - 1
        /\ expiry[r].at = "flip" /\ expiry'[r].at = "idle"
    BY <1>6 DEF ExpireFlip, InterTypeOK, NoTimerRuns
  <2> QED BY <1>2, <1>3, <2>1 DEF Held, Count
<1> QED BY <1>4, <1>5, <1>6

\* So does the end of a turn, for all the cards it lists, ...
LEMMA HeldFinalizeTake ==
    ASSUME InterTypeOK, HeldIsCredited, NEW w \in Ender, FinalizeTake(w)
    PROVE  HeldIsCredited'
<1> SUFFICES ASSUME NEW r \in Requests PROVE Held(r)' <= credit'[r]
  BY DEF HeldIsCredited
<1>1. Held(r) <= credit[r] /\ credit[r] \in Int
  BY DEF HeldIsCredited, InterTypeOK
<1>2. expiry' = expiry /\ credit' = credit
  BY DEF FinalizeTake, history
<1>3. ending'[w] = ToFlip({b \in ending[w].todo : cards[b[1]] # "none"})
  BY DEF FinalizeTake, InterTypeOK
<1>4. ASSUME Finishes(w, r)'
      PROVE  cards[r] # "none" /\ \E b \in ending[w].todo : b[1] = r
  BY <1>3, <1>4 DEF Finishes, ToFlip, NoEnding
<1>5. ~Finishes(w, r)
  BY DEF FinalizeTake, Finishes
<1>6. ASSUME NEW v \in Ender, v # w
      PROVE  Count(Finishes(v, r))' = Count(Finishes(v, r))
  <2>1. ending'[v] = ending[v]
    BY <1>6 DEF FinalizeTake, InterTypeOK
  <2> QED BY <2>1 DEF Finishes
<1>7. cards'[r] = IF \E b \in ending[w].todo : b[1] = r THEN "none" ELSE cards[r]
  BY DEF FinalizeTake
<1>8. Count(Finishes(w, r))' + Count(cards[r] # "none")'
        <= Count(Finishes(w, r)) + Count(cards[r] # "none")
  BY <1>4, <1>5, <1>7 DEF Count
<1>9. CASE w = "pump"
  <2>1. Count(Finishes("reclaim", r))' = Count(Finishes("reclaim", r))
    BY <1>6, <1>9 DEF Ender
  <2> QED BY <1>1, <1>2, <1>8, <1>9, <2>1 DEF Held, Count
<1>10. CASE w = "reclaim"
  <2>1. Count(Finishes("pump", r))' = Count(Finishes("pump", r))
    BY <1>6, <1>10 DEF Ender
  <2> QED BY <1>1, <1>2, <1>8, <1>10, <2>1 DEF Held, Count
<1> QED BY <1>9, <1>10 DEF Ender

\* ... of which it flips one at a time.
LEMMA HeldFinalizeFlip ==
    ASSUME InterTypeOK, ListedOnce, HeldIsCredited, NEW w \in Ender, FinalizeFlip(w)
    PROVE  HeldIsCredited'
<1> SUFFICES ASSUME NEW r \in Requests PROVE Held(r)' <= credit'[r]
  BY DEF HeldIsCredited
<1>1. Held(r) <= credit[r] /\ credit[r] \in Int
  BY DEF HeldIsCredited, InterTypeOK
<1>2. UNCHANGED << expiry, cards >>
  BY DEF FinalizeFlip
<1>3. PICK b \in ending[w].todo :
          /\ credit' = [credit EXCEPT ![b[1]] = @ - 1]
          /\ ending' = [ending EXCEPT ![w] = ToFlip(ending[w].todo \ {b})]
  BY DEF FinalizeFlip
<1>4. ending'[w] = ToFlip(ending[w].todo \ {b})
  BY <1>3 DEF InterTypeOK
<1>5. ASSUME Finishes(w, r)'
      PROVE  Finishes(w, r) /\ r # b[1]
  <2>1. PICK c \in ending[w].todo \ {b} : c[1] = r
    BY <1>4, <1>5 DEF Finishes, ToFlip, NoEnding
  <2>2. c[1] # b[1]
    BY <2>1 DEF ListedOnce
  <2> QED BY <2>1, <2>2 DEF Finishes, FinalizeFlip
<1>6. ASSUME NEW v \in Ender, v # w
      PROVE  Count(Finishes(v, r))' = Count(Finishes(v, r))
  <2>1. ending'[v] = ending[v]
    BY <1>3, <1>6 DEF InterTypeOK
  <2> QED BY <2>1 DEF Finishes
<1>7. /\ r = b[1] => credit'[r] = credit[r] - 1 /\ Finishes(w, r)
      /\ r # b[1] => credit'[r] = credit[r]
  BY <1>3 DEF InterTypeOK, Finishes, FinalizeFlip
<1>8. Count(Finishes(w, r))' + credit[r] <= Count(Finishes(w, r)) + credit'[r]
  BY <1>1, <1>5, <1>7 DEF Count
<1>9. credit'[r] \in Int
  BY <1>1, <1>7
<1>10. CASE w = "pump"
  <2>1. Count(Finishes("reclaim", r))' = Count(Finishes("reclaim", r))
    BY <1>6, <1>10 DEF Ender
  <2> QED BY <1>1, <1>2, <1>8, <1>9, <1>10, <2>1 DEF Held, Count
<1>11. CASE w = "reclaim"
  <2>1. Count(Finishes("pump", r))' = Count(Finishes("pump", r))
    BY <1>6, <1>11 DEF Ender
  <2> QED BY <1>1, <1>2, <1>8, <1>9, <1>11, <2>1 DEF Held, Count
<1> QED BY <1>10, <1>11 DEF Ender

LEMMA HeldStep ==
    ASSUME InterTypeOK, ListedOnce, HeldIsCredited, [InterNext]_interVars
    PROVE  HeldIsCredited'
<1>1. CASE Ask
  BY <1>1, HeldKept DEF Ask, SendRefresh, SendFirst, Finishes
<1>2. CASE SweepInteractive \/ EvictRounds \/ BindInteractive
  BY <1>2, HeldKept DEF SweepInteractive, EvictRounds, BindInteractive, Finishes, history
<1>3. CASE DropSwept
  BY <1>3, HeldKept DEF DropSwept, Finishes, history
<1>4. CASE UnloadRounds
  BY <1>4, HeldKept DEF UnloadRounds, Finishes, history
<1>5. ASSUME NEW r \in Requests, GrowOld(r) \/ DispatchCardAction(r) PROVE HeldIsCredited'
  BY <1>5, HeldKept DEF GrowOld, DispatchCardAction, Finishes, history
<1>6. ASSUME NEW r \in Requests, TimerFires(r) \/ ExpireUnbind(r) PROVE HeldIsCredited'
  <2>1. expiry \in [Requests -> ExpiryState]
    BY DEF InterTypeOK
  <2>2. \/ expiry' = [expiry EXCEPT ![r] = [at |-> "unbind", msg |-> timers[r].msg]]
        \/ expiry' = [expiry EXCEPT ![r].at = "take"]
    BY <1>6 DEF TimerFires, ExpireUnbind
  <2>3. \A q \in Requests : expiry'[q].at = "flip" => expiry[q].at = "flip"
    BY <2>1, <2>2 DEF ExpiryState
  <2> QED BY <1>6, <2>3, HeldKept DEF TimerFires, ExpireUnbind, Finishes, history
<1>7. ASSUME NEW r \in Requests,
             ClickTake(r) \/ ClickFlip(r) \/ ClickCheck(r) \/ ForwardAnswer(r)
      PROVE  HeldIsCredited'
  BY <1>7, HeldKept DEF ClickTake, ClickFlip, ClickCheck, ForwardAnswer, Finishes, history
<1>8. ASSUME NEW w \in Ender, NEW p \in TurnPrompts, UnbindByPrompt(w, p)
      PROVE  HeldIsCredited'
  <2>1. \A v \in Ender : v # w => ending'[v] = ending[v]
    BY <1>8 DEF UnbindByPrompt, InterTypeOK
  <2>2. ending'[w].at = "take"
    BY <1>8 DEF UnbindByPrompt, InterTypeOK
  <2>3. \A v \in Ender, r \in Requests : Finishes(v, r)' => Finishes(v, r)
    BY <2>1, <2>2 DEF Finishes
  <2> QED BY <1>8, <2>3, HeldKept DEF UnbindByPrompt, history
<1>9. CASE UNCHANGED interVars
  BY <1>9, HeldKept DEF interVars, Finishes
<1> QED
  BY <1>1, <1>2, <1>3, <1>4, <1>5, <1>6, <1>7, <1>8, <1>9, HeldCached, HeldExpiry,
     HeldFinalizeTake, HeldFinalizeFlip
     DEF InterNext, SenderStep, ExpireStep, ClickStep, FinalizeStep

-----------------------------------------------------------------------------
(* Who owns a card *)

\* A patch that shows a card that was sent.
LEMMA ShownPatched ==
    ASSUME InterTypeOK, ShownWasSent, asked' = asked, NEW m, NEW r, NEW form,
           m \in asked, UpdateCard(m, r, form)
    PROVE  ShownWasSent'
BY DEF ShownWasSent, UpdateCard, InterTypeOK

LEMMA ShownStep ==
    ASSUME InterTypeOK, ShownWasSent, PatchedWasSent, [InterNext]_interVars
    PROVE  ShownWasSent'
<1>1. CASE UNCHANGED << shown, asked >>
  BY <1>1 DEF ShownWasSent
<1>2. ASSUME NEW r \in Requests, NEW p \in TurnPrompts, NEW m \in Requests,
             SendRefresh(r, p, m)
      PROVE  ShownWasSent'
  <2>1. /\ shown' = shown \/ shown' = [shown EXCEPT ![m] = [r |-> r, form |-> "pending"]]
        /\ shown[m].r # Nobody /\ asked' = asked \cup {r}
    BY <1>2 DEF SendRefresh, UpdateCard
  <2>2. m \in asked
    BY <2>1 DEF ShownWasSent
  <2> QED BY <2>1, <2>2 DEF ShownWasSent, InterTypeOK
<1>3. ASSUME NEW r \in Requests, NEW p \in TurnPrompts, NEW t \in BOOLEAN,
             SendFirst(r, p, t)
      PROVE  ShownWasSent'
  BY <1>3 DEF SendFirst, ShownWasSent, InterTypeOK
<1>4. ASSUME NEW r \in Requests, ExpireFlip(r) PROVE ShownWasSent'
  <2>1. expiry[r].msg \in asked /\ asked' = asked
    BY <1>4 DEF ExpireFlip, PatchedWasSent
  <2> QED BY <1>4, <2>1, ShownPatched DEF ExpireFlip
<1>5. ASSUME NEW r \in Requests, ClickFlip(r) PROVE ShownWasSent'
  <2>1. click[r].msg \in asked /\ asked' = asked
    BY <1>5 DEF ClickFlip, PatchedWasSent, Patching, history
  <2> QED BY <1>5, <2>1, ShownPatched DEF ClickFlip
<1>6. ASSUME NEW w \in Ender, FinalizeFlip(w) PROVE ShownWasSent'
  <2>1. PICK b \in ending[w].todo : UpdateCard(b[2], b[1], "finished")
    BY <1>6 DEF FinalizeFlip
  <2>2. b[2] \in asked /\ asked' = asked
    BY <1>6 DEF FinalizeFlip, PatchedWasSent
  <2> QED BY <2>1, <2>2, ShownPatched
<1>7. CASE UNCHANGED interVars
  BY <1>1, <1>7 DEF interVars
<1> QED
  BY <1>1, <1>2, <1>3, <1>4, <1>5, <1>6, <1>7
     DEF InterNext, Ask, SenderStep, SweepInteractive, DropSwept, EvictRounds,
     UnloadRounds, BindInteractive, CacheAndArm, GrowOld, TimerFires, ExpireStep,
     ExpireUnbind, ExpireTake, DispatchCardAction, ClickStep, ClickTake, ClickCheck,
     ClickStore, ForwardAnswer, FinalizeStep, FinalizeTake, UnbindByPrompt, history

\* Bindings are only lost, except in BindInteractive.
LEMMA BindingsStep ==
    ASSUME InterTypeOK, [InterNext]_interVars, ~BindInteractive
    PROVE  \A r \in Requests : interactive'[r] \in {interactive[r], NoBinding}
<1>1. CASE UNCHANGED interactive
  BY <1>1
<1>2. CASE SweepInteractive
  BY <1>2 DEF SweepInteractive
<1>3. CASE EvictRounds
  BY <1>3 DEF EvictRounds
<1>4. ASSUME NEW r \in Requests, ExpireUnbind(r)
      PROVE  \A q \in Requests : interactive'[q] \in {interactive[q], NoBinding}
  BY <1>4 DEF ExpireUnbind, InterTypeOK
<1>5. ASSUME NEW w \in Ender, NEW p \in TurnPrompts, UnbindByPrompt(w, p)
      PROVE  \A q \in Requests : interactive'[q] \in {interactive[q], NoBinding}
  BY <1>5 DEF UnbindByPrompt
<1>6. CASE UNCHANGED interVars
  BY <1>1, <1>6 DEF interVars
<1> QED
  BY <1>1, <1>2, <1>3, <1>4, <1>5, <1>6
     DEF InterNext, Ask, SendRefresh, SendFirst, SenderStep, DropSwept,
     UnloadRounds, CacheAndArm, GrowOld, TimerFires, ExpireStep,
     ExpireTake, ExpireFlip, DispatchCardAction, ClickStep, ClickTake, ClickFlip,
     ClickCheck, ClickStore, ForwardAnswer, FinalizeStep, FinalizeTake, FinalizeFlip,
     history

\* What has been sent stays sent.
LEMMA AskedGrows ==
    ASSUME [InterNext]_interVars
    PROVE  asked \subseteq asked'
BY DEF InterNext, Ask, SendRefresh, SendFirst, SenderStep, SweepInteractive, DropSwept,
   EvictRounds, UnloadRounds, BindInteractive, CacheAndArm, GrowOld, TimerFires,
   ExpireStep, ExpireUnbind, ExpireTake, ExpireFlip, DispatchCardAction, ClickStep,
   ClickTake, ClickFlip, ClickCheck, ClickStore, ForwardAnswer, FinalizeStep,
   FinalizeTake, FinalizeFlip, UnbindByPrompt, history, interVars

LEMMA BoundStep ==
    ASSUME InterTypeOK, BoundIsWhole, CardIsFree, [InterNext]_interVars
    PROVE  BoundIsWhole'
<1>1. CASE BindInteractive
  BY <1>1 DEF BindInteractive, BoundIsWhole, CardIsFree, InterTypeOK, history
<1>2. CASE ~BindInteractive
  BY <1>2, BindingsStep, AskedGrows DEF BoundIsWhole
<1> QED BY <1>1, <1>2

LEMMA OwnersStep ==
    ASSUME InterTypeOK, BoundIsWhole, CardIsFree, OwnersDiffer, [InterNext]_interVars
    PROVE  OwnersDiffer'
<1>1. CASE BindInteractive
  <2>1. /\ sender.at = "bind" /\ sender.r \in Requests /\ sender.msg \in Requests
        /\ \A q \in Requests : interactive[q].msg # sender.msg
    BY <1>1 DEF BindInteractive, CardIsFree, InterTypeOK
  <2>2. \A q \in Requests :
            interactive'[q] = IF q = sender.r
                              THEN [msg |-> sender.msg, prompt |-> sender.p]
                              ELSE interactive[q]
    BY <1>1, <2>1 DEF BindInteractive, InterTypeOK
  <2> QED BY <2>1, <2>2 DEF OwnersDiffer
<1>2. CASE ~BindInteractive
  <2>1. \A q \in Requests : interactive[q] # NoBinding => interactive[q].msg # Nobody
    BY InteractiveAssumption DEF BoundIsWhole, InterTypeOK
  <2> QED BY <1>2, <2>1, BindingsStep DEF OwnersDiffer, NoBinding
<1> QED BY <1>1, <1>2

\* A timer, its callback, a click and the end of a turn get their cards from
\* what is bound, or from one another.
LEMMA TimersSentStep ==
    ASSUME InterTypeOK, PatchedWasSent, CardIsFree, [InterNext]_interVars
    PROVE  \A r \in Requests : timers'[r].at # "none" => timers'[r].msg \in asked'
<1> SUFFICES ASSUME NEW q \in Requests, timers'[q].at # "none"
             PROVE  timers'[q].msg \in asked'
  OBVIOUS
<1>1. asked \subseteq asked'
  BY AskedGrows
<1>2. timers[q].at # "none" => timers[q].msg \in asked
  BY DEF PatchedWasSent
<1>3. CASE UNCHANGED timers
  BY <1>1, <1>2, <1>3
<1>4. CASE UnloadRounds
  BY <1>1, <1>2, <1>4 DEF UnloadRounds, NoTimer
<1>5. CASE CacheAndArm
  <2>1. sender.msg \in asked
    BY <1>5 DEF CacheAndArm, CardIsFree
  <2>2. \/ timers'[q] = timers[q]
        \/ timers'[q] = [at |-> "armed", msg |-> sender.msg]
    BY <1>5 DEF CacheAndArm, InterTypeOK
  <2> QED BY <1>1, <1>2, <2>1, <2>2
<1>6. ASSUME NEW r \in Requests, TimerFires(r) PROVE timers'[q].msg \in asked'
  <2>1. timers \in [Requests -> TimerState] /\ timers[r].at = "armed"
        /\ timers' = [timers EXCEPT ![r].at = "fired"]
    BY <1>6 DEF TimerFires, InterTypeOK
  <2>2. timers'[q].msg = timers[q].msg /\ timers[q].at # "none"
    BY <2>1 DEF TimerState
  <2> QED BY <1>1, <1>2, <2>2
<1>7. ASSUME NEW r \in Requests, ExpireTake(r) \/ ClickTake(r)
      PROVE  timers'[q].msg \in asked'
  <2>1. timers' = [timers EXCEPT ![r] = NoTimer]
    BY <1>7 DEF ExpireTake, ClickTake
  <2>2. timers'[q] = timers[q]
    BY <2>1 DEF InterTypeOK, NoTimer
  <2> QED BY <1>1, <1>2, <2>2
<1>8. ASSUME NEW w \in Ender, FinalizeTake(w) PROVE timers'[q].msg \in asked'
  BY <1>1, <1>2, <1>8 DEF FinalizeTake, NoTimer
<1>9. CASE UNCHANGED interVars
  BY <1>3, <1>9 DEF interVars
<1> QED
  BY <1>3, <1>4, <1>5, <1>6, <1>7, <1>8, <1>9
     DEF InterNext, Ask, SendRefresh, SendFirst, SenderStep, SweepInteractive, DropSwept,
     EvictRounds, BindInteractive, GrowOld, ExpireStep, ExpireUnbind, ExpireFlip,
     DispatchCardAction, ClickStep, ClickFlip, ClickCheck, ClickStore, ForwardAnswer,
     FinalizeStep, FinalizeFlip, UnbindByPrompt, history

LEMMA ExpirySentStep ==
    ASSUME InterTypeOK, PatchedWasSent, [InterNext]_interVars
    PROVE  \A r \in Requests : expiry'[r].at # "idle" => expiry'[r].msg \in asked'
<1> SUFFICES ASSUME NEW q \in Requests, expiry'[q].at # "idle"
             PROVE  expiry'[q].msg \in asked'
  OBVIOUS
<1>1. asked \subseteq asked'
  BY AskedGrows
<1>2. expiry[q].at # "idle" => expiry[q].msg \in asked
  BY DEF PatchedWasSent
<1>3. expiry \in [Requests -> ExpiryState]
  BY DEF InterTypeOK
<1>4. CASE UNCHANGED expiry
  BY <1>1, <1>2, <1>4
<1>5. ASSUME NEW r \in Requests, TimerFires(r) PROVE expiry'[q].msg \in asked'
  <2>1. expiry' = [expiry EXCEPT ![r] = [at |-> "unbind", msg |-> timers[r].msg]]
    BY <1>5 DEF TimerFires
  <2>2. timers[r].msg \in asked
    BY <1>5 DEF TimerFires, PatchedWasSent
  <2>3. \/ expiry'[q] = expiry[q]
        \/ expiry'[q] = [at |-> "unbind", msg |-> timers[r].msg]
    BY <1>3, <2>1
  <2> QED BY <1>1, <1>2, <2>2, <2>3
<1>6. ASSUME NEW r \in Requests, ExpireStep(r) PROVE expiry'[q].msg \in asked'
  <2>1. expiry[r].at # "idle"
    BY <1>6 DEF ExpireStep, ExpireUnbind, ExpireTake, ExpireFlip
  <2>2. \/ \E at \in {"take", "flip"} : expiry' = [expiry EXCEPT ![r].at = at]
        \/ expiry' = [expiry EXCEPT ![r] = NoTimerRuns]
    BY <1>6 DEF ExpireStep, ExpireUnbind, ExpireTake, ExpireFlip
  <2>3. expiry'[q].msg = expiry[q].msg /\ expiry[q].at # "idle"
    BY <1>3, <2>1, <2>2 DEF NoTimerRuns, ExpiryState
  <2> QED BY <1>1, <1>2, <2>3
<1>7. CASE UNCHANGED interVars
  BY <1>4, <1>7 DEF interVars
<1> QED
  BY <1>4, <1>5, <1>6, <1>7
     DEF InterNext, Ask, SendRefresh, SendFirst, SenderStep, SweepInteractive, DropSwept,
     EvictRounds, UnloadRounds, BindInteractive, CacheAndArm, GrowOld,
     DispatchCardAction, ClickStep, ClickTake, ClickFlip, ClickCheck, ClickStore,
     ForwardAnswer, FinalizeStep, FinalizeTake, FinalizeFlip, UnbindByPrompt, history

LEMMA ClickSentStep ==
    ASSUME InterTypeOK, BoundIsWhole, PatchedWasSent, [InterNext]_interVars
    PROVE  \A r \in Requests : click'[r].at \in Patching => click'[r].msg \in asked'
<1> SUFFICES ASSUME NEW q \in Requests, click'[q].at \in Patching
             PROVE  click'[q].msg \in asked'
  OBVIOUS
<1>1. asked \subseteq asked'
  BY AskedGrows
<1>2. click[q].at \in Patching => click[q].msg \in asked
  BY DEF PatchedWasSent, Patching
<1>3. click \in [Requests -> ClickState]
  BY DEF InterTypeOK
<1>4. CASE UNCHANGED click
  BY <1>1, <1>2, <1>4
<1>5. ASSUME NEW r \in Requests, DispatchCardAction(r) PROVE click'[q].msg \in asked'
  <2>1. click' = click \/ click' = [click EXCEPT ![r] = ClickFrom(r)]
    BY <1>5 DEF DispatchCardAction
  <2>2. click'[q] = click[q] \/ click'[q] = ClickFrom(r)
    BY <1>3, <2>1
  <2>3. ClickFrom(r).at \in Patching => ClickFrom(r).msg \in asked
    BY DEF ClickFrom, Patching, BoundIsWhole
  <2> QED BY <1>1, <1>2, <2>2, <2>3
<1>6. ASSUME NEW r \in Requests, ClickStep(r) PROVE click'[q].msg \in asked'
  <2>1. CASE ForwardAnswer(r)
    <3>1. click' = [click EXCEPT ![r] = [at |-> "done", msg |-> Nobody]]
      BY <2>1 DEF ForwardAnswer
    <3>2. click'[q] = click[q]
      BY <1>3, <3>1 DEF Patching
    <3> QED BY <1>1, <1>2, <3>2
  <2>2. CASE ~ForwardAnswer(r)
    <3>1. click[r].at \in Patching
      BY <1>6, <2>2 DEF ClickStep, ClickTake, ClickFlip, ClickCheck, ClickStore, Patching
    <3>2. \E at : click' = [click EXCEPT ![r].at = at]
      BY <1>6, <2>2 DEF ClickStep, ClickTake, ClickFlip, ClickCheck, ClickStore
    <3>3. click'[q].msg = click[q].msg /\ click[q].at \in Patching
      BY <1>3, <3>1, <3>2 DEF ClickState
    <3> QED BY <1>1, <1>2, <3>3
  <2> QED BY <2>1, <2>2
<1>7. CASE UNCHANGED interVars
  BY <1>4, <1>7 DEF interVars
<1> QED
  BY <1>4, <1>5, <1>6, <1>7
     DEF InterNext, Ask, SendRefresh, SendFirst, SenderStep, SweepInteractive, DropSwept,
     EvictRounds, UnloadRounds, BindInteractive, CacheAndArm, GrowOld, TimerFires,
     ExpireStep, ExpireUnbind, ExpireTake, ExpireFlip, FinalizeStep, FinalizeTake,
     FinalizeFlip, UnbindByPrompt, history

LEMMA EndingSentStep ==
    ASSUME InterTypeOK, BoundIsWhole, PatchedWasSent, [InterNext]_interVars
    PROVE  \A w \in Ender : \A b \in ending'[w].todo : b[2] \in asked'
<1> SUFFICES ASSUME NEW v \in Ender, NEW c \in ending'[v].todo PROVE c[2] \in asked'
  OBVIOUS
<1>1. asked \subseteq asked'
  BY AskedGrows
<1>2. c \in ending[v].todo => c[2] \in asked
  BY DEF PatchedWasSent
<1>3. CASE UNCHANGED ending
  BY <1>1, <1>2, <1>3
<1>4. ASSUME NEW w \in Ender, NEW new, ending' = [ending EXCEPT ![w] = new]
      PROVE  c \in ending[v].todo \/ (v = w /\ c \in new.todo)
  BY <1>4 DEF InterTypeOK
<1>5. ASSUME NEW w \in Ender, NEW p \in TurnPrompts, UnbindByPrompt(w, p)
      PROVE  c[2] \in asked'
  <2> DEFINE new == [at |-> "take",
                     todo |-> {<< r, interactive[r].msg >> :
                         r \in {q \in Requests : interactive[q].prompt = p}}]
  <2>1. ending' = [ending EXCEPT ![w] = new]
    BY <1>5 DEF UnbindByPrompt
  <2>2. \A b \in new.todo : b[2] \in asked
    BY InteractiveAssumption DEF BoundIsWhole, NoBinding
  <2> HIDE DEF new
  <2> QED BY <1>1, <1>2, <1>4, <2>1, <2>2
<1>6. ASSUME NEW todo PROVE ToFlip(todo).todo = todo
  BY DEF ToFlip, NoEnding
<1>7. ASSUME NEW w \in Ender, FinalizeTake(w) PROVE c[2] \in asked'
  <2> DEFINE todo == {b \in ending[w].todo : cards[b[1]] # "none"}
  <2>1. ending' = [ending EXCEPT ![w] = ToFlip(todo)]
    BY <1>7 DEF FinalizeTake
  <2>2. c \in ending[v].todo \/ (v = w /\ c \in ToFlip(todo).todo)
    BY <1>4, <2>1
  <2> QED BY <1>1, <1>2, <1>6, <2>2
<1>8. ASSUME NEW w \in Ender, FinalizeFlip(w) PROVE c[2] \in asked'
  <2>1. PICK b \in ending[w].todo :
            ending' = [ending EXCEPT ![w] = ToFlip(ending[w].todo \ {b})]
    BY <1>8 DEF FinalizeFlip
  <2>2. c \in ending[v].todo \/ (v = w /\ c \in ToFlip(ending[w].todo \ {b}).todo)
    BY <1>4, <2>1
  <2> QED BY <1>1, <1>2, <1>6, <2>2
<1>9. CASE UNCHANGED interVars
  BY <1>3, <1>9 DEF interVars
<1> QED
  BY <1>3, <1>5, <1>7, <1>8, <1>9
     DEF InterNext, Ask, SendRefresh, SendFirst, SenderStep, SweepInteractive, DropSwept,
     EvictRounds, UnloadRounds, BindInteractive, CacheAndArm, GrowOld, TimerFires,
     ExpireStep, ExpireUnbind, ExpireTake, ExpireFlip, DispatchCardAction, ClickStep,
     ClickTake, ClickFlip, ClickCheck, ClickStore, ForwardAnswer, FinalizeStep, history

LEMMA PatchedStep ==
    ASSUME InterTypeOK, BoundIsWhole, PatchedWasSent, CardIsFree, [InterNext]_interVars
    PROVE  PatchedWasSent'
<1>1. /\ \A r \in Requests : timers'[r].at # "none" => timers'[r].msg \in asked'
      /\ \A r \in Requests : expiry'[r].at # "idle" => expiry'[r].msg \in asked'
  BY TimersSentStep, ExpirySentStep
<1>2. \A r \in Requests : click'[r].at \in Patching => click'[r].msg \in asked'
  BY ClickSentStep
<1>3. \A w \in Ender : \A b \in ending'[w].todo : b[2] \in asked'
  BY EndingSentStep
<1> QED BY <1>1, <1>2, <1>3 DEF PatchedWasSent, Patching

\* Nobody but the sender binds, so a card that is free stays free, ...
LEMMA CardStaysFree ==
    ASSUME InterTypeOK, CardIsFree, [InterNext]_interVars, UNCHANGED sender,
           ~BindInteractive
    PROVE  CardIsFree'
<1>1. \A r \in Requests : interactive'[r] \in {interactive[r], NoBinding}
  BY BindingsStep
<1>2. asked \subseteq asked' /\ asked \subseteq Requests
  BY AskedGrows DEF InterTypeOK
<1> QED BY <1>1, <1>2, InteractiveAssumption DEF CardIsFree, NoBinding

\* ... and the sender makes it free before it binds.
LEMMA CardIsFreeStep ==
    ASSUME InterTypeOK, BoundIsWhole, ShownWasSent, CardIsFree, [InterNext]_interVars
    PROVE  CardIsFree'
<1>1. asked \subseteq asked' /\ asked \subseteq Requests
  BY AskedGrows DEF InterTypeOK
<1>2. ASSUME NEW r \in Requests, NEW p \in TurnPrompts, NEW m \in Requests,
             SendRefresh(r, p, m)
      PROVE  CardIsFree'
  <2>1. /\ sender'.r = r /\ sender'.p = p /\ sender'.msg = m /\ sender'.at = "sweep"
        /\ sender'.refresh
    BY <1>2 DEF SendRefresh, Quiet
  <2>2. /\ r \notin asked /\ shown[m].r # Nobody /\ asked' = asked \cup {r}
        /\ interactive' = interactive
    BY <1>2 DEF SendRefresh
  <2>3. m \in asked /\ interactive[r] = NoBinding
    BY <2>2 DEF ShownWasSent, BoundIsWhole
  <2> QED BY <2>1, <2>2, <2>3 DEF CardIsFree
<1>3. ASSUME NEW r \in Requests, NEW p \in TurnPrompts, NEW t \in BOOLEAN,
             SendFirst(r, p, t)
      PROVE  CardIsFree'
  <2>1. CASE sender' = sender
    <3>1. UNCHANGED interactive
      BY <1>3 DEF SendFirst
    <3> QED BY <1>1, <2>1, <3>1 DEF CardIsFree
  <2>2. CASE sender' # sender
    <3>1. /\ sender' = [Quiet EXCEPT !.at = "sweep", !.r = r, !.p = p, !.msg = r]
          /\ r \notin asked /\ asked' = asked \cup {r} /\ interactive' = interactive
      BY <1>3, <2>2 DEF SendFirst
    <3>2. /\ sender'.r = r /\ sender'.p = p /\ sender'.msg = r /\ sender'.at = "sweep"
      BY <3>1 DEF Quiet
    <3>3. interactive[r] = NoBinding /\ \A q \in Requests : interactive[q].msg # r
      BY <3>1, InteractiveAssumption DEF BoundIsWhole, NoBinding
    <3> QED BY <3>1, <3>2, <3>3 DEF CardIsFree
  <2> QED BY <2>1, <2>2
<1>4. CASE SweepInteractive \/ DropSwept \/ EvictRounds \/ UnloadRounds
  <2>1. sender.at # "idle" /\ sender \in SenderState
    BY <1>4 DEF SweepInteractive, DropSwept, EvictRounds, UnloadRounds, InterTypeOK
  <2>2. /\ sender'.r = sender.r /\ sender'.p = sender.p /\ sender'.msg = sender.msg
        /\ sender'.refresh = sender.refresh
    BY <1>4, <2>1 DEF SweepInteractive, DropSwept, EvictRounds, UnloadRounds, SenderState
  <2>3. \A r \in Requests : interactive'[r] \in {interactive[r], NoBinding}
    BY <1>4 DEF SweepInteractive, DropSwept, EvictRounds, UnloadRounds
  <2>4. /\ sender.r \in asked /\ sender.msg \in asked /\ sender.p \in TurnPrompts
        /\ interactive[sender.r] = NoBinding
        /\ ~sender.refresh => \A q \in Requests : interactive[q].msg # sender.msg
    BY <1>4, <2>1 DEF CardIsFree, SweepInteractive, DropSwept, EvictRounds, UnloadRounds
  <2>5. /\ interactive'[sender.r] = NoBinding
        /\ ~sender.refresh => \A q \in Requests : interactive'[q].msg # sender.msg
    BY <1>1, <2>3, <2>4, InteractiveAssumption DEF NoBinding
  <2>6. CASE SweepInteractive
    <3>1. sender'.at = "drop"
      BY <2>1, <2>6 DEF SweepInteractive, SenderState
    <3> QED BY <1>1, <2>2, <2>4, <2>5, <3>1 DEF CardIsFree
  <2>7. CASE DropSwept
    <3>1. sender'.at = IF sender.refresh THEN "evict" ELSE "bind"
      BY <2>1, <2>7 DEF DropSwept, SenderState
    <3> QED BY <1>1, <2>2, <2>4, <2>5, <3>1 DEF CardIsFree
  <2>8. CASE EvictRounds
    <3>1. sender'.at = "unload"
      BY <2>1, <2>8 DEF EvictRounds, SenderState
    <3>2. \A q \in Requests : interactive'[q].msg # sender.msg
      BY <1>1, <2>4, <2>8, InteractiveAssumption DEF EvictRounds, NoBinding
    <3> QED BY <1>1, <2>2, <2>4, <2>5, <3>1, <3>2 DEF CardIsFree
  <2>9. CASE UnloadRounds
    <3>1. /\ sender'.at = "bind" /\ sender.at = "unload" /\ interactive' = interactive
      BY <2>1, <2>9 DEF UnloadRounds, SenderState
    <3> QED BY <1>1, <2>2, <2>4, <3>1 DEF CardIsFree
  <2> QED BY <1>4, <2>6, <2>7, <2>8, <2>9
<1>5. CASE BindInteractive
  <2>1. sender \in SenderState
    BY DEF InterTypeOK
  <2>2. /\ sender'.r = sender.r /\ sender'.p = sender.p /\ sender'.msg = sender.msg
        /\ sender'.at = "cache" /\ sender.at # "idle"
    BY <1>5, <2>1 DEF BindInteractive, SenderState
  <2> QED BY <1>1, <2>2 DEF CardIsFree
<1>6. CASE CacheAndArm
  <2>1. sender'.at = "idle"
    BY <1>6 DEF CacheAndArm, Quiet
  <2> QED BY <2>1 DEF CardIsFree
<1>7. CASE UNCHANGED sender /\ ~BindInteractive
  BY <1>7, CardStaysFree
<1> QED
  BY <1>2, <1>3, <1>4, <1>5, <1>6, <1>7
     DEF InterNext, Ask, SenderStep, GrowOld, TimerFires,
     ExpireStep, ExpireUnbind, ExpireTake, ExpireFlip, DispatchCardAction, ClickStep,
     ClickTake, ClickFlip, ClickCheck, ClickStore, ForwardAnswer, FinalizeStep,
     FinalizeTake, FinalizeFlip, UnbindByPrompt, interVars

-----------------------------------------------------------------------------
(* The cache and its timers *)

LEMMA ClickedStep ==
    ASSUME InterTypeOK, ClickedIsAnswered, [InterNext]_interVars
    PROVE  ClickedIsAnswered'
<1>1. CASE UNCHANGED << click, actionIDs >>
  BY <1>1 DEF ClickedIsAnswered
<1>2. ASSUME NEW r \in Requests, DispatchCardAction(r) PROVE ClickedIsAnswered'
  <2>1. \/ UNCHANGED << click, actionIDs >>
        \/ /\ click' = [click EXCEPT ![r] = ClickFrom(r)]
           /\ actionIDs' = actionIDs \cup {r}
    BY <1>2 DEF DispatchCardAction
  <2> QED BY <2>1 DEF ClickedIsAnswered, InterTypeOK
<1>3. ASSUME NEW r \in Requests, ClickStep(r) PROVE ClickedIsAnswered'
  <2>1. click[r].at # "idle" /\ actionIDs' = actionIDs
    BY <1>3 DEF ClickStep, ClickTake, ClickFlip, ClickCheck, ClickStore, ForwardAnswer,
       history
  <2>2. \E new : click' = [click EXCEPT ![r] = new]
    BY <1>3 DEF ClickStep, ClickTake, ClickFlip, ClickCheck, ClickStore, ForwardAnswer
  <2> QED BY <2>1, <2>2 DEF ClickedIsAnswered, InterTypeOK
<1>4. CASE UNCHANGED interVars
  BY <1>1, <1>4 DEF interVars
<1> QED
  BY <1>1, <1>2, <1>3, <1>4
     DEF InterNext, Ask, SendRefresh, SendFirst, SenderStep, SweepInteractive, DropSwept,
     EvictRounds, UnloadRounds, BindInteractive, CacheAndArm, GrowOld, TimerFires,
     ExpireStep, ExpireUnbind, ExpireTake, ExpireFlip, FinalizeStep, FinalizeTake,
     FinalizeFlip, UnbindByPrompt, history

\* Whoever stops a timer empties the cache with it, or answers the request.
LEMMA CachedStep ==
    ASSUME InterTypeOK, CardIsFree, ClickedIsAnswered, CachedHasTimer,
           [InterNext]_interVars
    PROVE  CachedHasTimer'
<1> SUFFICES ASSUME NEW q \in Requests \ actionIDs', cards'[q] # "none"
             PROVE  timers'[q].at # "none"
  BY DEF CachedHasTimer
<1>1. ASSUME actionIDs \subseteq actionIDs', cards[q] # "none"
      PROVE  timers[q].at # "none"
  BY <1>1 DEF CachedHasTimer
<1>2. CASE UNCHANGED << cards, timers >> /\ actionIDs \subseteq actionIDs'
  BY <1>1, <1>2
<1>3. CASE DropSwept
  BY <1>1, <1>3 DEF DropSwept
<1>4. CASE UnloadRounds
  BY <1>1, <1>4 DEF UnloadRounds
<1>5. CASE CacheAndArm
  <2>1. \/ q # sender.r /\ cards'[q] = cards[q] /\ timers'[q] = timers[q]
        \/ timers'[q] = [at |-> "armed", msg |-> sender.msg]
    BY <1>5 DEF CacheAndArm, InterTypeOK
  <2> QED BY <1>1, <1>5, <2>1 DEF CacheAndArm
<1>6. ASSUME NEW r \in Requests, TimerFires(r) PROVE timers'[q].at # "none"
  <2>1. timers \in [Requests -> TimerState] /\ timers' = [timers EXCEPT ![r].at = "fired"]
    BY <1>6 DEF TimerFires, InterTypeOK
  <2>2. timers'[q] = timers[q] \/ timers'[q].at = "fired"
    BY <2>1 DEF TimerState
  <2> QED BY <1>1, <1>6, <2>2 DEF TimerFires
<1>7. ASSUME NEW r \in Requests, ExpireTake(r) PROVE timers'[q].at # "none"
  BY <1>1, <1>7 DEF ExpireTake, InterTypeOK, history
<1>8. ASSUME NEW r \in Requests, ClickTake(r) PROVE timers'[q].at # "none"
  BY <1>1, <1>8 DEF ClickTake, ClickedIsAnswered, InterTypeOK, history
<1>9. ASSUME NEW r \in Requests, ClickStore(r) PROVE timers'[q].at # "none"
  BY <1>1, <1>9 DEF ClickStore, ClickedIsAnswered, InterTypeOK
<1>10. ASSUME NEW w \in Ender, FinalizeTake(w) PROVE timers'[q].at # "none"
  BY <1>1, <1>10 DEF FinalizeTake
<1>11. CASE UNCHANGED interVars
  BY <1>2, <1>11 DEF interVars
<1> QED
  BY <1>2, <1>3, <1>4, <1>5, <1>6, <1>7, <1>8, <1>9, <1>10, <1>11
     DEF InterNext, Ask, SendRefresh, SendFirst, SenderStep, SweepInteractive,
     EvictRounds, BindInteractive, GrowOld, ExpireStep, ExpireUnbind, ExpireFlip,
     DispatchCardAction, ClickStep, ClickFlip, ClickCheck, ForwardAnswer, FinalizeStep,
     FinalizeFlip, UnbindByPrompt, history

-----------------------------------------------------------------------------
(* The theorems *)

LEMMA InterInvInit == InterInit => InterInv
<1> SUFFICES ASSUME InterInit PROVE InterInv
  OBVIOUS
<1>1. InterTypeOK
  BY InterTypeInit
<1>2. ListedOnce /\ ClickedIsAnswered /\ CachedHasTimer
  BY DEF InterInit, ListedOnce, ClickedIsAnswered, CachedHasTimer, NoEnding
<1>3. HeldIsCredited
  BY DEF InterInit, HeldIsCredited, Held, Count, Finishes, NoEnding, NoTimerRuns, Ender
<1>4. BoundIsWhole /\ ShownWasSent /\ OwnersDiffer
  BY DEF InterInit, BoundIsWhole, ShownWasSent, OwnersDiffer
<1>5. PatchedWasSent /\ CardIsFree
  BY DEF InterInit, PatchedWasSent, Patching, CardIsFree, NoTimer, NoTimerRuns,
     NoEnding, Quiet
<1> QED BY <1>1, <1>2, <1>3, <1>4, <1>5 DEF InterInv

LEMMA InterInvStep == InterInv /\ [InterNext]_interVars => InterInv'
BY InterTypeStep, ListedOnceStep, HeldStep, BoundStep, ShownStep, PatchedStep,
   CardIsFreeStep, OwnersStep, ClickedStep, CachedStep DEF InterInv

\* The inductive invariant of the cards holds in every state.
THEOREM InteractiveInvariant == InterSpec => []InterInv
BY InterInvInit, InterInvStep, PTL DEF InterSpec

\* A form that was cached once is rendered expired or finished at most once,
\* whatever the order of the timer callback, the clicks, the sender and the
\* two goroutines that end turns.
THEOREM FormsFlipOnce == InterSpec => []FlippedOncePerForm
<1>1. ASSUME InterInv PROVE FlippedOncePerForm
  <2> SUFFICES ASSUME NEW r \in Requests
               PROVE  Cardinality({w \in Ender : ending[w].at = "flip"
                                         /\ r \in {b[1] : b \in ending[w].todo}})
                        + (IF expiry[r].at = "flip" THEN 1 ELSE 0)
                        + (IF cards[r] # "none" THEN 1 ELSE 0) <= credit[r]
    BY DEF FlippedOncePerForm
  <2>1. Held(r) <= credit[r]
    BY <1>1 DEF InterInv, HeldIsCredited
  <2> QED BY <2>1, HeldIsCounted DEF Held, Count
<1> QED BY <1>1, InteractiveInvariant, PTL

\* No two bindings ever name the same card, so when sendInteractive has
\* returned one request owns the card it refreshed.
THEOREM OneOwnerHolds == InterSpec => []OneOwner
<1>1. InterInv => OneOwner
  BY DEF InterInv, OwnersDiffer, OneOwner
<1> QED BY <1>1, InteractiveInvariant, PTL

\* The cached card of an unanswered request keeps the timer that drops it.
THEOREM CacheIsReapedHolds == InterSpec => []CacheIsReaped
<1>1. InterInv => CacheIsReaped
  BY DEF InterInv, CachedHasTimer, CacheIsReaped
<1> QED BY <1>1, InteractiveInvariant, PTL
=============================================================================
