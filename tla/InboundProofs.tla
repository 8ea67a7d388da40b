---------------------------- MODULE InboundProofs -----------------------------
(*************************************************************************)
(* Proofs about what Lark sends in: the session and the handling of its  *)
(* events, and the pipelines of files and posts.                         *)
(*************************************************************************)
EXTENDS Inbound, Inbox, FiniteSetTheorems, SequenceTheorems, TLAPS

-----------------------------------------------------------------------------
(*************************************************************************)
(* Inbound and the session it extends: only whole events are handed on,  *)
(* none is lost on the way to its handler, one message becomes one       *)
(* prompt, and a turn belongs to a prompt.                               *)
(*************************************************************************)

WireFrame == [event : Events, seq : {0, 1}]
Partial == [have : SUBSET {0, 1}, got : Nat]
Job == [event : Events \cup {NoEvent},
        pc : {"none", "handle", "fetch", "card", "send", "notice"}]

InboundTypeOK ==
  /\ wire \in Seq(WireFrame) /\ pending \in [Events -> Partial]
  /\ queue \in Seq(Events) /\ job \in [Runners -> Job]
  /\ acked \subseteq Events /\ sends \in [Events -> Nat]
  /\ owed \in [Events -> Int] /\ torn \in BOOLEAN
  /\ conn \in {"dial", "up", "ending", "sleep", "exhausted", "fatal", "stopped"}
  /\ stop \in BOOLEAN /\ budget \in Int /\ reconnects \in Nat /\ failedDials \in Nat
  /\ now \in Nat /\ born \in [Events -> Nat] /\ seen \in [Events -> Int]
  /\ turnOf \subseteq Events /\ prompts \in [Events -> Nat]
  /\ failed \subseteq Events /\ evicted \subseteq Events /\ faultCount \in Nat

-----------------------------------------------------------------------------
(* The inductive invariant *)

(* A runner at work has an event.                                          *)
JobHasEvent ==
  \A r \in Runners : job[r].pc = "none" <=> job[r].event = NoEvent

(* A frame carries a chunk of its event, and the reassembler has counted   *)
(* the chunks it holds.                                                    *)
WireOfChunks == \A i \in DOMAIN wire : wire[i].seq \in Chunks(wire[i].event)
GotIsCounted ==
  \A e \in Events : /\ pending[e].have \subseteq Chunks(e)
                    /\ pending[e].got = Cardinality(pending[e].have)

(* Where event e waits, and who handles it.                                *)
Places(q, e) == {i \in DOMAIN q : q[i] = e}
Waiting(e) == Places(queue, e)
Handling(e) == {r \in Runners : job[r].event = e}
OwedIsInFlight ==
  \A e \in Events : /\ IsFiniteSet(Handling(e))
                    /\ owed[e] = Cardinality(Waiting(e)) + Cardinality(Handling(e))

(* An event that is anywhere in the client was sent.                       *)
Sent(e) == sends[e] > 0
EverywhereSent ==
  /\ \A i \in DOMAIN wire : Sent(wire[i].event)
  /\ \A i \in DOMAIN queue : Sent(queue[i])
  /\ \A r \in Runners : job[r].pc # "none" => Sent(job[r].event)
  /\ \A e \in Events : prompts[e] > 0 => Sent(e)

(* A handling that has taken its event for new and may still prompt.       *)
Prompting(r, e) == job[r].event = e /\ job[r].pc \in {"fetch", "card", "send"}

(* Whoever sees e again finds its mark in time or the message too old.     *)
Marked(e) == (seen[e] >= 0 /\ seen[e] >= born[e]) \/ IsStale(e)

HandledOnce(e) ==
  /\ \A r, s \in Runners : Prompting(r, e) /\ Prompting(s, e) => r = s
  /\ prompts[e] <= 1
  /\ prompts[e] = 1 => \A r \in Runners : ~Prompting(r, e)
  /\ prompts[e] = 1 \/ (\E r \in Runners : Prompting(r, e)) => Marked(e)

OneHandling == \A e \in Events \ evicted : HandledOnce(e)

BornBefore == \A e \in Events : born[e] <= now

(* A turn without a prompt is about to be prompted for.                    *)
TurnHasPrompt ==
  \A e \in turnOf :
    prompts[e] > 0 \/ \E r \in Runners : job[r].event = e /\ job[r].pc = "send"

InboundInv ==
  /\ InboundTypeOK /\ JobHasEvent /\ WireOfChunks /\ GotIsCounted /\ ~torn
  /\ OwedIsInFlight /\ EverywhereSent /\ BornBefore /\ OneHandling /\ TurnHasPrompt

-----------------------------------------------------------------------------
(* Counting in the queue                                                   *)

LEMMA PlacesFinite ==
  ASSUME NEW S, NEW q \in Seq(S), NEW e
  PROVE  IsFiniteSet(Places(q, e)) /\ Cardinality(Places(q, e)) \in Nat
<1>1. Len(q) \in Nat /\ Places(q, e) \subseteq 1 .. Len(q)
  BY DEF Places
<1>2. IsFiniteSet(1 .. Len(q))
  BY <1>1, FS_Interval
<1>3. IsFiniteSet(Places(q, e))
  BY <1>1, <1>2, FS_Subset
<1> QED BY <1>3, FS_CardinalityType

LEMMA CountAppend ==
  ASSUME NEW S, NEW q \in Seq(S), NEW x \in S, NEW e
  PROVE  Cardinality(Places(Append(q, x), e))
           = Cardinality(Places(q, e)) + (IF x = e THEN 1 ELSE 0)
<1> DEFINE Before == {i \in DOMAIN q : q[i] = e}
           New == {i \in DOMAIN Append(q, x) : Append(q, x)[i] = e}
<1>1. Len(q) \in Nat /\ DOMAIN q = 1 .. Len(q) /\ Len(q) + 1 \notin DOMAIN q
  OBVIOUS
<1>4. IsFiniteSet(Before) /\ Cardinality(Before) \in Nat
  BY PlacesFinite DEF Places
<1>5. New = IF x = e THEN Before \cup {Len(q) + 1} ELSE Before
  <2>1. DOMAIN Append(q, x) = 1 .. (Len(q) + 1)
    BY <1>1
  <2>2. /\ \A i \in 1 .. Len(q) : Append(q, x)[i] = q[i]
        /\ Append(q, x)[Len(q) + 1] = x
    BY <1>1
  <2> QED BY <1>1, <2>1, <2>2
<1>6. Len(q) + 1 \notin Before
  BY <1>1
<1> HIDE DEF Before, New
<1>7. Cardinality(New) = Cardinality(Before) + (IF x = e THEN 1 ELSE 0)
  <2>1. Cardinality(Before \cup {Len(q) + 1}) = Cardinality(Before) + 1
    BY <1>4, <1>6, FS_AddElement
  <2> QED BY <1>4, <1>5, <2>1
<1> QED BY <1>7 DEF Before, New, Places

LEMMA CountTail ==
  ASSUME NEW S, NEW q \in Seq(S), q # << >>, NEW e
  PROVE  Cardinality(Places(q, e))
           = Cardinality(Places(Tail(q), e)) + (IF Head(q) = e THEN 1 ELSE 0)
<1> DEFINE Before == {i \in DOMAIN q : q[i] = e}
           New == {i \in DOMAIN Tail(q) : Tail(q)[i] = e}
           Next1 == [i \in New |-> i + 1]
<1>1. /\ Len(q) \in Nat \ {0} /\ DOMAIN q = 1 .. Len(q) /\ Head(q) = q[1]
      /\ DOMAIN Tail(q) = 1 .. (Len(q) - 1)
      /\ \A i \in 1 .. (Len(q) - 1) : Tail(q)[i] = q[i + 1]
  BY EmptySeq, HeadTailProperties
<1>2. IsFiniteSet(1 .. Len(q)) /\ Before \subseteq 1 .. Len(q) /\ New \subseteq 1 .. Len(q)
  <2>1. 1 \in Int /\ Len(q) \in Int
    BY <1>1
  <2>2. IsFiniteSet(1 .. Len(q))
    BY <2>1, FS_Interval
  <2>3. Before \subseteq 1 .. Len(q) /\ New \subseteq 1 .. Len(q)
    BY <1>1
  <2> QED BY <2>2, <2>3
<1>3. IsFiniteSet(Before) /\ IsFiniteSet(New)
  BY <1>2, FS_Subset
<1>4. Next1 \in Bijection(New, Before \ {1})
  <2>1. \A i \in New : i + 1 \in Before \ {1}
    BY <1>1
  <2>2. ASSUME NEW j \in Before \ {1}
        PROVE  j - 1 \in New /\ j = (j - 1) + 1
    <3>1. j \in 1 .. Len(q) /\ j # 1 /\ q[j] = e
      BY <1>1
    <3>2. j - 1 \in 1 .. (Len(q) - 1) /\ j = (j - 1) + 1
      BY <1>1, <3>1
    <3>3. Tail(q)[j - 1] = q[(j - 1) + 1]
      BY <1>1, <3>2
    <3> QED BY <1>1, <3>1, <3>2, <3>3
  <2>3. New \subseteq Int
    BY <1>2
  <2> HIDE DEF New, Before
  <2>4. Next1 \in [New -> Before \ {1}] /\ \A i \in New : Next1[i] = i + 1
    BY <2>1
  <2> HIDE DEF Next1
  <2>5. \A j \in Before \ {1} : \E i \in New : Next1[i] = j
    BY <2>2, <2>4
  <2>6. IsInjective(Next1)
    BY <2>3, <2>4 DEF IsInjective
  <2> QED BY <2>4, <2>5, <2>6 DEF Bijection, Injection, Surjection
<1>5. 1 \in Before <=> Head(q) = e
  BY <1>1
<1> HIDE DEF Before, New, Next1
<1>6. Cardinality(Before \ {1}) = Cardinality(New)
  BY <1>3, <1>4, FS_Bijection DEF ExistsBijection
<1>7. Cardinality(Before) \in Nat
  BY <1>3, FS_CardinalityType
<1>8. Cardinality(Before \ {1}) = IF 1 \in Before THEN Cardinality(Before) - 1 ELSE Cardinality(Before)
  BY <1>3, FS_RemoveElement
<1>9. Cardinality(Before) = Cardinality(New) + (IF Head(q) = e THEN 1 ELSE 0)
  BY <1>5, <1>6, <1>7, <1>8
<1> QED BY <1>9 DEF Before, New, Places

-----------------------------------------------------------------------------
(* Types                                                                   *)

LEMMA InboundTypeInit == InboundInit => InboundTypeOK /\ JobHasEvent
<1> SUFFICES ASSUME InboundInit PROVE InboundTypeOK /\ JobHasEvent
  OBVIOUS
<1>1. job \in [Runners -> Job] /\ pending \in [Events -> Partial]
  BY DEF InboundInit, SessionInit, NoJob, NothingPending, Job, Partial
<1>2. wire \in Seq(WireFrame) /\ queue \in Seq(Events)
  BY EmptySeq DEF InboundInit, SessionInit
<1>3. JobHasEvent
  BY DEF InboundInit, SessionInit, NoJob, JobHasEvent
<1>4. /\ sends \in [Events -> Nat] /\ owed \in [Events -> Int] /\ budget \in Int
      /\ born \in [Events -> Nat] /\ seen \in [Events -> Int] /\ prompts \in [Events -> Nat]
  BY DEF InboundInit, SessionInit
<1>5. stop \in BOOLEAN /\ torn \in BOOLEAN
  BY Zenon DEF InboundInit, SessionInit
<1> QED BY <1>1, <1>2, <1>3, <1>4, <1>5 DEF InboundInit, SessionInit, InboundTypeOK

(* A job that goes on keeps its event, ...                                 *)
LEMMA GotoKeeps ==
  ASSUME InboundTypeOK, JobHasEvent, NEW r \in Runners, job[r].pc # "none",
         NEW pc \in {"fetch", "card", "send", "notice"}, Goto(r, pc)
  PROVE  /\ job' \in [Runners -> Job]
         /\ \A s \in Runners : job'[s].event = job[s].event
         /\ \A s \in Runners : job'[s].pc = IF s = r THEN pc ELSE job[s].pc
         /\ owed' = owed
<1>1. job \in [Runners -> Job] /\ job' = [job EXCEPT ![r].pc = pc] /\ owed' = owed
  BY DEF Goto, InboundTypeOK
<1>2. job' \in [Runners -> Job]
  BY <1>1 DEF Job
<1>3. /\ \A s \in Runners : job'[s].event = job[s].event
      /\ \A s \in Runners : job'[s].pc = IF s = r THEN pc ELSE job[s].pc
  BY <1>1 DEF Job
<1> QED BY <1>1, <1>2, <1>3

(* ... and one that ends leaves its runner idle.                           *)
LEMMA FinishFrees ==
  ASSUME InboundTypeOK, NEW r \in Runners, Finish(r)
  PROVE  /\ job' \in [Runners -> Job]
         /\ \A s \in Runners : job'[s] = IF s = r THEN NoJob ELSE job[s]
         /\ owed' \in [Events -> Int]
         /\ owed' = [owed EXCEPT ![job[r].event] = @ - 1]
<1>1. job \in [Runners -> Job] /\ job' = [job EXCEPT ![r] = NoJob] /\ NoJob \in Job
  BY DEF Finish, InboundTypeOK, NoJob, Job
<1>2. owed' = [owed EXCEPT ![job[r].event] = @ - 1] /\ owed \in [Events -> Int]
  BY DEF Finish, InboundTypeOK
<1>3. owed' \in [Events -> Int]
  <2>1. CASE job[r].event \in Events
    BY <1>2, <2>1
  <2>2. CASE job[r].event \notin Events
    BY <1>2, <2>2
  <2> QED BY <2>1, <2>2
<1> QED BY <1>1, <1>2, <1>3

(* What a step of a handling does to the session.                          *)
HandlingStep(r) == Handle(r) \/ Fetch(r) \/ SendPlaceholder(r) \/ Forward(r) \/ Notice(r)

LEMMA HandlingMoves ==
  ASSUME NEW r \in Runners, HandlingStep(r)
  PROVE  /\ job[r].pc # "none"
         /\ SessionKept /\ UNCHANGED << now, born >>
         /\ Finish(r) \/ \E pc \in {"fetch", "card", "send", "notice"} : Goto(r, pc)
BY Zenon DEF HandlingStep, Handle, Fetch, SendPlaceholder, Forward, Notice

LEMMA HandlingType ==
  ASSUME InboundTypeOK, JobHasEvent, NEW r \in Runners, HandlingStep(r)
  PROVE  InboundTypeOK'
<1>1. job[r].pc # "none" /\ SessionKept /\ UNCHANGED << now, born >>
  BY HandlingMoves
<1>2. job[r].event \in Events
  BY <1>1 DEF InboundTypeOK, JobHasEvent, Job
<1>3. job' \in [Runners -> Job] /\ owed' \in [Events -> Int]
  <2>1. CASE Finish(r)
    BY <2>1, FinishFrees
  <2>2. ASSUME NEW pc \in {"fetch", "card", "send", "notice"}, Goto(r, pc)
        PROVE  job' \in [Runners -> Job] /\ owed' \in [Events -> Int]
    BY <1>1, <2>2, GotoKeeps DEF InboundTypeOK
  <2> QED BY <2>1, <2>2, HandlingMoves
<1>4. faultCount' \in Nat
  <2>1. faultCount' = faultCount \/ faultCount' = faultCount + 1
    BY Zenon DEF HandlingStep, Handle, Fetch, SendPlaceholder, Forward, Notice, CallOk, CallFails
  <2> QED BY <2>1 DEF InboundTypeOK
<1>5. seen' \in [Events -> Int] /\ evicted' \subseteq Events
  <2>1. seen \in [Events -> Int] /\ evicted \subseteq Events /\ now \in Int
    BY DEF InboundTypeOK
  <2>2. ASSUME NEW e \in Events, Add(e)
        PROVE  seen' \in [Events -> Int] /\ evicted' \subseteq Events
    BY <2>1, <2>2 DEF Add, Present
  <2>3. CASE Handle(r)
    BY <1>2, <2>1, <2>2, <2>3 DEF Handle
  <2>4. CASE ~Handle(r)
    BY <1>2, <2>1, <2>4 DEF HandlingStep, Fetch, SendPlaceholder, Forward, Notice
  <2> QED BY <2>3, <2>4
<1>6. turnOf' \subseteq Events
  <2>1. turnOf' \in {turnOf, turnOf \cup {job[r].event}, turnOf \ {job[r].event}}
    BY Zenon DEF HandlingStep, Handle, Fetch, SendPlaceholder, Forward, Notice
  <2> QED BY <1>2, <2>1 DEF InboundTypeOK
<1>7. prompts' \in [Events -> Nat]
  <2>1. prompts' = prompts \/ prompts' = [prompts EXCEPT ![job[r].event] = @ + 1]
    BY Zenon DEF HandlingStep, Handle, Fetch, SendPlaceholder, Forward, Notice
  <2>2. prompts \in [Events -> Nat] /\ prompts[job[r].event] + 1 \in Nat
    BY <1>2 DEF InboundTypeOK
  <2> QED BY <2>1, <2>2
<1>8. failed' \subseteq Events
  <2>1. failed' \in {failed, failed \cup {job[r].event}, failed \ {job[r].event}}
    BY Zenon DEF HandlingStep, Handle, Fetch, SendPlaceholder, Forward, Notice
  <2> QED BY <1>2, <2>1 DEF InboundTypeOK
<1> QED BY <1>1, <1>3, <1>4, <1>5, <1>6, <1>7, <1>8 DEF InboundTypeOK, SessionKept

LEMMA ReadFrameType ==
  ASSUME InboundTypeOK, ReadFrame
  PROVE  /\ wire' \in Seq(WireFrame) /\ pending' \in [Events -> Partial]
         /\ queue' \in Seq(Events) /\ job' \in [Runners -> Job]
         /\ acked' \subseteq Events /\ owed' \in [Events -> Int] /\ torn' \in BOOLEAN
<1> DEFINE e == Head(wire).event
           seq == Head(wire).seq
           p == Store(pending[e], seq)
<1>1. wire # << >> /\ wire' = Tail(wire) /\ wire \in Seq(WireFrame)
  BY DEF ReadFrame, InboundTypeOK
<1>2. wire' \in Seq(WireFrame) /\ Head(wire) \in WireFrame
  BY <1>1, HeadTailProperties
<1>3. e \in Events /\ seq \in {0, 1}
  BY <1>2 DEF WireFrame
<1>4. p \in Partial
  <2>1. pending[e] \in Partial
    BY <1>3 DEF InboundTypeOK
  <2>2. [have |-> pending[e].have \cup {seq}, got |-> pending[e].got + 1] \in Partial
    BY <1>3, <2>1 DEF Partial
  <2> QED BY <2>1, <2>2 DEF Store
<1>5. \/ /\ pending' = [pending EXCEPT ![e] = p]
         /\ UNCHANGED << acked, queue, job, owed, torn >>
      \/ /\ pending' = [pending EXCEPT ![e] = [have |-> {}, got |-> 0]]
         /\ acked' \in {acked, acked \cup {e}}
         /\ owed' = [owed EXCEPT ![e] = @ + 1]
         /\ torn' = (torn \/ p.have # Chunks(e))
         /\ Submit(e)
  BY Zenon DEF ReadFrame
<1> HIDE DEF e, seq, p
<1>6. pending' \in [Events -> Partial]
  <2>1. pending \in [Events -> Partial] /\ [have |-> {}, got |-> 0] \in Partial
    BY DEF InboundTypeOK, Partial
  <2>2. \E q \in Partial : pending' = [pending EXCEPT ![e] = q]
    BY <1>4, <1>5, <2>1
  <2> QED BY <1>3, <2>1, <2>2
<1>7. acked' \subseteq Events /\ owed' \in [Events -> Int]
  BY <1>3, <1>5 DEF InboundTypeOK
<1>8. torn' \in BOOLEAN
  BY Zenon, <1>5 DEF InboundTypeOK
<1>9. queue' \in Seq(Events) /\ job' \in [Runners -> Job]
  <2>1. /\ queue \in Seq(Events) /\ job \in [Runners -> Job]
        /\ [event |-> e, pc |-> "handle"] \in Job
    BY <1>3 DEF InboundTypeOK, Job
  <2>2. CASE UNCHANGED << queue, job >>
    BY <2>1, <2>2
  <2>3. CASE Submit(e)
    BY <1>3, <2>1, <2>3 DEF Submit
  <2> QED BY <1>5, <2>2, <2>3
<1> QED BY <1>2, <1>6, <1>7, <1>8, <1>9

LEMMA DeliverType ==
  ASSUME InboundTypeOK, NEW e \in Events, Deliver(e)
  PROVE  /\ wire' \in Seq(WireFrame) /\ sends' \in [Events -> Nat]
         /\ \A i \in DOMAIN wire' : wire'[i] \in {wire[j] : j \in DOMAIN wire}
                                     \/ \E n \in Chunks(e) : wire'[i] = Frame(e, n)
<1>1. wire \in Seq(WireFrame)
  BY DEF InboundTypeOK
<1>2. \A n \in {0, 1} : Frame(e, n) \in WireFrame
  BY DEF Frame, WireFrame
<1>3. sends' \in [Events -> Nat]
  BY DEF Deliver, InboundTypeOK
<1>4. ASSUME NEW n \in Chunks(e), wire' = Append(wire, Frame(e, n))
      PROVE  /\ wire' \in Seq(WireFrame)
             /\ \A i \in DOMAIN wire' : wire'[i] \in {wire[j] : j \in DOMAIN wire}
                                         \/ wire'[i] = Frame(e, n)
  <2>1. Frame(e, n) \in WireFrame
    BY <1>2 DEF Chunks
  <2> QED BY <1>1, <1>4, <2>1
<1>5. ASSUME wire' = wire \o Frames(e)
      PROVE  /\ wire' \in Seq(WireFrame)
             /\ \A i \in DOMAIN wire' : wire'[i] \in {wire[j] : j \in DOMAIN wire}
                                         \/ \E n \in Chunks(e) : wire'[i] = Frame(e, n)
  <2>1. Frames(e) \in Seq(WireFrame)
    BY <1>2 DEF Frames
  <2>2. \A i \in DOMAIN Frames(e) : \E n \in Chunks(e) : Frames(e)[i] = Frame(e, n)
    BY DEF Frames, Chunks
  <2> QED BY <1>1, <1>5, <2>1, <2>2, ConcatProperties
<1>6. wire' = wire \o Frames(e) \/ \E n \in Chunks(e) : wire' = Append(wire, Frame(e, n))
  BY DEF Deliver
<1> QED BY <1>3, <1>4, <1>5, <1>6

LEMMA InboundTypeStep == InboundTypeOK /\ JobHasEvent /\ [InboundNext]_inboundVars => InboundTypeOK'
<1> SUFFICES ASSUME InboundTypeOK, JobHasEvent, [InboundNext]_inboundVars PROVE InboundTypeOK'
  OBVIOUS
<1>1. CASE PruneSeen
  <2>1. seen' \in [Events -> Int]
    BY <1>1 DEF PruneSeen, InboundTypeOK
  <2> QED BY <1>1, <2>1 DEF PruneSeen, InboundTypeOK, sessionVars
<1>2. CASE Tick
  BY <1>2 DEF Tick, InboundTypeOK, sessionVars
<1>3. CASE SessionStep
  <2> DEFINE Others == /\ now' \in Nat /\ born' \in [Events -> Nat] /\ seen' \in [Events -> Int]
                       /\ turnOf' \subseteq Events /\ prompts' \in [Events -> Nat]
                       /\ failed' \subseteq Events /\ evicted' \subseteq Events
                       /\ faultCount' \in Nat
  <2>1. Others
    BY <1>3 DEF SessionStep, InboundTypeOK
  <2>2. ASSUME NEW n \in Nat, ReconnectStep(n)
        PROVE  conn' \in {"sleep", "exhausted", "stopped"} /\ reconnects' \in Nat
    BY <2>2 DEF ReconnectStep
  <2> HIDE DEF Others
  <2>3. ASSUME DialOk \/ DialFails \/ SleepEnds \/ Stop \/ Pong \/ SessionBreaks
        PROVE  InboundTypeOK'
    <3>1. conn' \in {"dial", "up", "ending", "sleep", "exhausted", "fatal", "stopped"}
          /\ reconnects' \in Nat
      BY <2>2, <2>3 DEF DialOk, DialFails, SleepEnds, Stop, Pong, SessionBreaks, InboundTypeOK
    <3>2. failedDials' \in Nat
      BY <2>3 DEF DialOk, DialFails, SleepEnds, Stop, Pong, SessionBreaks, InboundTypeOK
    <3>3. stop' \in BOOLEAN
      BY Zenon, <2>3 DEF DialOk, DialFails, SleepEnds, Stop, Pong, SessionBreaks, InboundTypeOK
    <3>4. budget' \in Int
      BY <2>3, SessionAssumption
         DEF DialOk, DialFails, SleepEnds, Stop, Pong, Merge, SessionBreaks, InboundTypeOK
    <3>5. wire' \in Seq(WireFrame)
      BY <2>3, EmptySeq DEF DialOk, DialFails, SleepEnds, Stop, Pong, SessionBreaks, InboundTypeOK
    <3>6. UNCHANGED << pending, queue, job, acked, sends, owed, torn >>
      BY <2>3 DEF DialOk, DialFails, SleepEnds, Stop, Pong, SessionBreaks
    <3> QED BY <2>1, <3>1, <3>2, <3>3, <3>4, <3>5, <3>6 DEF Others, InboundTypeOK
  <2>4. CASE ReadFrame
    BY <2>1, <2>4, ReadFrameType DEF ReadFrame, Others, InboundTypeOK
  <2>5. CASE SessionEnds
    <3>1. pending' \in [Events -> Partial]
      BY <2>5 DEF SessionEnds, NothingPending, Partial
    <3>2. conn' \in {"sleep", "exhausted", "stopped"} /\ reconnects' \in Nat
      BY <2>2, <2>5 DEF SessionEnds
    <3> QED BY <2>1, <2>5, <3>1, <3>2 DEF SessionEnds, Others, InboundTypeOK
  <2>6. ASSUME NEW e \in Events, Deliver(e) PROVE InboundTypeOK'
    <3>1. wire' \in Seq(WireFrame) /\ sends' \in [Events -> Nat]
      BY <2>6, DeliverType
    <3> QED BY <2>1, <2>6, <3>1 DEF Deliver, Others, InboundTypeOK
  <2>7. ASSUME NEW e \in Events, Sweep(e) PROVE InboundTypeOK'
    <3>1. pending' \in [Events -> Partial]
      BY <2>7 DEF Sweep, InboundTypeOK, Partial
    <3> QED BY <2>1, <2>7, <3>1 DEF Sweep, Others, InboundTypeOK
  <2>8. ASSUME NEW w \in Workers, WorkerTakes(w) PROVE InboundTypeOK'
    <3>1. queue \in Seq(Events) /\ queue # << >> /\ job \in [Runners -> Job]
      BY <2>8 DEF WorkerTakes, InboundTypeOK
    <3>2. Head(queue) \in Events /\ Tail(queue) \in Seq(Events)
      BY <3>1, HeadTailProperties
    <3>3. [event |-> Head(queue), pc |-> "handle"] \in Job
      BY <3>2 DEF Job
    <3>4. job' \in [Runners -> Job] /\ queue' \in Seq(Events)
      BY <2>8, <3>1, <3>2, <3>3 DEF WorkerTakes
    <3> QED BY <2>1, <2>8, <3>4 DEF WorkerTakes, Others, InboundTypeOK
  <2> QED BY <1>3, <2>3, <2>4, <2>5, <2>6, <2>7, <2>8 DEF SessionStep, SessionNext
<1>4. ASSUME NEW r \in Runners, HandlingStep(r) PROVE InboundTypeOK'
  BY <1>4, HandlingType
<1>5. CASE UNCHANGED inboundVars
  BY <1>5 DEF inboundVars, sessionVars, InboundTypeOK
<1> QED BY <1>1, <1>2, <1>3, <1>4, <1>5 DEF InboundNext, HandlingStep

-----------------------------------------------------------------------------
(* Steps that start a handling                                             *)

(* A runner starts on e: the read loop when the queue is full, or a worker.*)
Starts(r, e) ==
  /\ job[r] = NoJob
  /\ job' = [job EXCEPT ![r] = [event |-> e, pc |-> "handle"]]

LEMMA SessionJobs ==
  ASSUME InboundTypeOK, SessionNext
  PROVE  \/ UNCHANGED job
         \/ \E r \in Runners, e \in Events :
              /\ Starts(r, e)
              /\ \/ \E i \in DOMAIN queue : queue[i] = e
                 \/ \E i \in DOMAIN wire : wire[i].event = e
<1>1. CASE ReadFrame
  <2>1. wire \in Seq(WireFrame) /\ wire # << >>
    BY <1>1 DEF ReadFrame, InboundTypeOK
  <2>2. Head(wire) = wire[1] /\ 1 \in DOMAIN wire /\ wire[1].event \in Events
    <3>1. wire[1] \in WireFrame /\ Head(wire) = wire[1] /\ 1 \in DOMAIN wire
      BY <2>1
    <3> QED BY <3>1 DEF WireFrame
  <2>3. job[Reader] = NoJob /\ Reader \in Runners
    BY <1>1 DEF ReadFrame, Runners
  <2>4. UNCHANGED job \/ Submit(Head(wire).event)
    BY Zenon, <1>1 DEF ReadFrame
  <2>5. UNCHANGED job \/ Starts(Reader, wire[1].event)
    BY <2>2, <2>3, <2>4 DEF Submit, Starts
  <2> QED BY <2>2, <2>3, <2>5
<1>2. ASSUME NEW w \in Workers, WorkerTakes(w)
      PROVE  \E r \in Runners, e \in Events :
               Starts(r, e) /\ \E i \in DOMAIN queue : queue[i] = e
  <2>1. queue \in Seq(Events) /\ queue # << >>
    BY <1>2 DEF WorkerTakes, InboundTypeOK
  <2>2. Head(queue) = queue[1] /\ 1 \in DOMAIN queue /\ queue[1] \in Events
    BY <2>1
  <2>3. Starts(w, queue[1]) /\ w \in Runners
    BY <1>2, <2>2 DEF WorkerTakes, Starts, Runners
  <2> QED BY <2>2, <2>3
<1> QED
  BY <1>1, <1>2 DEF SessionNext, DialOk, DialFails, SleepEnds, Stop, Pong, SessionBreaks,
     SessionEnds, Deliver, Sweep

(* The runner that starts has e at its first step, the others go on.       *)
LEMMA StartsSets ==
  ASSUME InboundTypeOK, NEW r \in Runners, NEW e \in Events, Starts(r, e)
  PROVE  /\ job[r].event = NoEvent /\ job[r].pc = "none"
         /\ job'[r].event = e /\ job'[r].pc = "handle"
         /\ \A s \in Runners \ {r} : job'[s] = job[s]
BY DEF Starts, InboundTypeOK, NoJob

LEMMA JobHasEventStep ==
  ASSUME InboundTypeOK, JobHasEvent, [InboundNext]_inboundVars
  PROVE  JobHasEvent'
<1>1. CASE UNCHANGED job
  BY <1>1 DEF JobHasEvent
<1>2. ASSUME NEW r \in Runners, NEW e \in Events, Starts(r, e) PROVE JobHasEvent'
  BY <1>2, StartsSets, SessionAssumption DEF JobHasEvent
<1>3. ASSUME NEW r \in Runners, HandlingStep(r) PROVE JobHasEvent'
  <2>1. job[r].pc # "none"
    BY <1>3, HandlingMoves
  <2>2. CASE Finish(r)
    BY <2>2, FinishFrees DEF JobHasEvent, NoJob
  <2>3. ASSUME NEW pc \in {"fetch", "card", "send", "notice"}, Goto(r, pc)
        PROVE  JobHasEvent'
    <3>1. /\ \A s \in Runners : job'[s].event = job[s].event
          /\ \A s \in Runners : job'[s].pc = IF s = r THEN pc ELSE job[s].pc
      BY <2>1, <2>3, GotoKeeps
    <3> QED BY <2>1, <3>1 DEF JobHasEvent
  <2> QED BY <1>3, <2>2, <2>3, HandlingMoves
<1> QED
  BY <1>1, <1>2, <1>3, SessionJobs
     DEF InboundNext, SessionStep, PruneSeen, Tick, HandlingStep, inboundVars, sessionVars

-----------------------------------------------------------------------------
(* No event is dropped                                                     *)

(* A start adds its runner to those that handle e, ...                     *)
LEMMA StartsCounts ==
  ASSUME InboundTypeOK, NEW r \in Runners, NEW e \in Events, Starts(r, e),
         NEW f \in Events, IsFiniteSet(Handling(f))
  PROVE  /\ IsFiniteSet(Handling(f)')
         /\ Cardinality(Handling(f)') = Cardinality(Handling(f)) + (IF f = e THEN 1 ELSE 0)
<1>1. r \notin Handling(f)
  BY StartsSets, SessionAssumption DEF Handling
<1>2. Handling(f)' = IF f = e THEN Handling(f) \cup {r} ELSE Handling(f)
  BY StartsSets, SessionAssumption DEF Handling
<1>3. Cardinality(Handling(f)) \in Nat
  BY FS_CardinalityType
<1>4. IsFiniteSet(Handling(f) \cup {r})
      /\ Cardinality(Handling(f) \cup {r}) = Cardinality(Handling(f)) + 1
  BY <1>1, FS_AddElement
<1> QED BY <1>2, <1>3, <1>4

(* ... and an end takes it away again.                                     *)
LEMMA FinishCounts ==
  ASSUME InboundTypeOK, JobHasEvent, NEW r \in Runners, job[r].pc # "none", Finish(r),
         NEW f \in Events, IsFiniteSet(Handling(f))
  PROVE  /\ IsFiniteSet(Handling(f)')
         /\ Cardinality(Handling(f)')
              = Cardinality(Handling(f)) - (IF f = job[r].event THEN 1 ELSE 0)
<1>1. r \in Handling(f) <=> f = job[r].event
  BY DEF Handling
<1>2. Handling(f)' = Handling(f) \ {r}
  BY FinishFrees, SessionAssumption DEF Handling, NoJob
<1>3. Cardinality(Handling(f)) \in Nat
  BY FS_CardinalityType
<1>4. /\ IsFiniteSet(Handling(f) \ {r})
      /\ Cardinality(Handling(f) \ {r})
           = IF r \in Handling(f) THEN Cardinality(Handling(f)) - 1
             ELSE Cardinality(Handling(f))
  BY FS_RemoveElement
<1> QED BY <1>1, <1>2, <1>3, <1>4

LEMMA OwedStep ==
  ASSUME InboundTypeOK, JobHasEvent, OwedIsInFlight, [InboundNext]_inboundVars
  PROVE  OwedIsInFlight'
<1> SUFFICES ASSUME NEW f \in Events
             PROVE  /\ IsFiniteSet(Handling(f)')
                    /\ owed'[f] = Cardinality(Waiting(f)') + Cardinality(Handling(f)')
  BY DEF OwedIsInFlight
<1>1. /\ IsFiniteSet(Handling(f)) /\ Cardinality(Handling(f)) \in Nat
      /\ owed[f] = Cardinality(Waiting(f)) + Cardinality(Handling(f))
  BY FS_CardinalityType DEF OwedIsInFlight
<1>2. Cardinality(Waiting(f)) \in Nat
  <2>1. queue \in Seq(Events)
    BY DEF InboundTypeOK
  <2> QED BY <2>1, PlacesFinite DEF Waiting
<1>3. CASE UNCHANGED << queue, job, owed >>
  <2>1. Waiting(f)' = Waiting(f) /\ Handling(f)' = Handling(f)
    BY <1>3 DEF Waiting, Handling
  <2> QED BY <1>1, <1>3, <2>1
<1>4. CASE ReadFrame
  <2> DEFINE e == Head(wire).event
  <2>1. e \in Events
    <3>1. wire \in Seq(WireFrame) /\ wire # << >>
      BY <1>4 DEF ReadFrame, InboundTypeOK
    <3>2. Head(wire) \in WireFrame
      BY <3>1, HeadTailProperties
    <3> QED BY <3>2 DEF WireFrame
  <2>2. \/ UNCHANGED << queue, job, owed >>
        \/ owed' = [owed EXCEPT ![e] = @ + 1] /\ Submit(e)
    BY Zenon, <1>4 DEF ReadFrame
  <2>3. job[Reader] = NoJob /\ Reader \in Runners
    BY <1>4 DEF ReadFrame, Runners
  <2> HIDE DEF e
  <2>4. ASSUME owed' = [owed EXCEPT ![e] = @ + 1]
        PROVE  owed'[f] = owed[f] + (IF e = f THEN 1 ELSE 0)
    BY <1>1, <2>1, <2>4 DEF InboundTypeOK
  <2>5. ASSUME queue' = Append(queue, e), job' = job
        PROVE  /\ Handling(f)' = Handling(f)
               /\ Cardinality(Waiting(f)')
                    = Cardinality(Waiting(f)) + (IF e = f THEN 1 ELSE 0)
    <3>1. queue \in Seq(Events)
      BY DEF InboundTypeOK
    <3>2. Cardinality(Places(Append(queue, e), f))
            = Cardinality(Places(queue, f)) + (IF e = f THEN 1 ELSE 0)
      BY <2>1, <3>1, CountAppend
    <3> QED BY <2>5, <3>2 DEF Waiting, Handling
  <2>6. ASSUME Starts(Reader, e), queue' = queue
        PROVE  /\ Waiting(f)' = Waiting(f) /\ IsFiniteSet(Handling(f)')
               /\ Cardinality(Handling(f)')
                    = Cardinality(Handling(f)) + (IF e = f THEN 1 ELSE 0)
    BY <1>1, <2>1, <2>3, <2>6, StartsCounts DEF Waiting
  <2>7. CASE owed' = [owed EXCEPT ![e] = @ + 1] /\ Submit(e)
    <3>1. CASE queue' = Append(queue, e) /\ job' = job
      BY <1>1, <1>2, <2>4, <2>5, <2>7, <3>1
    <3>2. CASE Starts(Reader, e) /\ queue' = queue
      BY <1>1, <1>2, <2>4, <2>6, <2>7, <3>2
    <3> QED BY <2>3, <2>7, <3>1, <3>2 DEF Submit, Starts
  <2> QED BY <1>3, <2>2, <2>7
<1>5. ASSUME NEW w \in Workers, WorkerTakes(w)
      PROVE  /\ IsFiniteSet(Handling(f)')
             /\ owed'[f] = Cardinality(Waiting(f)') + Cardinality(Handling(f)')
  <2>1. queue \in Seq(Events) /\ queue # << >> /\ queue' = Tail(queue) /\ owed' = owed
    BY <1>5 DEF WorkerTakes, InboundTypeOK
  <2>2. Starts(w, Head(queue)) /\ w \in Runners
    BY <1>5 DEF WorkerTakes, Starts, Runners
  <2>3. Head(queue) \in Events
    BY <2>1, HeadTailProperties
  <2>4. /\ IsFiniteSet(Handling(f)')
        /\ Cardinality(Handling(f)')
             = Cardinality(Handling(f)) + (IF f = Head(queue) THEN 1 ELSE 0)
    BY <1>1, <2>2, <2>3, StartsCounts
  <2>5. Cardinality(Waiting(f)) = Cardinality(Waiting(f)') + (IF Head(queue) = f THEN 1 ELSE 0)
    BY <2>1, CountTail DEF Waiting
  <2>6. Cardinality(Waiting(f)') \in Nat
    <3>1. Tail(queue) \in Seq(Events)
      BY <2>1, HeadTailProperties
    <3> QED BY <2>1, <3>1, PlacesFinite DEF Waiting
  <2> QED BY <1>1, <1>2, <2>1, <2>4, <2>5, <2>6
<1>6. ASSUME NEW r \in Runners, HandlingStep(r)
      PROVE  /\ IsFiniteSet(Handling(f)')
             /\ owed'[f] = Cardinality(Waiting(f)') + Cardinality(Handling(f)')
  <2>1. job[r].pc # "none" /\ queue' = queue
    BY <1>6, HandlingMoves DEF SessionKept
  <2>2. Waiting(f)' = Waiting(f)
    BY <2>1 DEF Waiting
  <2>3. CASE Finish(r)
    <3>1. /\ IsFiniteSet(Handling(f)')
          /\ Cardinality(Handling(f)')
               = Cardinality(Handling(f)) - (IF f = job[r].event THEN 1 ELSE 0)
      BY <1>1, <2>1, <2>3, FinishCounts
    <3>2. owed'[f] = owed[f] - (IF f = job[r].event THEN 1 ELSE 0)
      BY <1>1, <2>3, FinishFrees DEF InboundTypeOK
    <3> QED BY <1>1, <1>2, <2>2, <3>1, <3>2
  <2>4. ASSUME NEW pc \in {"fetch", "card", "send", "notice"}, Goto(r, pc)
        PROVE  Handling(f)' = Handling(f) /\ owed' = owed
    BY <2>1, <2>4, GotoKeeps DEF Handling
  <2> QED BY <1>1, <1>6, <2>2, <2>3, <2>4, HandlingMoves
<1> QED
  BY <1>3, <1>4, <1>5, <1>6
     DEF InboundNext, SessionStep, SessionNext, DialOk, DialFails, SleepEnds, Stop, Pong,
     SessionBreaks, SessionEnds, Deliver, Sweep, PruneSeen, Tick, HandlingStep, inboundVars,
     sessionVars

-----------------------------------------------------------------------------
(* Only whole events are handed on                                         *)

LEMMA ChunksCounted ==
  ASSUME NEW e, NEW have \in SUBSET Chunks(e)
  PROVE  /\ IsFiniteSet(have)
         /\ Cardinality(have) = Cardinality(Chunks(e)) => have = Chunks(e)
<1>1. Chunks(e) \subseteq 0 .. 1
  BY DEF Chunks
<1>2. IsFiniteSet(Chunks(e))
  BY <1>1, FS_Interval, FS_Subset
<1> QED BY <1>2, FS_Subset

(* Storing a chunk keeps the count of the chunks held.                     *)
LEMMA StoreCounts ==
  ASSUME NEW e, NEW p, p.have \subseteq Chunks(e), p.got = Cardinality(p.have),
         NEW seq \in Chunks(e)
  PROVE  /\ Store(p, seq).have \subseteq Chunks(e)
         /\ Store(p, seq).got = Cardinality(Store(p, seq).have)
<1>1. IsFiniteSet(p.have)
  BY ChunksCounted
<1>2. CASE seq \in p.have
  BY <1>2 DEF Store
<1>3. CASE seq \notin p.have
  <2>1. Cardinality(p.have \cup {seq}) = Cardinality(p.have) + 1
    BY <1>1, <1>3, FS_AddElement
  <2>2. Store(p, seq) = [have |-> p.have \cup {seq}, got |-> p.got + 1]
    BY <1>3 DEF Store
  <2> QED BY <2>1, <2>2
<1> QED BY <1>2, <1>3

LEMMA WholeStep ==
  ASSUME InboundTypeOK, WireOfChunks, GotIsCounted, ~torn, [InboundNext]_inboundVars
  PROVE  WireOfChunks' /\ GotIsCounted' /\ ~torn'
<1>1. CASE UNCHANGED << wire, pending, torn >>
  BY <1>1 DEF WireOfChunks, GotIsCounted
<1>2. ASSUME NEW e \in Events, NEW p, pending' = [pending EXCEPT ![e] = p],
             p.have \subseteq Chunks(e), p.got = Cardinality(p.have)
      PROVE  GotIsCounted'
  BY <1>2 DEF GotIsCounted, InboundTypeOK
<1>3. [have |-> {}, got |-> 0].got = Cardinality([have |-> {}, got |-> 0].have)
  BY FS_EmptySet
<1>4. CASE ReadFrame
  <2> DEFINE e == Head(wire).event
             seq == Head(wire).seq
             p == Store(pending[e], seq)
  <2>1. /\ wire \in Seq(WireFrame) /\ wire # << >> /\ wire' = Tail(wire)
        /\ Head(wire) = wire[1] /\ 1 \in DOMAIN wire
    BY <1>4 DEF ReadFrame, InboundTypeOK
  <2>2. wire[1] \in WireFrame /\ seq \in Chunks(e)
    BY <2>1 DEF WireOfChunks
  <2>3. WireOfChunks'
    <3>1. \A i \in DOMAIN wire' : i + 1 \in DOMAIN wire /\ wire'[i] = wire[i + 1]
      BY <2>1
    <3> QED BY <3>1 DEF WireOfChunks
  <2>4. e \in Events
    BY <2>1, <2>2 DEF WireFrame
  <2>5. p.have \subseteq Chunks(e) /\ p.got = Cardinality(p.have)
    BY <2>2, <2>4, StoreCounts DEF GotIsCounted
  <2>6. \/ pending' = [pending EXCEPT ![e] = p] /\ torn' = torn
        \/ /\ pending' = [pending EXCEPT ![e] = [have |-> {}, got |-> 0]]
           /\ p.got = Cardinality(Chunks(e))
           /\ torn' = (torn \/ p.have # Chunks(e))
    BY Zenon, <1>4 DEF ReadFrame
  <2> HIDE DEF e, seq, p
  <2>7. CASE pending' = [pending EXCEPT ![e] = p] /\ torn' = torn
    BY <1>2, <2>3, <2>4, <2>5, <2>7
  <2>8. CASE /\ pending' = [pending EXCEPT ![e] = [have |-> {}, got |-> 0]]
             /\ p.got = Cardinality(Chunks(e))
             /\ torn' = (torn \/ p.have # Chunks(e))
    <3>1. p.have = Chunks(e)
      BY <2>5, <2>8, ChunksCounted
    <3>2. ~torn'
      BY Zenon, <2>8, <3>1
    <3>3. GotIsCounted'
      BY <1>2, <1>3, <2>4, <2>8
    <3> QED BY <2>3, <3>2, <3>3
  <2> QED BY <2>6, <2>7, <2>8
<1>5. CASE SessionBreaks
  BY <1>5 DEF SessionBreaks, WireOfChunks, GotIsCounted
<1>6. CASE SessionEnds
  BY <1>3, <1>6 DEF SessionEnds, NothingPending, WireOfChunks, GotIsCounted
<1>7. ASSUME NEW e \in Events, Deliver(e) PROVE WireOfChunks' /\ GotIsCounted' /\ ~torn'
  <2>1. \A i \in DOMAIN wire' : wire'[i] \in {wire[j] : j \in DOMAIN wire}
                                 \/ \E n \in Chunks(e) : wire'[i] = Frame(e, n)
    BY <1>7, DeliverType
  <2>2. WireOfChunks'
    BY <2>1 DEF WireOfChunks, Frame
  <2> QED BY <1>7, <2>2 DEF Deliver, GotIsCounted
<1>8. ASSUME NEW e \in Events, Sweep(e) PROVE WireOfChunks' /\ GotIsCounted' /\ ~torn'
  <2>1. GotIsCounted'
    BY <1>2, <1>3, <1>8 DEF Sweep
  <2> QED BY <1>8, <2>1 DEF Sweep, WireOfChunks
<1>9. ASSUME NEW r \in Runners, HandlingStep(r) PROVE UNCHANGED << wire, pending, torn >>
  BY <1>9, HandlingMoves DEF SessionKept
<1> QED
  BY <1>1, <1>4, <1>5, <1>6, <1>7, <1>8, <1>9
     DEF InboundNext, SessionStep, SessionNext, DialOk, DialFails, SleepEnds, Stop, Pong,
     WorkerTakes, PruneSeen, Tick, HandlingStep, inboundVars, sessionVars

-----------------------------------------------------------------------------
(* One message, one prompt                                                 *)

(* Sends are only added.                                                   *)
LEMMA SentStays ==
  ASSUME InboundTypeOK, [InboundNext]_inboundVars
  PROVE  \A e \in Events : Sent(e) => sends'[e] > 0
<1>1. CASE UNCHANGED sends
  BY <1>1 DEF Sent
<1>2. ASSUME NEW e \in Events, Deliver(e)
      PROVE  \A f \in Events : Sent(f) => sends'[f] > 0
  BY <1>2 DEF Deliver, Sent, InboundTypeOK
<1>3. ASSUME NEW r \in Runners, HandlingStep(r) PROVE UNCHANGED sends
  BY <1>3, HandlingMoves DEF SessionKept
<1> QED
  BY <1>1, <1>2, <1>3
     DEF InboundNext, SessionStep, SessionNext, DialOk, DialFails, SleepEnds, Stop, Pong,
     ReadFrame, SessionBreaks, SessionEnds, Sweep, WorkerTakes, PruneSeen, Tick,
     HandlingStep, inboundVars, sessionVars

LEMMA WireSent ==
  ASSUME InboundTypeOK, EverywhereSent, [InboundNext]_inboundVars
  PROVE  \A i \in DOMAIN wire' : sends'[wire'[i].event] > 0
<1>0. wire \in Seq(WireFrame) /\ \A i \in DOMAIN wire : wire[i] \in WireFrame
  BY DEF InboundTypeOK
<1>1. \A i \in DOMAIN wire : wire[i].event \in Events /\ sends'[wire[i].event] > 0
  BY <1>0, SentStays DEF EverywhereSent, WireFrame
<1>2. CASE UNCHANGED wire
  BY <1>1, <1>2
<1>3. CASE ReadFrame
  <2>1. wire # << >> /\ wire' = Tail(wire)
    BY <1>3 DEF ReadFrame
  <2>2. \A i \in DOMAIN wire' : i + 1 \in DOMAIN wire /\ wire'[i] = wire[i + 1]
    BY <1>0, <2>1
  <2> QED BY <1>1, <2>2
<1>4. ASSUME NEW e \in Events, Deliver(e) PROVE \A i \in DOMAIN wire' : sends'[wire'[i].event] > 0
  <2>1. sends'[e] > 0
    BY <1>4 DEF Deliver, InboundTypeOK
  <2>2. \A i \in DOMAIN wire' : wire'[i] \in {wire[j] : j \in DOMAIN wire}
                                 \/ wire'[i].event = e
    BY <1>4, DeliverType DEF Frame
  <2> QED BY <1>1, <2>1, <2>2
<1>5. CASE SessionBreaks
  BY <1>5 DEF SessionBreaks
<1>6. ASSUME NEW r \in Runners, HandlingStep(r) PROVE UNCHANGED wire
  BY <1>6, HandlingMoves DEF SessionKept
<1> QED
  BY <1>2, <1>3, <1>4, <1>5, <1>6
     DEF InboundNext, SessionStep, SessionNext, DialOk, DialFails, SleepEnds, Stop, Pong,
     SessionEnds, Sweep, WorkerTakes, PruneSeen, Tick, HandlingStep, inboundVars,
     sessionVars

LEMMA QueueSent ==
  ASSUME InboundTypeOK, EverywhereSent, [InboundNext]_inboundVars
  PROVE  \A i \in DOMAIN queue' : sends'[queue'[i]] > 0
<1>0. queue \in Seq(Events) /\ wire \in Seq(WireFrame)
  BY DEF InboundTypeOK
<1>1. \A i \in DOMAIN queue : queue[i] \in Events /\ sends'[queue[i]] > 0
  BY <1>0, SentStays DEF EverywhereSent
<1>2. CASE UNCHANGED queue
  BY <1>1, <1>2
<1>3. CASE ReadFrame
  <2>1. wire # << >>
    BY <1>3 DEF ReadFrame
  <2>2. 1 \in DOMAIN wire /\ Head(wire) = wire[1] /\ wire[1] \in WireFrame
    BY <1>0, <2>1
  <2>3. wire[1].event \in Events /\ sends'[wire[1].event] > 0
    BY <2>2, SentStays DEF EverywhereSent, WireFrame
  <2>4. UNCHANGED queue \/ Submit(Head(wire).event)
    BY Zenon, <1>3 DEF ReadFrame
  <2>5. UNCHANGED queue \/ queue' = Append(queue, wire[1].event)
    BY <2>2, <2>4 DEF Submit
  <2>6. ASSUME NEW e \in Events, sends'[e] > 0, queue' = Append(queue, e)
        PROVE  \A i \in DOMAIN queue' : sends'[queue'[i]] > 0
    <3>1. /\ DOMAIN queue' = DOMAIN queue \cup {Len(queue) + 1}
          /\ queue'[Len(queue) + 1] = e
          /\ \A i \in DOMAIN queue : queue'[i] = queue[i]
      BY <1>0, <2>6, AppendProperties
    <3> QED BY <1>1, <2>6, <3>1
  <2> QED BY <1>2, <2>3, <2>5, <2>6
<1>4. ASSUME NEW w \in Workers, WorkerTakes(w) PROVE \A i \in DOMAIN queue' : sends'[queue'[i]] > 0
  <2>1. queue # << >> /\ queue' = Tail(queue)
    BY <1>4 DEF WorkerTakes
  <2>2. \A i \in DOMAIN queue' : i + 1 \in DOMAIN queue /\ queue'[i] = queue[i + 1]
    BY <1>0, <2>1
  <2> QED BY <1>1, <2>2
<1>5. ASSUME NEW r \in Runners, HandlingStep(r) PROVE UNCHANGED queue
  BY <1>5, HandlingMoves DEF SessionKept
<1> QED
  BY <1>2, <1>3, <1>4, <1>5
     DEF InboundNext, SessionStep, SessionNext, DialOk, DialFails, SleepEnds, Stop, Pong,
     SessionBreaks, SessionEnds, Deliver, Sweep, PruneSeen, Tick, HandlingStep,
     inboundVars, sessionVars

LEMMA SentStep ==
  ASSUME InboundTypeOK, JobHasEvent, EverywhereSent, [InboundNext]_inboundVars
  PROVE  EverywhereSent'
<1>1. \A r \in Runners : job'[r].pc # "none" => sends'[job'[r].event] > 0
  <2>1. \A r \in Runners : job[r].pc # "none" => job[r].event \in Events /\ sends'[job[r].event] > 0
    BY SentStays DEF EverywhereSent, JobHasEvent, InboundTypeOK, Job
  <2>2. CASE UNCHANGED job
    BY <2>1, <2>2
  <2>3. ASSUME SessionNext PROVE \A r \in Runners : job'[r].pc # "none" => sends'[job'[r].event] > 0
    <3>1. CASE UNCHANGED job
      BY <2>1, <3>1
    <3>2. CASE \E r \in Runners, e \in Events :
                  /\ Starts(r, e)
                  /\ \/ \E i \in DOMAIN queue : queue[i] = e
                     \/ \E i \in DOMAIN wire : wire[i].event = e
      <4>1. PICK r \in Runners, e \in Events :
                  /\ Starts(r, e)
                  /\ \/ \E i \in DOMAIN queue : queue[i] = e
                     \/ \E i \in DOMAIN wire : wire[i].event = e
        BY <3>2
      <4>2. sends'[e] > 0
        BY <4>1, SentStays DEF EverywhereSent
      <4> QED BY <2>1, <4>1, <4>2, StartsSets
    <3> QED BY <2>3, <3>1, <3>2, SessionJobs
  <2>4. ASSUME NEW r \in Runners, HandlingStep(r)
        PROVE  \A s \in Runners : job'[s].pc # "none" => sends'[job'[s].event] > 0
    <3>1. job[r].pc # "none"
      BY <2>4, HandlingMoves
    <3>2. CASE Finish(r)
      BY <2>1, <3>2, FinishFrees DEF NoJob
    <3>3. ASSUME NEW pc \in {"fetch", "card", "send", "notice"}, Goto(r, pc)
          PROVE  \A s \in Runners : job'[s].pc # "none" => sends'[job'[s].event] > 0
      <4>1. /\ \A s \in Runners : job'[s].event = job[s].event
            /\ \A s \in Runners : job'[s].pc = IF s = r THEN pc ELSE job[s].pc
        BY <3>1, <3>3, GotoKeeps
      <4> QED BY <2>1, <3>1, <4>1
    <3> QED BY <2>4, <3>2, <3>3, HandlingMoves
  <2> QED
    BY <2>2, <2>3, <2>4
       DEF InboundNext, SessionStep, PruneSeen, Tick, HandlingStep, inboundVars, sessionVars
<1>2. \A e \in Events : prompts'[e] > 0 => sends'[e] > 0
  <2>1. CASE UNCHANGED prompts
    BY <2>1, SentStays DEF EverywhereSent
  <2>2. ASSUME NEW r \in Runners, HandlingStep(r)
        PROVE  \A e \in Events : prompts'[e] > 0 => sends'[e] > 0
    <3>1. prompts' = prompts \/ prompts' = [prompts EXCEPT ![job[r].event] = @ + 1]
      BY Zenon, <2>2 DEF HandlingStep, Handle, Fetch, SendPlaceholder, Forward, Notice
    <3>2. job[r].event \in Events /\ Sent(job[r].event)
      BY <2>2, HandlingMoves DEF EverywhereSent, JobHasEvent, InboundTypeOK, Job
    <3>3. \A e \in Events : e = job[r].event \/ prompts'[e] = prompts[e]
      BY <3>1 DEF InboundTypeOK
    <3> QED BY <3>2, <3>3, SentStays DEF EverywhereSent
  <2> QED
    BY <2>1, <2>2
       DEF InboundNext, SessionStep, PruneSeen, Tick, HandlingStep, inboundVars
<1> QED BY <1>1, <1>2, WireSent, QueueSent DEF EverywhereSent, Sent

LEMMA BornStep ==
  ASSUME InboundTypeOK, BornBefore, [InboundNext]_inboundVars
  PROVE  BornBefore'
<1>1. CASE UNCHANGED << now, born >>
  BY <1>1 DEF BornBefore
<1>2. CASE Tick
  BY <1>2 DEF Tick, BornBefore, InboundTypeOK
<1>3. CASE SessionStep
  BY <1>3 DEF SessionStep, BornBefore, InboundTypeOK
<1> QED
  BY <1>1, <1>2, <1>3, HandlingMoves
     DEF InboundNext, PruneSeen, HandlingStep, inboundVars

(* A message that is marked is fresh in the dedup set, or too old.         *)
LEMMA MarkedIsCaught ==
  ASSUME InboundTypeOK, NEW e \in Events, Marked(e), ~IsStale(e)
  PROVE  Fresh(e)
BY WindowAssumption DEF Marked, IsStale, Fresh, InboundTypeOK

(* What is true of one event stays so while no handling begins and the mark stays.         *)
LEMMA HandledOnceKept ==
  ASSUME NEW e \in Events, HandledOnce(e), prompts'[e] = prompts[e],
         \A r \in Runners : Prompting(r, e)' => Prompting(r, e),
         Marked(e) => Marked(e)'
  PROVE  HandledOnce(e)'
BY DEF HandledOnce

LEMMA OneHandlingOfOthers ==
  ASSUME InboundTypeOK, JobHasEvent, NEW r \in Runners, HandlingStep(r),
         NEW e \in Events \ evicted', e # job[r].event, HandledOnce(e)
  PROVE  HandledOnce(e)'
<1>1. job[r].pc # "none" /\ UNCHANGED << now, born >>
  BY HandlingMoves
<1>2. job[r].event \in Events
  BY <1>1 DEF InboundTypeOK, JobHasEvent, Job
<1>3. prompts'[e] = prompts[e]
  <2>1. prompts' = prompts \/ prompts' = [prompts EXCEPT ![job[r].event] = @ + 1]
    BY Zenon DEF HandlingStep, Handle, Fetch, SendPlaceholder, Forward, Notice
  <2> QED BY <2>1 DEF InboundTypeOK
<1>4. seen'[e] = seen[e]
  <2>1. CASE Handle(r)
    <3>1. Add(job[r].event) \/ UNCHANGED seen
      BY Zenon, <2>1 DEF Handle
    <3>2. CASE Add(job[r].event)
      <4>1. \/ seen' = [seen EXCEPT ![job[r].event] = now]
            \/ \E old \in Present : /\ seen' = [seen EXCEPT ![old] = -1, ![job[r].event] = now]
                                    /\ evicted' = evicted \cup {old}
        BY <3>2 DEF Add
      <4> QED BY <4>1 DEF Present, InboundTypeOK
    <3> QED BY <3>1, <3>2
  <2>2. CASE ~Handle(r)
    <3>1. seen' = seen \/ seen' = [seen EXCEPT ![job[r].event] = -1]
      BY Zenon, <2>2 DEF HandlingStep, Fetch, SendPlaceholder, Forward, Notice
    <3> QED BY <3>1 DEF InboundTypeOK
  <2> QED BY <2>1, <2>2
<1>5. \A s \in Runners : Prompting(s, e)' => Prompting(s, e)
  <2>1. CASE Finish(r)
    BY <2>1, FinishFrees DEF Prompting, NoJob
  <2>2. ASSUME NEW pc \in {"fetch", "card", "send", "notice"}, Goto(r, pc)
        PROVE  \A s \in Runners : Prompting(s, e)' => Prompting(s, e)
    <3>1. /\ \A s \in Runners : job'[s].event = job[s].event
          /\ \A s \in Runners : job'[s].pc = IF s = r THEN pc ELSE job[s].pc
      BY <1>1, <2>2, GotoKeeps
    <3> QED BY <3>1 DEF Prompting
  <2> QED BY <2>1, <2>2, HandlingMoves
<1>6. Marked(e) => Marked(e)'
  BY <1>1, <1>4 DEF Marked, IsStale
<1> QED BY <1>3, <1>5, <1>6, HandledOnceKept

LEMMA OneHandlingOfItsOwn ==
  ASSUME InboundTypeOK, JobHasEvent, BornBefore, NEW r \in Runners, HandlingStep(r),
         NEW e \in Events, e = job[r].event, HandledOnce(e)
  PROVE  HandledOnce(e)'
<1>1. job[r].pc # "none" /\ UNCHANGED << now, born >>
  BY HandlingMoves
<1>2. ASSUME Finish(r)
      PROVE  /\ ~Prompting(r, e)'
             /\ \A s \in Runners \ {r} : Prompting(s, e)' <=> Prompting(s, e)
  BY <1>2, FinishFrees DEF Prompting, NoJob
<1>3. ASSUME NEW pc \in {"fetch", "card", "send", "notice"}, Goto(r, pc)
      PROVE  /\ Prompting(r, e)' <=> pc # "notice"
             /\ \A s \in Runners \ {r} : Prompting(s, e)' <=> Prompting(s, e)
  <2>1. /\ \A s \in Runners : job'[s].event = job[s].event
        /\ \A s \in Runners : job'[s].pc = IF s = r THEN pc ELSE job[s].pc
    BY <1>1, <1>3, GotoKeeps
  <2> QED BY <2>1 DEF Prompting
<1>4. \A s \in Runners \ {r} : Prompting(s, e)' <=> Prompting(s, e)
  BY <1>2, <1>3, HandlingMoves
<1>5. seen' = seen => (Marked(e) => Marked(e)')
  BY <1>1 DEF Marked, IsStale
<1>6. CASE Handle(r)
  <2>1. prompts' = prompts /\ ~Prompting(r, e)
    BY <1>6 DEF Handle, Prompting
  <2>2. CASE (IsStale(e) \/ Fresh(e)) /\ Finish(r) /\ UNCHANGED << seen, evicted, failed >>
    BY <1>2, <1>5, <2>1, <2>2, HandledOnceKept
  <2>3. CASE ~IsStale(e) /\ ~Fresh(e) /\ Add(e)
    <3>1. ~Marked(e)
      BY <2>3, MarkedIsCaught
    <3>2. prompts[e] # 1 /\ \A s \in Runners : ~Prompting(s, e)
      BY <3>1 DEF HandledOnce
    <3>3. seen'[e] = now
      BY <2>3 DEF Add, Present, InboundTypeOK
    <3>4. Marked(e)'
      BY <1>1, <3>3 DEF Marked, BornBefore, InboundTypeOK
    <3>5. \A s \in Runners : Prompting(s, e)' => s = r
      BY <1>4, <3>2
    <3> QED BY <2>1, <3>2, <3>4, <3>5 DEF HandledOnce
  <2> QED BY <1>6, <2>2, <2>3 DEF Handle
<1>7. CASE Fetch(r) \/ Notice(r)
  <2>1. prompts' = prompts /\ seen' = seen
    BY <1>7 DEF Fetch, Notice
  <2>2. Prompting(r, e)' => Prompting(r, e)
    <3>1. CASE Fetch(r)
      BY <3>1 DEF Fetch, Prompting
    <3>2. CASE Notice(r)
      BY <1>2, <3>2 DEF Notice
    <3> QED BY <1>7, <3>1, <3>2
  <2> QED BY <1>4, <1>5, <2>1, <2>2, HandledOnceKept
<1>8. CASE SendPlaceholder(r)
  <2>1. prompts' = prompts /\ Prompting(r, e)
    BY <1>8 DEF SendPlaceholder, Prompting
  <2>2. CASE seen' = seen
    BY <1>4, <1>5, <2>1, <2>2, HandledOnceKept
  <2>3. CASE seen' # seen
    <3>1. Finish(r)
      BY Zenon, <1>8, <2>3 DEF SendPlaceholder
    <3>2. prompts[e] # 1 /\ \A s \in Runners \ {r} : ~Prompting(s, e)
      BY <2>1 DEF HandledOnce
    <3>3. \A s \in Runners : ~Prompting(s, e)'
      BY <1>2, <3>1, <3>2
    <3> QED BY <2>1, <3>2, <3>3 DEF HandledOnce
  <2> QED BY <2>2, <2>3
<1>9. CASE Forward(r)
  <2>1. seen' = seen /\ Prompting(r, e)
    BY <1>9 DEF Forward, Prompting
  <2>2. CASE prompts' = prompts
    BY <1>4, <1>5, <2>1, <2>2, HandledOnceKept
  <2>3. CASE prompts' # prompts
    <3>1. prompts' = [prompts EXCEPT ![e] = @ + 1] /\ Finish(r)
      BY Zenon, <1>9, <2>3 DEF Forward
    <3>2. prompts[e] # 1 /\ prompts[e] <= 1 /\ \A s \in Runners \ {r} : ~Prompting(s, e)
      BY <2>1 DEF HandledOnce
    <3>3. prompts'[e] = 1
      BY <3>1, <3>2 DEF InboundTypeOK
    <3>4. \A s \in Runners : ~Prompting(s, e)'
      BY <1>2, <3>1, <3>2
    <3>5. Marked(e)'
      BY <1>5, <2>1 DEF HandledOnce
    <3> QED BY <3>3, <3>4, <3>5 DEF HandledOnce
  <2> QED BY <2>2, <2>3
<1> QED BY <1>6, <1>7, <1>8, <1>9 DEF HandlingStep

LEMMA OneHandlingStep ==
  ASSUME InboundTypeOK, JobHasEvent, EverywhereSent, BornBefore, OneHandling,
         [InboundNext]_inboundVars
  PROVE  OneHandling'
<1>1. evicted \subseteq evicted'
  <2>1. ASSUME NEW r \in Runners, HandlingStep(r) PROVE evicted \subseteq evicted'
    <3>1. evicted' = evicted \/ Add(job[r].event)
      BY Zenon, <2>1 DEF HandlingStep, Handle, Fetch, SendPlaceholder, Forward, Notice
    <3> QED BY <3>1 DEF Add
  <2> QED BY <2>1 DEF InboundNext, SessionStep, PruneSeen, Tick, HandlingStep, inboundVars
<1> SUFFICES ASSUME NEW e \in Events \ evicted' PROVE HandledOnce(e)'
  BY DEF OneHandling
<1>2. HandledOnce(e)
  BY <1>1 DEF OneHandling
<1>3. ASSUME UNCHANGED << job, prompts >>, Marked(e) => Marked(e)'
      PROVE  HandledOnce(e)'
  BY <1>2, <1>3, HandledOnceKept DEF Prompting
<1>4. CASE PruneSeen
  <2>1. seen'[e] = IF Fresh(e) THEN seen[e] ELSE -1
    BY <1>4 DEF PruneSeen
  <2>2. Marked(e) => Marked(e)'
    BY <1>4, <2>1, MarkedIsCaught DEF PruneSeen, Marked, IsStale
  <2> QED BY <1>3, <1>4, <2>2 DEF PruneSeen, sessionVars
<1>5. CASE Tick
  <2>1. Marked(e) => Marked(e)'
    BY <1>5, WindowAssumption DEF Tick, Marked, IsStale, InboundTypeOK
  <2> QED BY <1>3, <1>5, <2>1 DEF Tick, sessionVars
<1>6. CASE SessionStep
  <2>1. /\ prompts' = prompts /\ seen' = seen /\ now' = now
        /\ born'[e] = IF sends[e] = 0 /\ sends'[e] = 1 THEN now ELSE born[e]
    BY <1>6 DEF SessionStep
  <2>2. \A r \in Runners : Prompting(r, e)' => Prompting(r, e)
    <3>1. CASE UNCHANGED job
      BY <3>1 DEF Prompting
    <3>2. ASSUME NEW r \in Runners, NEW f \in Events, Starts(r, f)
          PROVE  \A s \in Runners : Prompting(s, e)' => Prompting(s, e)
      BY <3>2, StartsSets DEF Prompting
    <3> QED BY <1>6, <3>1, <3>2, SessionJobs DEF SessionStep
  <2>3. CASE sends[e] = 0
    <3>1. prompts[e] # 1 /\ \A r \in Runners : ~Prompting(r, e)
      BY <2>3 DEF EverywhereSent, Sent, Prompting
    <3> QED BY <1>2, <2>1, <2>2, <3>1 DEF HandledOnce
  <2>4. CASE sends[e] # 0
    <3>1. Marked(e) => Marked(e)'
      BY <2>1, <2>4 DEF Marked, IsStale
    <3> QED BY <1>2, <2>1, <2>2, <3>1, HandledOnceKept
  <2> QED BY <2>3, <2>4
<1>7. ASSUME NEW r \in Runners, HandlingStep(r) PROVE HandledOnce(e)'
  BY <1>2, <1>7, OneHandlingOfOthers, OneHandlingOfItsOwn
<1>8. CASE UNCHANGED inboundVars
  <2>1. Marked(e) => Marked(e)'
    BY <1>8 DEF inboundVars, Marked, IsStale
  <2> QED BY <1>3, <1>8, <2>1 DEF inboundVars, sessionVars
<1> QED BY <1>4, <1>5, <1>6, <1>7, <1>8 DEF InboundNext, HandlingStep

-----------------------------------------------------------------------------
(* A turn has a prompt                                                     *)

LEMMA TurnStep ==
  ASSUME InboundTypeOK, JobHasEvent, TurnHasPrompt, [InboundNext]_inboundVars
  PROVE  TurnHasPrompt'
<1>1. CASE UNCHANGED << job, turnOf, prompts >>
  BY <1>1 DEF TurnHasPrompt
<1>2. CASE SessionStep
  <2>1. UNCHANGED << turnOf, prompts >>
    BY <1>2 DEF SessionStep
  <2>2. \A r \in Runners : job[r].pc = "send" => job'[r] = job[r]
    BY <1>2, SessionJobs, StartsSets DEF SessionStep
  <2> QED BY <2>1, <2>2 DEF TurnHasPrompt
<1>3. ASSUME NEW r \in Runners, HandlingStep(r) PROVE TurnHasPrompt'
  <2> DEFINE e == job[r].event
  <2>1. job[r].pc # "none" /\ e \in Events
    BY <1>3, HandlingMoves DEF InboundTypeOK, JobHasEvent, Job
  <2>2. \A s \in Runners \ {r} : job'[s].event = job[s].event /\ job'[s].pc = job[s].pc
    BY <1>3, <2>1, HandlingMoves, FinishFrees, GotoKeeps
  <2>3. CASE Handle(r) \/ Fetch(r) \/ Notice(r)
    <3>1. UNCHANGED << turnOf, prompts >> /\ job[r].pc # "send"
      BY <2>3 DEF Handle, Fetch, Notice
    <3> QED BY <2>2, <3>1 DEF TurnHasPrompt
  <2>4. CASE SendPlaceholder(r)
    <3>1. prompts' = prompts /\ job[r].pc # "send"
      BY <2>4 DEF SendPlaceholder
    <3>2. turnOf' = turnOf \/ (turnOf' = turnOf \cup {e} /\ Goto(r, "send"))
      BY Zenon, <2>4 DEF SendPlaceholder
    <3>3. Goto(r, "send") => job'[r].event = e /\ job'[r].pc = "send"
      BY <2>1, GotoKeeps
    <3> HIDE DEF e
    <3> QED BY <2>2, <3>1, <3>2, <3>3 DEF TurnHasPrompt
  <2>5. CASE Forward(r)
    <3>1. \/ prompts' = [prompts EXCEPT ![e] = @ + 1] /\ turnOf' = turnOf
          \/ prompts' = prompts /\ turnOf' = turnOf \ {e}
      BY Zenon, <2>5 DEF Forward
    <3> HIDE DEF e
    <3>0. prompts \in [Events -> Nat] /\ e \in Events
      BY <2>1 DEF InboundTypeOK, e
    <3>2. \A f \in Events : prompts[f] > 0 => prompts'[f] > 0
      <4> SUFFICES ASSUME NEW f \in Events, prompts[f] > 0 PROVE prompts'[f] > 0
        OBVIOUS
      <4>1. CASE prompts' = prompts
        BY <4>1
      <4>2. CASE prompts' = [prompts EXCEPT ![e] = @ + 1]
        <5>1. CASE f = e
          BY <3>0, <4>2, <5>1
        <5>2. CASE f # e
          BY <3>0, <4>2, <5>2
        <5> QED BY <5>1, <5>2
      <4> QED BY Zenon, <3>1, <4>1, <4>2
    <3>3. e \in turnOf' => prompts'[e] > 0
      <4>1. CASE prompts' = [prompts EXCEPT ![e] = @ + 1]
        BY <3>0, <4>1
      <4>2. CASE turnOf' = turnOf \ {e}
        BY <4>2
      <4> QED BY Zenon, <3>1, <4>1, <4>2
    <3>4. turnOf' \subseteq turnOf /\ turnOf \subseteq Events
      BY <3>1 DEF InboundTypeOK
    <3> QED BY <2>2, <3>2, <3>3, <3>4 DEF TurnHasPrompt, e
  <2> QED BY <1>3, <2>3, <2>4, <2>5 DEF HandlingStep
<1> QED
  BY <1>1, <1>2, <1>3
     DEF InboundNext, PruneSeen, Tick, HandlingStep, inboundVars, sessionVars

-----------------------------------------------------------------------------
(* The theorems                                                            *)

LEMMA InboundInvInit == InboundInit => InboundInv
<1> SUFFICES ASSUME InboundInit PROVE InboundInv
  OBVIOUS
<1>1. InboundTypeOK /\ JobHasEvent
  BY InboundTypeInit
<1>2. WireOfChunks /\ GotIsCounted /\ ~torn
  <2>1. WireOfChunks
    BY DEF InboundInit, SessionInit, WireOfChunks
  <2>2. GotIsCounted
    BY FS_EmptySet DEF InboundInit, SessionInit, GotIsCounted, NothingPending
  <2>3. ~torn
    BY Zenon DEF InboundInit, SessionInit
  <2> QED BY <2>1, <2>2, <2>3
<1>3. OwedIsInFlight
  <2> SUFFICES ASSUME NEW e \in Events
               PROVE  /\ IsFiniteSet(Handling(e))
                      /\ owed[e] = Cardinality(Waiting(e)) + Cardinality(Handling(e))
    BY DEF OwedIsInFlight
  <2>1. Handling(e) = {} /\ Waiting(e) = {} /\ owed[e] = 0
    BY SessionAssumption DEF InboundInit, SessionInit, NoJob, Handling, Waiting, Places
  <2> QED BY <2>1, FS_EmptySet
<1>4. EverywhereSent /\ BornBefore /\ TurnHasPrompt
  BY DEF InboundInit, SessionInit, NoJob, EverywhereSent, BornBefore, TurnHasPrompt
<1>5. OneHandling
  BY DEF InboundInit, SessionInit, NoJob, OneHandling, HandledOnce, Prompting
<1> QED BY <1>1, <1>2, <1>3, <1>4, <1>5 DEF InboundInv

LEMMA InboundInvStep == InboundInv /\ [InboundNext]_inboundVars => InboundInv'
BY InboundTypeStep, JobHasEventStep, WholeStep, OwedStep, SentStep, BornStep,
   OneHandlingStep, TurnStep DEF InboundInv

(* The inductive invariant of the session and the handlings.               *)
THEOREM InboundInvariant == InboundSpec => []InboundInv
BY InboundInvInit, InboundInvStep, PTL DEF InboundSpec

(* As often as an event was joined and not yet handled, it is queued or    *)
(* being handled: none falls between the read loop and its handler.        *)
THEOREM NoEventDroppedHolds == InboundSpec => []NoEventDropped
<1>1. InboundInv => NoEventDropped
  <2> SUFFICES ASSUME InboundInv, NEW e \in Events PROVE owed[e] = InFlight(e)
    BY DEF NoEventDropped
  <2> QED BY DEF InboundInv, OwedIsInFlight, InFlight, Waiting, Places, Handling
<1> QED BY <1>1, InboundInvariant, PTL

(* The reassembler hands on an event only when it holds all its chunks.    *)
THEOREM WholeEventsHold == InboundSpec => []WholeEventsOnly
<1>1. InboundInv => WholeEventsOnly
  BY DEF InboundInv, WholeEventsOnly
<1> QED BY <1>1, InboundInvariant, PTL

(* Redeliveries and retries never make one message two prompts, as long as *)
(* the stale window is no longer than the dedup set remembers and the full *)
(* set has not forgotten the message.                                      *)
THEOREM OnePromptHolds == InboundSpec => []OnePromptPerMessage
<1>1. InboundInv => OnePromptPerMessage
  BY DEF InboundInv, OneHandling, HandledOnce, OnePromptPerMessage
<1> QED BY <1>1, InboundInvariant, PTL

(* Every turn belongs to a prompt that was forwarded, or is about to be.   *)
THEOREM NoOrphanTurnHolds == InboundSpec => []NoOrphanTurn
<1>1. InboundInv => NoOrphanTurn
  <2> SUFFICES ASSUME InboundInv, NEW e \in turnOf, ~(prompts[e] > 0)
               PROVE  \E r \in Runners : job[r] = [event |-> e, pc |-> "send"]
    BY DEF NoOrphanTurn
  <2>1. PICK r \in Runners : job[r].event = e /\ job[r].pc = "send"
    BY DEF InboundInv, TurnHasPrompt
  <2>2. job[r] \in Job
    BY DEF InboundInv, InboundTypeOK
  <2>3. job[r] = [event |-> e, pc |-> "send"]
    BY <2>1, <2>2 DEF Job
  <2> QED BY <2>3
<1> QED BY <1>1, InboundInvariant, PTL

-----------------------------------------------------------------------------
(*************************************************************************)
(* Inbox: what a prompt says of a file or a post is all there is of it,  *)
(* or the prompt says what was cut or could not be had.                  *)
(*************************************************************************)

(* The inbox: where the handler of a message stands, and what it has made. *)
FileSteps == {"new", "download", "save", "convert", "write", "prompt", "done"}
PostSteps == {"new", "render", "prompt", "done"}
Image == [at : Nat, bytes : Nat]

InboxTypeOK ==
    /\ source \in [Messages -> Sources]
    /\ step \in [Messages -> FileSteps \cup PostSteps]
    /\ dir \subseteq Messages /\ touched \in [Messages -> Nat] /\ chatTime \in Nat
    /\ raw \in [Messages -> Nat]
    /\ doc \in [Messages -> Seq({"text", "broken", "mark", "image"})]
    /\ images \in [Messages -> SUBSET Image]
    /\ onDisk \subseteq Messages /\ prompted \subseteq Messages /\ noted \subseteq Messages
    /\ sweep \subseteq Messages /\ caught \subseteq Messages
    /\ day \in Nat /\ mishaps \in Nat

(* The document of m is complete, or will be once it is written.           *)
Complete(m) == step[m] = "prompt" \/ m \in prompted
Open(m) == step[m] = "write" \/ Complete(m)

Stands(m) ==
    /\ step[m] \in IF source[m].kind = "post" THEN PostSteps ELSE FileSteps
    /\ m \in prompted => step[m] = "done"

(* A directory that is gone although its message is being handled, or has  *)
(* been prompted, was caught by the sweep or is old; in one that is there  *)
(* lies the document.                                                      *)
Placed(m) ==
    /\ step[m] \notin {"new", "done"} \/ m \in prompted =>
           m \in dir \/ m \in caught \/ Old(touched[m])
    /\ m \in dir /\ Open(m) => m \in onDisk

(* The upload is whole from its conversion on, and each part written so    *)
(* far stands for the one it was made of.                                  *)
Stored(m) ==
    source[m].kind # "post" /\ (step[m] = "convert" \/ Open(m)) => raw[m] = source[m].size
Written(m) ==
    /\ step[m] \in {"new", "download", "save", "convert"} => doc[m] = << >>
    /\ source[m].kind # "post" =>
           /\ step[m] = "write" => Len(doc[m]) <= Goal(m)
           /\ Complete(m) => Len(doc[m]) = Goal(m)
           /\ \A i \in DOMAIN doc[m] : doc[m][i] = PartText(source[m].parts[i])
Rendered(m) ==
    source[m].kind = "post" =>
        /\ Complete(m) => Len(doc[m]) = Len(source[m].parts)
        /\ m \in dir => \A i \in DOMAIN doc[m] : doc[m][i] = "image" =>
                            [at |-> i, bytes |-> source[m].parts[i]] \in images[m]
CutIsNoted(m) ==
    m \in prompted /\ source[m].kind = "xlsx" /\ Goal(m) < Len(source[m].parts) => m \in noted

Kept(m) ==
    Stands(m) /\ Placed(m) /\ Stored(m) /\ Written(m) /\ Rendered(m) /\ CutIsNoted(m)
InboxInv == InboxTypeOK /\ \A m \in Messages : Kept(m)

-----------------------------------------------------------------------------
(* Lemmas about the limits and the parts of a file.                        *)
LEMMA MinOfThree ==
  ASSUME NEW a \in Nat, NEW b \in Nat, NEW c \in Nat
  PROVE  /\ Min({a, b, c}) \in {a, b, c}
         /\ Min({a, b, c}) <= a /\ Min({a, b, c}) <= b /\ Min({a, b, c}) <= c
<1>1. \E x \in {a, b, c} : \A y \in {a, b, c} : x <= y
  OBVIOUS
<1> QED BY <1>1 DEF Min

LEMMA MinOfTwo ==
  ASSUME NEW a \in Nat, NEW b \in Nat
  PROVE  Min({a, b}) \in {a, b} /\ Min({a, b}) <= a /\ Min({a, b}) <= b
<1>1. \E x \in {a, b} : \A y \in {a, b} : x <= y
  OBVIOUS
<1> QED BY <1>1 DEF Min

(* What fits the file limit was not cut.                                   *)
LEMMA StoredIsWhole ==
  ASSUME NEW n \in Nat, StoredBytes(n) <= MaxFileSize
  PROVE  StoredBytes(n) = n
<1>1. DownloadMax + 1 \in Nat /\ MaxFileSize + 1 \in Nat /\ MaxFileSize <= DownloadMax
  BY InboxAssumption
<1>2. StoredBytes(n) \in {n, DownloadMax + 1, MaxFileSize + 1}
  BY <1>1, MinOfThree DEF StoredBytes
<1> QED BY <1>1, <1>2, InboxAssumption

LEMMA SourceKinds ==
  ASSUME InboxTypeOK, NEW m \in Messages
  PROVE  /\ source[m].size \in Nat
         /\ source[m].kind \in {"text", "docx", "pptx", "xlsx", "post"}
         /\ source[m].kind = "text" => source[m].parts = << "text" >>
         /\ source[m].kind = "docx" => source[m].parts \in {<< "text" >>, << "broken" >>}
         /\ source[m].kind \in {"pptx", "xlsx"} => source[m].parts \in Seq({"text", "broken"})
         /\ source[m].kind = "post" => source[m].parts \in Seq(Nat)
<1>1. source[m] \in Source
  BY InboxAssumption DEF InboxTypeOK
<1> QED BY <1>1 DEF Source

(* A body that can be read is converted whole, whatever the limit.         *)
LEMMA BodyIsGoal ==
  ASSUME NEW m \in Messages, source[m].parts = << "text" >>
  PROVE  /\ Goal(m) = 1 /\ Len(source[m].parts) = 1 /\ DOMAIN source[m].parts = {1}
         /\ PartText(source[m].parts[1]) = source[m].parts[1]
<1>1. MaxParts # 0 => Min({1, MaxParts}) = 1
  <2>1. MaxParts # 0 => MaxParts \in Nat /\ MaxParts >= 1
    BY InboxAssumption
  <2>2. MaxParts # 0 => Min({1, MaxParts}) \in {1, MaxParts} /\ Min({1, MaxParts}) <= 1
    BY <2>1, MinOfTwo
  <2> QED BY <2>1, <2>2
<1>2. Len(source[m].parts) = 1
  OBVIOUS
<1> QED BY <1>1, <1>2 DEF Goal, PartText

LEMMA GoalInParts ==
  ASSUME NEW m \in Messages, NEW S, source[m].parts \in Seq(S)
  PROVE  Goal(m) \in Nat /\ Goal(m) <= Len(source[m].parts)
<1>1. Len(source[m].parts) \in Nat
  BY LenProperties
<1> QED BY <1>1, MinOfTwo, InboxAssumption DEF Goal

LEMMA Changed ==
  ASSUME NEW S, NEW f \in [Messages -> S], NEW m \in Messages, NEW v \in S,
         NEW g, g = [f EXCEPT ![m] = v]
  PROVE  /\ g \in [Messages -> S] /\ g[m] = v
         /\ \A n \in Messages \ {m} : g[n] = f[n]
OBVIOUS

(* The handler of m changes nothing of another message.                    *)
Elsewhere(m) ==
    /\ source' = source /\ day' = day /\ caught' = caught
    /\ \A n \in Messages \ {m} :
           /\ step'[n] = step[n] /\ touched'[n] = touched[n] /\ raw'[n] = raw[n]
           /\ doc'[n] = doc[n] /\ images'[n] = images[n]
           /\ (n \in dir' <=> n \in dir) /\ (n \in onDisk' <=> n \in onDisk)
           /\ (n \in prompted' <=> n \in prompted) /\ (n \in noted' <=> n \in noted)

LEMMA OthersKept ==
  ASSUME NEW m \in Messages, NEW n \in Messages \ {m}, Elsewhere(m), Kept(n)
  PROVE  Kept(n)'
BY DEF Elsewhere, Kept, Stands, Placed, Stored, Written, Rendered, CutIsNoted, Open, Complete,
       Old, Goal

(* A handler that ends with a notice leaves nothing to be prompted.        *)
LEMMA NoticeKept ==
  ASSUME InboxTypeOK, NEW m \in Messages, Kept(m), step[m] # "done", step'[m] = "done",
         UNCHANGED << source, doc, images, prompted >>, m \in dir' => m \in dir \/ doc[m] = << >>
  PROVE  Kept(m)'
<1>1. m \notin prompted'
  BY DEF Kept, Stands
<1>2. Stands(m)' /\ Placed(m)' /\ Stored(m)' /\ CutIsNoted(m)'
  BY <1>1 DEF Stands, Placed, Stored, CutIsNoted, Open, Complete, PostSteps, FileSteps
<1>3. Written(m)' /\ Rendered(m)'
  BY <1>1 DEF Kept, Written, Rendered, Complete, Goal
<1> QED BY <1>2, <1>3 DEF Kept

LEMMA AdvanceTo ==
  ASSUME InboxTypeOK, NEW m \in Messages, NEW to \in FileSteps \cup PostSteps, Advance(m, to)
  PROVE  /\ step' \in [Messages -> FileSteps \cup PostSteps] /\ step'[m] = to
         /\ \A n \in Messages \ {m} : step'[n] = step[n]
BY DEF Advance, InboxTypeOK

LEMMA TouchNow ==
  ASSUME InboxTypeOK, NEW m \in Messages, Touch(m)
  PROVE  /\ touched' \in [Messages -> Nat] /\ touched'[m] = day
         /\ \A n \in Messages \ {m} : touched'[n] = touched[n]
BY DEF Touch, InboxTypeOK

LEMMA MishapsCount ==
  ASSUME InboxTypeOK, Works \/ Fails
  PROVE  mishaps' \in Nat
BY DEF Works, Fails, InboxTypeOK

Steps == {"new", "download", "save", "convert", "write", "prompt", "done", "render"}
LEMMA StepNames == FileSteps \cup PostSteps = Steps
BY DEF FileSteps, PostSteps, Steps

LEMMA BeginKept ==
  ASSUME InboxTypeOK, NEW m \in Messages, Kept(m), BeginFile(m) \/ BeginPost(m)
  PROVE  InboxTypeOK' /\ Elsewhere(m) /\ Kept(m)'
<1>1. PICK to \in {"download", "render"} :
         /\ Begin(m, to) /\ to = IF source[m].kind = "post" THEN "render" ELSE "download"
  BY DEF BeginFile, BeginPost
<1>2. /\ step[m] = "new" /\ m \notin prompted /\ mishaps' = mishaps
      /\ UNCHANGED << source, raw, doc, onDisk, images, prompted, noted, sweep, caught, day >>
  BY <1>1 DEF Begin, Works, Kept, Stands
<1>3. CASE GiveNotice(m) /\ UNCHANGED << dir, touched, chatTime >>
  <2>1. /\ step' \in [Messages -> FileSteps \cup PostSteps] /\ step'[m] = "done"
        /\ \A n \in Messages \ {m} : step'[n] = step[n]
    BY <1>3, AdvanceTo, StepNames DEF GiveNotice, Steps
  <2>2. InboxTypeOK' /\ Elsewhere(m)
    BY <1>2, <1>3, <2>1 DEF InboxTypeOK, Elsewhere
  <2>3. Kept(m)'
    BY <1>2, <1>3, <2>1, NoticeKept
  <2> QED BY <2>2, <2>3
<1>4. CASE Advance(m, to) /\ dir' = dir \cup {m} /\ Touch(m) /\ chatTime' = day
  <2>1. /\ step' \in [Messages -> FileSteps \cup PostSteps] /\ step'[m] = to
        /\ \A n \in Messages \ {m} : step'[n] = step[n]
    BY <1>4, AdvanceTo, StepNames DEF Steps
  <2>2. InboxTypeOK' /\ Elsewhere(m)
    BY <1>2, <1>4, <2>1, TouchNow DEF InboxTypeOK, Elsewhere
  <2>3. doc[m] = << >> /\ doc'[m] = << >>
    BY <1>2 DEF Kept, Written
  <2>4. Stands(m)' /\ Placed(m)' /\ Stored(m)' /\ CutIsNoted(m)'
    BY <1>1, <1>2, <1>4, <2>1
       DEF Stands, Placed, Stored, CutIsNoted, Open, Complete, PostSteps, FileSteps
  <2>5. Written(m)' /\ Rendered(m)'
    BY <1>1, <1>2, <2>1, <2>3 DEF Written, Rendered, Complete
  <2> QED BY <2>2, <2>4, <2>5 DEF Kept
<1> QED BY <1>1, <1>3, <1>4 DEF Begin

LEMMA DownloadKept ==
  ASSUME InboxTypeOK, NEW m \in Messages, Kept(m), DownloadFile(m)
  PROVE  InboxTypeOK' /\ Elsewhere(m) /\ Kept(m)'
<1>1. /\ step[m] = "download" /\ m \notin prompted /\ mishaps' \in Nat
      /\ UNCHANGED << source, dir, touched, chatTime, raw, doc, onDisk, images, prompted, noted,
                      sweep, caught, day >>
  BY MishapsCount DEF DownloadFile, SweepKept, Kept, Stands
<1>2. Advance(m, "save") \/ GiveNotice(m)
  BY DEF DownloadFile
<1>3. PICK to \in {"save", "done"} :
         /\ step' \in [Messages -> FileSteps \cup PostSteps] /\ step'[m] = to
         /\ \A n \in Messages \ {m} : step'[n] = step[n]
  BY <1>2, AdvanceTo, StepNames DEF GiveNotice, Steps
<1>4. InboxTypeOK' /\ Elsewhere(m)
  BY <1>1, <1>3 DEF InboxTypeOK, Elsewhere
<1>5. CASE to = "done"
  BY <1>1, <1>3, <1>4, <1>5, NoticeKept
<1>6. CASE to = "save"
  <2>1. source[m].kind # "post"
    BY <1>1 DEF Kept, Stands, PostSteps
  <2> QED
    BY <1>1, <1>3, <1>4, <1>6, <2>1
       DEF Kept, Stands, Placed, Stored, Written, Rendered, CutIsNoted, Open, Complete, Goal,
           Old, FileSteps
<1> QED BY <1>4, <1>5, <1>6

LEMMA SaveKept ==
  ASSUME InboxTypeOK, NEW m \in Messages, Kept(m), SaveFile(m)
  PROVE  InboxTypeOK' /\ Elsewhere(m) /\ Kept(m)'
<1>1. /\ step[m] = "save" /\ m \notin prompted /\ mishaps' \in Nat
      /\ UNCHANGED << source, dir, touched, chatTime, doc, onDisk, images, prompted, noted,
                      sweep, caught, day >>
  BY MishapsCount DEF SaveFile, SweepKept, Kept, Stands
<1>2. source[m].kind # "post" /\ source[m].size \in Nat
  BY <1>1, SourceKinds DEF Kept, Stands, PostSteps
<1>3. CASE GiveNotice(m) /\ raw' = raw
  <2>1. /\ step' \in [Messages -> FileSteps \cup PostSteps] /\ step'[m] = "done"
        /\ \A n \in Messages \ {m} : step'[n] = step[n]
    BY <1>3, AdvanceTo, StepNames DEF GiveNotice, Steps
  <2>2. InboxTypeOK' /\ Elsewhere(m)
    BY <1>1, <1>3, <2>1 DEF InboxTypeOK, Elsewhere
  <2> QED BY <1>1, <2>1, <2>2, NoticeKept
<1>4. CASE /\ m \in dir /\ StoredBytes(source[m].size) <= MaxFileSize
           /\ raw' = [raw EXCEPT ![m] = StoredBytes(source[m].size)] /\ Advance(m, "convert")
  <2>1. StoredBytes(source[m].size) = source[m].size
    BY <1>2, <1>4, StoredIsWhole
  <2>2. /\ step' \in [Messages -> FileSteps \cup PostSteps] /\ step'[m] = "convert"
        /\ \A n \in Messages \ {m} : step'[n] = step[n]
    BY <1>4, AdvanceTo, StepNames DEF Steps
  <2>3. /\ raw' \in [Messages -> Nat] /\ raw'[m] = source[m].size
        /\ \A n \in Messages \ {m} : raw'[n] = raw[n]
    BY <1>2, <1>4, <2>1, Changed DEF InboxTypeOK
  <2>4. InboxTypeOK' /\ Elsewhere(m)
    BY <1>1, <2>2, <2>3 DEF InboxTypeOK, Elsewhere
  <2> QED
    BY <1>1, <1>2, <1>4, <2>2, <2>3, <2>4
       DEF Kept, Stands, Placed, Stored, Written, Rendered, CutIsNoted, Open, Complete, Goal,
           Old, FileSteps
<1> QED BY <1>3, <1>4 DEF SaveFile

(* The conversion has created the document, which has these parts by now.  *)
LEMMA CreatesKept ==
  ASSUME InboxTypeOK, NEW m \in Messages, Kept(m), NEW kind \in {"text", "docx", "pptx", "xlsx"},
         NEW to \in {"write", "prompt"}, Creates(m, kind, to),
         NEW d \in Seq({"text", "broken", "mark", "image"}), doc' = [doc EXCEPT ![m] = d],
         to = "write" => d = << >>, to = "prompt" => Len(d) = Goal(m),
         \A i \in DOMAIN d : d[i] = PartText(source[m].parts[i])
  PROVE  InboxTypeOK' /\ Elsewhere(m) /\ Kept(m)'
<1>1. /\ step[m] = "convert" /\ source[m].kind = kind /\ m \in dir /\ m \notin prompted
      /\ mishaps' \in Nat /\ onDisk' = onDisk \cup {m}
      /\ UNCHANGED << source, dir, chatTime, raw, images, prompted, noted, sweep, caught, day >>
  BY MishapsCount DEF Creates, SweepKept, Kept, Stands
<1>2. /\ step' \in [Messages -> FileSteps \cup PostSteps] /\ step'[m] = to
      /\ \A n \in Messages \ {m} : step'[n] = step[n]
  BY AdvanceTo, StepNames DEF Creates, Steps
<1>3. /\ doc' \in [Messages -> Seq({"text", "broken", "mark", "image"})] /\ doc'[m] = d
      /\ \A n \in Messages \ {m} : doc'[n] = doc[n]
  BY Changed DEF InboxTypeOK
<1>4. /\ touched' \in [Messages -> Nat]
      /\ \A n \in Messages \ {m} : touched'[n] = touched[n]
  BY TouchNow DEF Creates
<1>5. InboxTypeOK' /\ Elsewhere(m)
  BY <1>1, <1>2, <1>3, <1>4 DEF InboxTypeOK, Elsewhere
<1>6. raw[m] = source[m].size
  BY <1>1 DEF Kept, Stored
<1>7. Goal(m)' = Goal(m)
  BY <1>1 DEF Goal
<1>8. Goal(m) \in Nat
  <2>1. << "text" >> \in Seq({"text", "broken"}) /\ << "broken" >> \in Seq({"text", "broken"})
    OBVIOUS
  <2>2. \/ source[m].parts \in {<< "text" >>, << "broken" >>}
        \/ source[m].parts \in Seq({"text", "broken"})
    BY <1>1, SourceKinds
  <2>3. source[m].parts \in Seq({"text", "broken"})
    BY <2>1, <2>2
  <2> QED BY <2>3, GoalInParts
<1>9. Stands(m)' /\ Placed(m)' /\ Stored(m)' /\ CutIsNoted(m)'
  BY <1>1, <1>2, <1>6 DEF Stands, Placed, Stored, CutIsNoted, Open, Complete, FileSteps
<1>10. Written(m)' /\ Rendered(m)'
  BY <1>1, <1>2, <1>3, <1>7, <1>8 DEF Written, Rendered, Complete
<1> QED BY <1>5, <1>9, <1>10 DEF Kept

LEMMA ConvertKept ==
  ASSUME InboxTypeOK, NEW m \in Messages, Kept(m),
         CopyText(m) \/ RenderDocx(m) \/ OpenSlides(m) \/ OpenWorkbook(m)
  PROVE  InboxTypeOK' /\ Elsewhere(m) /\ Kept(m)'
<1>1. ASSUME NEW kind \in {"text", "docx"}, Creates(m, kind, "prompt"),
             doc' = [doc EXCEPT ![m] = source[m].parts], source[m].parts = << "text" >>
      PROVE  InboxTypeOK' /\ Elsewhere(m) /\ Kept(m)'
  <2>1. source[m].parts \in Seq({"text", "broken", "mark", "image"})
    BY <1>1
  <2> QED BY <1>1, <2>1, BodyIsGoal, CreatesKept
<1>2. ASSUME NEW kind \in {"pptx", "xlsx"}, Creates(m, kind, "write"), doc' = doc
      PROVE  InboxTypeOK' /\ Elsewhere(m) /\ Kept(m)'
  <2>1. doc[m] = << >>
    BY <1>2 DEF Kept, Written, Creates
  <2>2. doc' = [doc EXCEPT ![m] = << >>]
    BY <1>2, <2>1 DEF InboxTypeOK
  <2>3. << >> \in Seq({"text", "broken", "mark", "image"}) /\ DOMAIN << >> = {}
    OBVIOUS
  <2> QED BY <1>2, <2>2, <2>3, CreatesKept
<1>3. CASE CopyText(m)
  <2>1. Creates(m, "text", "prompt") /\ doc' = [doc EXCEPT ![m] = source[m].parts]
    BY <1>3 DEF CopyText
  <2>2. source[m].parts = << "text" >>
    BY <2>1, SourceKinds DEF Creates
  <2> QED BY <1>1, <2>1, <2>2
<1>4. CASE RenderDocx(m)
  <2>1. /\ Creates(m, "docx", "prompt") /\ doc' = [doc EXCEPT ![m] = source[m].parts]
        /\ ~Unreadable(m)
    BY <1>4 DEF RenderDocx
  <2>2. source[m].parts \in {<< "text" >>, << "broken" >>}
    BY <2>1, SourceKinds DEF Creates
  <2>3. source[m].parts = << "text" >>
    BY <2>1, <2>2 DEF Unreadable
  <2> QED BY <1>1, <2>1, <2>3
<1> QED BY <1>2, <1>3, <1>4 DEF OpenSlides, OpenWorkbook

LEMMA ConvertFailsKept ==
  ASSUME InboxTypeOK, NEW m \in Messages, Kept(m), ConvertFails(m)
  PROVE  InboxTypeOK' /\ Elsewhere(m) /\ Kept(m)'
<1>1. /\ step[m] = "convert" /\ mishaps' \in Nat
      /\ UNCHANGED << source, dir, touched, chatTime, raw, doc, onDisk, images, prompted, noted,
                      sweep, caught, day >>
  BY MishapsCount DEF ConvertFails, SweepKept
<1>2. /\ step' \in [Messages -> FileSteps \cup PostSteps] /\ step'[m] = "done"
      /\ \A n \in Messages \ {m} : step'[n] = step[n]
  BY AdvanceTo, StepNames DEF ConvertFails, GiveNotice, Steps
<1>3. InboxTypeOK' /\ Elsewhere(m)
  BY <1>1, <1>2 DEF InboxTypeOK, Elsewhere
<1> QED BY <1>1, <1>2, <1>3, NoticeKept

LEMMA WriteBreaksKept ==
  ASSUME InboxTypeOK, NEW m \in Messages, Kept(m), WriteBreaks(m)
  PROVE  InboxTypeOK' /\ Elsewhere(m) /\ Kept(m)'
<1>1. /\ step[m] = "write" /\ mishaps' \in Nat /\ onDisk' = onDisk \ {m}
      /\ UNCHANGED << source, dir, chatTime, raw, doc, images, prompted, noted, sweep, caught,
                      day >>
  BY MishapsCount DEF WriteBreaks, SweepKept
<1>2. /\ step' \in [Messages -> FileSteps \cup PostSteps] /\ step'[m] = "done"
      /\ \A n \in Messages \ {m} : step'[n] = step[n]
  BY AdvanceTo, StepNames DEF WriteBreaks, GiveNotice, Steps
<1>3. touched' \in [Messages -> Nat] /\ \A n \in Messages \ {m} : touched'[n] = touched[n]
  BY TouchNow DEF WriteBreaks
<1>4. InboxTypeOK' /\ Elsewhere(m)
  BY <1>1, <1>2, <1>3 DEF InboxTypeOK, Elsewhere
<1> QED BY <1>1, <1>2, <1>4, NoticeKept

(* One part more is in the document, or it is at its end.                  *)
LEMMA WritesKept ==
  ASSUME InboxTypeOK, NEW m \in Messages, Kept(m), NEW kind \in {"pptx", "xlsx"},
         Writes(m, kind)
  PROVE  InboxTypeOK' /\ Elsewhere(m) /\ Kept(m)'
<1>1. /\ step[m] = "write" /\ source[m].kind = kind /\ m \notin prompted /\ mishaps' = mishaps
      /\ UNCHANGED << source, dir, touched, chatTime, raw, onDisk, images, prompted, noted,
                      sweep, caught, day >>
  BY DEF Writes, Works, SweepKept, Kept, Stands
<1>2. /\ source[m].parts \in Seq({"text", "broken"}) /\ Goal(m) \in Nat
      /\ Goal(m) <= Len(source[m].parts) /\ Goal(m)' = Goal(m)
  BY <1>1, SourceKinds, GoalInParts DEF Goal
<1>3. /\ doc[m] \in Seq({"text", "broken", "mark", "image"}) /\ raw[m] = source[m].size
      /\ \A i \in DOMAIN doc[m] : doc[m][i] = PartText(source[m].parts[i])
      /\ m \in dir \/ m \in caught \/ Old(touched[m])
      /\ m \in dir => m \in onDisk
  BY <1>1 DEF InboxTypeOK, Kept, Stored, Written, Placed, Open
<1>4. CASE Len(doc[m]) = Goal(m) /\ Advance(m, "prompt") /\ doc' = doc
  <2>1. /\ step' \in [Messages -> FileSteps \cup PostSteps] /\ step'[m] = "prompt"
        /\ \A n \in Messages \ {m} : step'[n] = step[n]
    BY <1>4, AdvanceTo, StepNames DEF Steps
  <2>2. InboxTypeOK' /\ Elsewhere(m)
    BY <1>1, <1>4, <2>1 DEF InboxTypeOK, Elsewhere
  <2>3. Stands(m)' /\ Placed(m)' /\ Stored(m)' /\ CutIsNoted(m)'
    BY <1>1, <1>3, <2>1 DEF Stands, Placed, Stored, CutIsNoted, Open, Complete, FileSteps, Old
  <2>4. Written(m)' /\ Rendered(m)'
    BY <1>1, <1>2, <1>3, <1>4, <2>1 DEF Written, Rendered, Complete
  <2> QED BY <2>2, <2>3, <2>4 DEF Kept
<1>5. CASE /\ Len(doc[m]) < Goal(m) /\ step' = step
           /\ doc' = [doc EXCEPT ![m] = Append(@, PartText(source[m].parts[Len(@) + 1]))]
  <2> DEFINE part == PartText(source[m].parts[Len(doc[m]) + 1])
             d == Append(doc[m], part)
  <2>1. Len(doc[m]) \in Nat /\ Len(doc[m]) + 1 \in DOMAIN source[m].parts
    BY <1>2, <1>3, <1>5, LenProperties
  <2>2. part \in {"text", "broken", "mark", "image"}
    BY <1>2, <2>1 DEF PartText
  <2>3. /\ d \in Seq({"text", "broken", "mark", "image"}) /\ Len(d) = Len(doc[m]) + 1
        /\ DOMAIN d = 1 .. Len(doc[m]) + 1 /\ DOMAIN doc[m] = 1 .. Len(doc[m])
        /\ d[Len(doc[m]) + 1] = part /\ \A i \in 1 .. Len(doc[m]) : d[i] = doc[m][i]
    BY <1>3, <2>2, AppendProperties, LenProperties
  <2>4. doc' = [doc EXCEPT ![m] = d]
    BY <1>5
  <2> HIDE DEF d
  <2>5. /\ doc' \in [Messages -> Seq({"text", "broken", "mark", "image"})] /\ doc'[m] = d
        /\ \A n \in Messages \ {m} : doc'[n] = doc[n]
    BY <2>3, <2>4, Changed DEF InboxTypeOK
  <2>6. \A i \in DOMAIN d : d[i] = PartText(source[m].parts[i])
    <3> SUFFICES ASSUME NEW i \in DOMAIN d PROVE d[i] = PartText(source[m].parts[i])
      OBVIOUS
    <3>1. CASE i \in 1 .. Len(doc[m])
      BY <1>3, <2>3, <3>1
    <3>2. CASE i = Len(doc[m]) + 1
      BY <2>3, <3>2
    <3> QED BY <2>1, <2>3, <3>1, <3>2
  <2>7. InboxTypeOK' /\ Elsewhere(m)
    BY <1>1, <1>5, <2>5 DEF InboxTypeOK, Elsewhere
  <2>8. Stands(m)' /\ Placed(m)' /\ Stored(m)' /\ CutIsNoted(m)'
    BY <1>1, <1>3, <1>5 DEF Kept, Stands, Placed, Stored, CutIsNoted, Open, Complete, Old
  <2>9. Len(d) <= Goal(m)
    BY <1>2, <1>5, <2>1, <2>3
  <2>10. Written(m)' /\ Rendered(m)'
    BY <1>1, <1>2, <1>5, <2>5, <2>6, <2>9 DEF Written, Rendered, Complete
  <2> QED BY <2>7, <2>8, <2>10 DEF Kept
<1> QED BY <1>4, <1>5 DEF Writes

(* An image is stored whole and referenced, or it has a placeholder.       *)
LEMMA RenderImageKept ==
  ASSUME InboxTypeOK, NEW m \in Messages, Kept(m), RenderImage(m)
  PROVE  InboxTypeOK' /\ Elsewhere(m) /\ Kept(m)'
<1>1. /\ step[m] = "render" /\ Len(doc[m]) < Len(source[m].parts) /\ mishaps' \in Nat
      /\ UNCHANGED << source, step, dir, chatTime, raw, onDisk, prompted, noted, sweep, caught,
                      day >>
  BY MishapsCount DEF RenderImage, SweepKept
<1>2. source[m].kind = "post" /\ m \notin prompted
  BY <1>1 DEF Kept, Stands, FileSteps
<1>3. PICK i \in Nat : i = Len(doc[m]) + 1
  BY LenProperties DEF InboxTypeOK
<1>4. doc[m] \in Seq({"text", "broken", "mark", "image"}) /\ source[m].parts \in Seq(Nat)
  BY <1>2, SourceKinds DEF InboxTypeOK
<1>5. source[m].parts[i] \in Nat
  <2>1. Len(doc[m]) \in Nat /\ Len(source[m].parts) \in Nat
    BY <1>4, LenProperties
  <2>2. i \in 1 .. Len(source[m].parts)
    BY <1>1, <1>3, <2>1
  <2> QED BY <1>4, <2>2
<1>6. PICK n : n = StoredBytes(source[m].parts[i])
  OBVIOUS
<1>7. ASSUME NEW part \in {"image", "mark"}, doc' = [doc EXCEPT ![m] = Append(@, part)],
             touched' \in [Messages -> Nat],
             \A k \in Messages \ {m} : touched'[k] = touched[k] /\ images'[k] = images[k],
             images' \in [Messages -> SUBSET Image], images[m] \subseteq images'[m],
             part = "image" => [at |-> i, bytes |-> source[m].parts[i]] \in images'[m],
             m \in dir \/ touched'[m] = touched[m]
      PROVE  InboxTypeOK' /\ Elsewhere(m) /\ Kept(m)'
  <2>1. PICK d : d = Append(doc[m], part)
    OBVIOUS
  <2>2. /\ d \in Seq({"text", "broken", "mark", "image"}) /\ d[i] = part
        /\ DOMAIN d = 1 .. i /\ DOMAIN doc[m] = 1 .. i - 1
        /\ \A k \in 1 .. i - 1 : d[k] = doc[m][k]
    BY <1>3, <1>4, <2>1, AppendProperties, LenProperties
  <2>3. doc' = [doc EXCEPT ![m] = d]
    BY <1>7, <2>1
  <2>4. /\ doc' \in [Messages -> Seq({"text", "broken", "mark", "image"})] /\ doc'[m] = d
        /\ \A k \in Messages \ {m} : doc'[k] = doc[k]
    BY <2>2, <2>3, Changed DEF InboxTypeOK
  <2>5. InboxTypeOK' /\ Elsewhere(m)
    BY <1>1, <1>7, <2>4 DEF InboxTypeOK, Elsewhere
  <2>6. m \in dir \/ m \in caught \/ Old(touched[m])
    BY <1>1 DEF Kept, Placed
  <2>7. Stands(m)' /\ Placed(m)' /\ Stored(m)' /\ Written(m)' /\ CutIsNoted(m)'
    BY <1>1, <1>2, <1>7, <2>6
       DEF Kept, Stands, Placed, Stored, Written, CutIsNoted, Open, Complete, Old
  <2>8. Rendered(m)'
    <3> SUFFICES ASSUME m \in dir, NEW k \in 1 .. i, d[k] = "image"
                 PROVE  [at |-> k, bytes |-> source[m].parts[k]] \in images'[m]
      BY <1>1, <1>2, <2>2, <2>4 DEF Rendered, Complete
    <3>1. CASE k = i
      BY <1>7, <2>2, <3>1
    <3>2. CASE k \in 1 .. i - 1
      BY <1>2, <1>7, <2>2, <3>2 DEF Kept, Rendered
    <3> QED BY <1>3, <3>1, <3>2
  <2> QED BY <2>5, <2>7, <2>8 DEF Kept
<1>8. CASE /\ m \in dir /\ n <= MaxFileSize /\ Touch(m)
           /\ images' = [images EXCEPT ![m] = @ \cup {[at |-> i, bytes |-> n]}]
           /\ doc' = [doc EXCEPT ![m] = Append(@, "image")]
  <2>1. n = source[m].parts[i]
    BY <1>5, <1>6, <1>8, StoredIsWhole
  <2>2. [at |-> i, bytes |-> n] \in Image
    BY <1>5, <2>1 DEF Image
  <2>3. images[m] \cup {[at |-> i, bytes |-> n]} \in SUBSET Image
    BY <2>2 DEF InboxTypeOK
  <2>4. /\ images' \in [Messages -> SUBSET Image]
        /\ images'[m] = images[m] \cup {[at |-> i, bytes |-> n]}
        /\ \A k \in Messages \ {m} : images'[k] = images[k]
    BY <1>8, <2>3, Changed DEF InboxTypeOK
  <2>5. touched' \in [Messages -> Nat] /\ \A k \in Messages \ {m} : touched'[k] = touched[k]
    BY <1>8, TouchNow
  <2> QED BY <1>7, <1>8, <2>1, <2>4, <2>5
<1>9. CASE doc' = [doc EXCEPT ![m] = Append(@, "mark")] /\ UNCHANGED << images, touched >>
  BY <1>7, <1>9 DEF InboxTypeOK
<1> QED BY <1>3, <1>6, <1>8, <1>9 DEF RenderImage

LEMMA WriteBodyKept ==
  ASSUME InboxTypeOK, NEW m \in Messages, Kept(m), WriteBody(m)
  PROVE  InboxTypeOK' /\ Elsewhere(m) /\ Kept(m)'
<1>1. /\ step[m] = "render" /\ Len(doc[m]) = Len(source[m].parts) /\ mishaps' \in Nat
      /\ UNCHANGED << source, dir, chatTime, raw, doc, images, prompted, noted, sweep, caught,
                      day >>
  BY MishapsCount DEF WriteBody, SweepKept
<1>2. source[m].kind = "post" /\ m \notin prompted
  BY <1>1 DEF Kept, Stands, FileSteps
<1>3. CASE GiveNotice(m) /\ UNCHANGED << touched, onDisk >>
  <2>1. /\ step' \in [Messages -> FileSteps \cup PostSteps] /\ step'[m] = "done"
        /\ \A n \in Messages \ {m} : step'[n] = step[n]
    BY <1>3, AdvanceTo, StepNames DEF GiveNotice, Steps
  <2>2. InboxTypeOK' /\ Elsewhere(m)
    BY <1>1, <1>3, <2>1 DEF InboxTypeOK, Elsewhere
  <2> QED BY <1>1, <2>1, <2>2, NoticeKept
<1>4. CASE m \in dir /\ Touch(m) /\ onDisk' = onDisk \cup {m} /\ Advance(m, "prompt")
  <2>1. /\ step' \in [Messages -> FileSteps \cup PostSteps] /\ step'[m] = "prompt"
        /\ \A n \in Messages \ {m} : step'[n] = step[n]
    BY <1>4, AdvanceTo, StepNames DEF Steps
  <2>2. touched' \in [Messages -> Nat] /\ \A n \in Messages \ {m} : touched'[n] = touched[n]
    BY <1>4, TouchNow
  <2>3. InboxTypeOK' /\ Elsewhere(m)
    BY <1>1, <1>4, <2>1, <2>2 DEF InboxTypeOK, Elsewhere
  <2>4. Stands(m)' /\ Placed(m)' /\ Stored(m)' /\ CutIsNoted(m)'
    BY <1>1, <1>2, <1>4, <2>1 DEF Stands, Placed, Stored, CutIsNoted, PostSteps
  <2>5. Written(m)' /\ Rendered(m)'
    BY <1>1, <1>2, <2>1 DEF Kept, Written, Rendered
  <2> QED BY <2>3, <2>4, <2>5 DEF Kept
<1> QED BY <1>3, <1>4 DEF WriteBody

LEMMA MakePromptKept ==
  ASSUME InboxTypeOK, NEW m \in Messages, Kept(m), MakePrompt(m)
  PROVE  InboxTypeOK' /\ Elsewhere(m) /\ Kept(m)'
<1>1. /\ step[m] = "prompt" /\ mishaps' \in Nat
      /\ UNCHANGED << source, dir, touched, chatTime, raw, doc, onDisk, images, sweep, caught,
                      day >>
  BY MishapsCount DEF MakePrompt, SweepKept
<1>2. /\ step' \in [Messages -> FileSteps \cup PostSteps] /\ step'[m] = "done"
      /\ \A n \in Messages \ {m} : step'[n] = step[n]
  BY AdvanceTo, StepNames DEF MakePrompt, Steps
<1>3. \/ /\ prompted' = prompted \cup {m}
         /\ noted' = IF source[m].kind = "xlsx" /\ Goal(m) < Len(source[m].parts)
                     THEN noted \cup {m} ELSE noted
      \/ UNCHANGED << prompted, noted >>
  BY DEF MakePrompt
<1>4. InboxTypeOK' /\ Elsewhere(m)
  BY <1>1, <1>2, <1>3 DEF InboxTypeOK, Elsewhere
<1>5. Goal(m)' = Goal(m)
  BY <1>1 DEF Goal
<1>6. Stands(m)' /\ CutIsNoted(m)'
  BY <1>1, <1>2, <1>3, <1>5 DEF Kept, Stands, CutIsNoted, FileSteps, PostSteps
<1>7. Complete(m) /\ (Complete(m)' => Complete(m)) /\ (Open(m)' => Open(m))
  BY <1>1, <1>2 DEF Open, Complete
<1>8. Placed(m)' /\ Stored(m)'
  BY <1>1, <1>2, <1>7 DEF Kept, Placed, Stored, Old
<1>9. Written(m)' /\ Rendered(m)'
  BY <1>1, <1>2, <1>5, <1>7 DEF Kept, Written, Rendered
<1> QED BY <1>4, <1>6, <1>8, <1>9 DEF Kept

(* The sweep: what it removes was old, or it is caught.                    *)
LEMMA SweepRemovesKept ==
  ASSUME InboxTypeOK, NEW m \in Messages, Kept(m), SweepRemoves
  PROVE  InboxTypeOK' /\ Kept(m)'
<1>1. /\ caught' = caught \cup {k \in sweep \cap dir : ~Old(touched[k])}
      /\ dir' = dir \ sweep /\ onDisk' = onDisk \ sweep /\ sweep' = {} /\ chatTime' = day
      /\ UNCHANGED << source, step, touched, raw, doc, prompted, noted, day, mishaps >>
  BY DEF SweepRemoves
<1>2. /\ images' \in [Messages -> SUBSET Image]
      /\ m \notin sweep => images'[m] = images[m]
  BY DEF SweepRemoves, InboxTypeOK
<1>3. InboxTypeOK'
  BY <1>1, <1>2 DEF InboxTypeOK
<1>4. /\ m \in dir' => m \in dir /\ m \notin sweep
      /\ m \in dir => m \in dir' \/ m \in caught' \/ Old(touched[m])
      /\ m \in caught => m \in caught'
  BY <1>1
<1>5. Placed(m)'
  BY <1>1, <1>4 DEF Kept, Placed, Open, Complete, Old
<1>6. Stands(m)' /\ Stored(m)' /\ Written(m)' /\ CutIsNoted(m)'
  BY <1>1 DEF Kept, Stands, Stored, Written, CutIsNoted, Open, Complete, Goal
<1>7. Rendered(m)'
  BY <1>1, <1>2, <1>4 DEF Kept, Rendered, Complete
<1> QED BY <1>3, <1>5, <1>6, <1>7 DEF Kept

(* Nothing but the clock and the sweep's judgement changes; what is old    *)
(* stays so.                                                               *)
LEMMA JudgeAndTickKept ==
  ASSUME InboxTypeOK, NEW m \in Messages, Kept(m), SweepJudges \/ InboxTick
  PROVE  InboxTypeOK' /\ Kept(m)'
<1>1. /\ UNCHANGED << source, step, dir, touched, chatTime, raw, doc, onDisk, images, prompted,
                      noted, caught, mishaps >>
      /\ day' \in {day, day + 1} /\ sweep' \subseteq Messages
  BY DEF SweepJudges, InboxTick, InboxTypeOK
<1>2. InboxTypeOK'
  BY <1>1 DEF InboxTypeOK
<1>3. touched[m] \in Nat /\ Retention \in Nat /\ day \in Nat
  BY InboxAssumption DEF InboxTypeOK
<1>4. Old(touched[m]) => Old(touched[m])'
  BY <1>1, <1>3 DEF Old
<1>5. Placed(m)'
  BY <1>1, <1>4 DEF Kept, Placed, Open, Complete
<1>6. Stands(m)' /\ Stored(m)' /\ Written(m)' /\ CutIsNoted(m)' /\ Rendered(m)'
  BY <1>1 DEF Kept, Stands, Stored, Written, CutIsNoted, Rendered, Open, Complete, Goal
<1> QED BY <1>2, <1>5, <1>6 DEF Kept

-----------------------------------------------------------------------------
LEMMA InboxInvInit == InboxInit => InboxInv
<1> SUFFICES ASSUME InboxInit PROVE InboxInv
  OBVIOUS
<1>1. /\ step = [m \in Messages |-> "new"] /\ dir = {} /\ prompted = {}
      /\ doc = [m \in Messages |-> << >>]
      /\ source \in [Messages -> Sources]
  BY DEF InboxInit, InboxStart
<1>2. InboxTypeOK
  <2>1. doc \in [Messages -> Seq({"text", "broken", "mark", "image"})]
    BY <1>1
  <2>2. step \in [Messages -> FileSteps \cup PostSteps]
    BY <1>1 DEF FileSteps
  <2> QED BY <1>1, <2>1, <2>2 DEF InboxTypeOK, InboxInit, InboxStart
<1>3. ASSUME NEW m \in Messages PROVE Kept(m)
  <2>1. step[m] = "new" /\ doc[m] = << >> /\ DOMAIN doc[m] = {}
    BY <1>1
  <2>2. Stands(m) /\ Placed(m) /\ Stored(m) /\ CutIsNoted(m)
    BY <1>1, <2>1 DEF Stands, Placed, Stored, CutIsNoted, Open, Complete, PostSteps, FileSteps
  <2>3. Written(m) /\ Rendered(m)
    BY <1>1, <2>1 DEF Written, Rendered, Complete
  <2> QED BY <2>2, <2>3 DEF Kept
<1> QED BY <1>2, <1>3 DEF InboxInv

LEMMA InboxInvStep == InboxInv /\ [InboxNext]_inboxVars => InboxInv'
<1> SUFFICES ASSUME InboxInv, [InboxNext]_inboxVars PROVE InboxInv'
  OBVIOUS
<1>0. InboxTypeOK /\ \A m \in Messages : Kept(m)
  BY DEF InboxInv
<1>1. CASE UNCHANGED inboxVars
  <2>1. InboxTypeOK'
    BY <1>0, <1>1 DEF inboxVars, InboxTypeOK
  <2>2. ASSUME NEW m \in Messages PROVE Kept(m)'
    <3>1. Kept(m)
      BY <1>0
    <3>2. Stands(m)' /\ Placed(m)' /\ Stored(m)'
      BY <1>1, <3>1 DEF inboxVars, Kept, Stands, Placed, Stored, Open, Complete, Old
    <3>3. Written(m)' /\ Rendered(m)' /\ CutIsNoted(m)'
      BY <1>1, <3>1 DEF inboxVars, Kept, Written, Rendered, CutIsNoted, Complete, Goal
    <3> QED BY <3>2, <3>3 DEF Kept
  <2> QED BY <2>1, <2>2 DEF InboxInv
<1>2. ASSUME NEW m \in Messages, InboxTypeOK', Elsewhere(m), Kept(m)' PROVE InboxInv'
  <2>1. \A n \in Messages \ {m} : Kept(n)'
    BY <1>0, <1>2, OthersKept
  <2> QED BY <1>2, <2>1 DEF InboxInv
<1>3. ASSUME NEW m \in Messages,
             \/ BeginFile(m) \/ DownloadFile(m) \/ SaveFile(m)
             \/ CopyText(m) \/ RenderDocx(m) \/ OpenSlides(m) \/ OpenWorkbook(m)
             \/ ConvertFails(m) \/ WriteSlide(m) \/ WriteSheet(m) \/ WriteBreaks(m)
             \/ BeginPost(m) \/ RenderImage(m) \/ WriteBody(m) \/ MakePrompt(m)
      PROVE  InboxInv'
  <2>1. CASE BeginFile(m) \/ BeginPost(m)
    BY <1>0, <1>2, <2>1, BeginKept
  <2>2. CASE DownloadFile(m) \/ SaveFile(m)
    BY <1>0, <1>2, <2>2, DownloadKept, SaveKept
  <2>3. CASE CopyText(m) \/ RenderDocx(m) \/ OpenSlides(m) \/ OpenWorkbook(m)
    BY <1>0, <1>2, <2>3, ConvertKept
  <2>4. CASE ConvertFails(m) \/ WriteBreaks(m)
    BY <1>0, <1>2, <2>4, ConvertFailsKept, WriteBreaksKept
  <2>5. CASE WriteSlide(m) \/ WriteSheet(m)
    BY <1>0, <1>2, <2>5, WritesKept DEF WriteSlide, WriteSheet
  <2>6. CASE RenderImage(m) \/ WriteBody(m) \/ MakePrompt(m)
    BY <1>0, <1>2, <2>6, RenderImageKept, WriteBodyKept, MakePromptKept
  <2> QED BY <1>3, <2>1, <2>2, <2>3, <2>4, <2>5, <2>6
<1>4. CASE SweepRemoves
  <2>1. InboxTypeOK'
    BY <1>4, <1>0 DEF SweepRemoves, InboxTypeOK
  <2>2. \A m \in Messages : Kept(m)'
    BY <1>0, <1>4, SweepRemovesKept
  <2> QED BY <2>1, <2>2 DEF InboxInv
<1>5. CASE SweepJudges \/ InboxTick
  <2>1. InboxTypeOK'
    BY <1>5, <1>0 DEF SweepJudges, InboxTick, InboxTypeOK
  <2>2. \A m \in Messages : Kept(m)'
    BY <1>0, <1>5, JudgeAndTickKept
  <2> QED BY <2>1, <2>2 DEF InboxInv
<1> QED BY <1>1, <1>3, <1>4, <1>5 DEF InboxNext

(* The inductive invariant of the inbox.                                   *)
THEOREM InboxInvariant == InboxSpec => []InboxInv
BY InboxInvInit, InboxInvStep, PTL DEF InboxSpec

(* What a prompt names is complete, whatever failed on the way and however *)
(* the sweep ran meanwhile, unless the sweep caught the directory.         *)
THEOREM PromptedIsWholeHolds == InboxSpec => []PromptedIsWhole
<1>1. InboxInv => PromptedIsWhole
  <2> SUFFICES ASSUME InboxInv, NEW m \in prompted \ caught, ~Old(touched[m])
               PROVE  /\ m \in onDisk
                      /\ IF source[m].kind = "post"
                         THEN /\ Len(doc[m]) = Len(source[m].parts)
                              /\ \A i \in DOMAIN doc[m] : doc[m][i] = "image" =>
                                   [at |-> i, bytes |-> source[m].parts[i]] \in images[m]
                         ELSE /\ raw[m] = source[m].size
                              /\ doc[m] = [i \in 1..Goal(m) |-> PartText(source[m].parts[i])]
                              /\ source[m].kind = "xlsx" /\ Goal(m) < Len(source[m].parts)
                                     => m \in noted
    BY DEF PromptedIsWhole
  <2>1. InboxTypeOK /\ m \in Messages /\ Kept(m) /\ Complete(m) /\ Open(m)
    BY DEF InboxInv, InboxTypeOK, Open, Complete
  <2>2. m \in dir /\ m \in onDisk
    BY <2>1 DEF Kept, Placed
  <2>3. CASE source[m].kind = "post"
    BY <2>1, <2>2, <2>3 DEF Kept, Rendered
  <2>4. CASE source[m].kind # "post"
    <3>1. /\ Len(doc[m]) = Goal(m) /\ raw[m] = source[m].size
          /\ \A i \in DOMAIN doc[m] : doc[m][i] = PartText(source[m].parts[i])
      BY <2>1, <2>4 DEF Kept, Written, Stored
    <3>2. doc[m] \in Seq({"text", "broken", "mark", "image"})
      BY <2>1 DEF InboxTypeOK
    <3>3. doc[m] = [i \in 1..Goal(m) |-> doc[m][i]] /\ DOMAIN doc[m] = 1..Goal(m)
      BY <3>1, <3>2, LenProperties
    <3>4. doc[m] = [i \in 1..Goal(m) |-> PartText(source[m].parts[i])]
      BY <3>1, <3>3
    <3>5. source[m].kind = "xlsx" /\ Goal(m) < Len(source[m].parts) => m \in noted
      BY <2>1 DEF Kept, CutIsNoted
    <3> QED BY <2>2, <2>4, <3>1, <3>4, <3>5
  <2> QED BY <2>2, <2>3, <2>4
<1> QED BY <1>1, InboxInvariant, PTL

=============================================================================
