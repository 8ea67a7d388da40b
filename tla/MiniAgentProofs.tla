--------------------------- MODULE MiniAgentProofs ---------------------------
(***************************************************************************)
(* The safety of the miniagent backend, for any number of prompts, chats,  *)
(* permits and attempts.  The slot of a chat is the lock of everything in  *)
(* it: a turn in flight holds the slot of its chat (SlotHeld), and so does *)
(* the receive loop while it stores a setting (LoopHoldsSlot).             *)
(***************************************************************************)
EXTENDS MiniAgent, TLAPS

Positions == {"idle", "config", "acquire", "start", "drain", "emit", "abort", "end", "done",
              "run", "list", "ask", "wait", "model", "provider"}
Finals == {"none", "aborted"} \cup Terminal
Setting == [model: Turns \cup {NoTurn}, provider: Turns \cup {NoTurn}]
TurnRecord == [chat: Chats \cup {NoTurn}, at: Positions, tries: Nat, final: Finals,
               uses: Setting, since: Nat, resume: BOOLEAN]
PumpRecord == [at: {"none", "read", "push", "wait", "synth", "closed"},
               ev: {"none"} \cup EventKind, got: BOOLEAN]

CliTypes ==
    /\ sem \subseteq Turns
    /\ cancelled \subseteq Turns
    /\ proc \in [Turns -> {"none", "running", "ok", "failed", "killed"}]
    /\ pump \in [Turns -> PumpRecord]
    /\ out \in [Turns -> Seq({"none"} \cup EventKind)]
    /\ lines \in [Turns -> Nat]

AgentTypes ==
    /\ cancelBy \in [Chats -> Turns \cup {NoTurn}]
    /\ turn \in [Turns -> TurnRecord]
    /\ binding \in [Chats -> Setting]
    /\ session \in [Chats -> Nat \cup {NoTurn}]
    /\ epoch \in [Chats -> Nat]
    /\ loop \in [at: {"idle", "provider"}, chat: Chats \cup {NoTurn}, t: Turns \cup {NoTurn}]
    /\ broker \subseteq Turns
    /\ reply \in [Turns -> {"empty", "answer", "closed"}]
    /\ jobs \in [Chats -> Turns \cup {NoTurn}]
    /\ sent \in [Turns -> SUBSET Finals]

\* A turn in flight holds the slot of its chat and belongs to its conversation.
SlotHeld ==
    \A t \in InFlight : /\ turn[t].chat \in Chats
                        /\ cancelBy[turn[t].chat] = t
                        /\ turn[t].since = epoch[turn[t].chat]

\* So does the receive loop between the two fields of a setting.
LoopHoldsSlot ==
    loop.at = "provider" =>
        /\ loop.t \in Turns /\ loop.chat \in Chats
        /\ cancelBy[loop.chat] = loop.t
        /\ turn[loop.t].at = "run"
        /\ \A c \in Chats : jobs[c] # loop.t

\* A job is a command that runs, in the chat whose mutex it holds.
JobsRun ==
    \A c \in Chats : jobs[c] # NoTurn => turn[jobs[c]].at = "run" /\ turn[jobs[c]].chat = c

\* A process and its pump begin together, and only once the turn has a permit.
\* What is no turn yet, or a command, has neither.
Begins == {"idle", "config", "acquire", "start"}
Commands == {"run", "list", "ask", "wait", "model", "provider"}
PumpFollowsTurn ==
    \A t \in Turns :
        /\ pump[t].at = "none" <=> proc[t] = "none"
        /\ turn[t].at \in Begins \cup Commands => pump[t].at = "none"

\* What was sent of a turn agrees with the final control it recorded.
FinalAgrees ==
    \A t \in Turns :
        /\ turn[t].final = "none" => sent[t] = {}
        /\ turn[t].final = "aborted" => sent[t] \subseteq {"aborted"} /\ turn[t].at \in {"end", "done"}
        /\ turn[t].final \in Terminal => sent[t] \subseteq Terminal
        /\ turn[t].at = "emit" => turn[t].final \in Terminal
        /\ turn[t].at \in Begins \cup {"abort"} => turn[t].final = "none"

\* A terminal event is in the channel or was recorded before the channel closes
\* on a process that failed in a turn nobody cancelled.
HasTerminal(t) == turn[t].final # "none" \/ \E i \in 1 .. Len(out[t]) : out[t][i] \in Terminal
DeathsSeen ==
    \A t \in Turns :
        /\ pump[t].got => HasTerminal(t)
        /\ pump[t].at \in {"none", "read", "push"} => ~pump[t].got
        /\ pump[t].at \in {"synth", "closed"} => proc[t] # "running"
        /\ pump[t].at = "closed" /\ proc[t] \in {"failed", "killed"}
               => t \in cancelled \/ HasTerminal(t)
        /\ turn[t].at = "abort" => pump[t].at = "closed"
        /\ turn[t].at \in {"end", "done"} /\ proc[t] # "none"
               => pump[t].at = "closed"
                      /\ (proc[t] \in {"failed", "killed"} => turn[t].final # "none")

AgentInv ==
    /\ CliTypes /\ AgentTypes
    /\ SlotHeld /\ LoopHoldsSlot /\ JobsRun /\ SessionOfEpoch
    /\ PumpFollowsTurn /\ SlotsReturned
    /\ FinalAgrees /\ DeathsSeen

-----------------------------------------------------------------------------
(* Types *)

\* The types of the permits, processes, pumps and channels.
LEMMA CliTypesKept ==
    ASSUME CliTypes, AgentTypes, [AgentNext]_allVars
    PROVE  CliTypes'
<1> USE DEF CliTypes, PumpRecord
<1>1. ASSUME NEW t \in Turns, AcquirePermit(t) PROVE CliTypes'
  BY <1>1 DEF AcquirePermit
<1>2. ASSUME NEW t \in Turns, StartFails(t) PROVE CliTypes'
  BY <1>2 DEF StartFails
<1>3. ASSUME NEW t \in Turns, StartProcess(t) PROVE CliTypes'
  BY <1>3 DEF StartProcess
<1>4. ASSUME NEW t \in Turns, NEW how \in {"ok", "failed", "killed"}, Exit(t, how)
      PROVE  CliTypes'
  BY <1>4 DEF Exit
<1>5. ASSUME NEW t \in Turns, PumpRead(t) PROVE CliTypes'
  <2>1. PICK ev \in EventKind \cup {"none"} :
           pump' = [pump EXCEPT ![t] =
               IF ev = "none" THEN @ ELSE [@ EXCEPT !.at = "push", !.ev = ev]]
    BY <1>5 DEF PumpRead
  <2>2. [pump[t] EXCEPT !.at = "push", !.ev = ev] \in PumpRecord
    OBVIOUS
  <2>3. pump' \in [Turns -> PumpRecord]
    BY <2>1, <2>2
  <2> QED
    BY <1>5, <2>3 DEF PumpRead
<1>6. ASSUME NEW t \in Turns, PumpPush(t) PROVE CliTypes'
  BY <1>6 DEF PumpPush
<1>7. ASSUME NEW t \in Turns, PumpAbandon(t) PROVE CliTypes'
  BY ZenonT(30), <1>7 DEF PumpAbandon
<1>8. ASSUME NEW t \in Turns, PumpEOF(t) PROVE CliTypes'
  BY <1>8 DEF PumpEOF
<1>9. ASSUME NEW t \in Turns, PumpWait(t) PROVE CliTypes'
  <2>1. pump' \in [Turns -> PumpRecord] /\ lines' \in [Turns -> Nat] /\ sem' \subseteq Turns
    <3>1. CASE PumpClose(t)
      BY <3>1 DEF PumpClose
    <3>2. CASE pump' = [pump EXCEPT ![t].at = "synth"] /\ UNCHANGED << sem, lines >>
      BY <3>2
    <3> QED
      BY <1>9, <3>1, <3>2 DEF PumpWait
  <2> QED
    BY <1>9, <2>1 DEF PumpWait
<1>10. ASSUME NEW t \in Turns, PumpSynth(t) PROVE CliTypes'
  <2>1. pump' \in [Turns -> PumpRecord] /\ lines' \in [Turns -> Nat] /\ sem' \subseteq Turns
    BY <1>10 DEF PumpSynth, PumpClose
  <2>2. Append(out[t], "error") \in Seq({"none"} \cup EventKind)
    BY DEF EventKind, Terminal
  <2>3. out' \in [Turns -> Seq({"none"} \cup EventKind)]
    BY <1>10, <2>2 DEF PumpSynth
  <2> QED
    BY <1>10, <2>1, <2>3 DEF PumpSynth
<1>11. ASSUME NEW t \in Turns, Received(t) PROVE CliTypes'
  BY <1>11 DEF Received
<1>12. ASSUME NEW c \in Chats, AbortChat(c) PROVE CliTypes'
  BY <1>12 DEF AbortChat, AgentTypes
<1>13. CASE Close
  BY <1>13 DEF Close, AgentTypes
<1>14. CASE UNCHANGED cliVars
  BY <1>14 DEF cliVars
<1> HIDE DEF CliTypes, PumpRecord
<1>15. ASSUME NEW t \in Turns,
              Pump(t) \/ CliEnds(t) \/ CliKilled(t)
       PROVE  CliTypes'
  BY <1>4, <1>5, <1>6, <1>7, <1>8, <1>9, <1>10, <1>15
     DEF Pump, PumpStep, CliEnds, CliKilled, GroupKilled
<1>16. ASSUME NEW t \in Turns, TurnStep(t) \/ TurnStartFails(t)
       PROVE  CliTypes'
  BY <1>1, <1>2, <1>3, <1>11, <1>14, <1>16 DEF TurnStep, TurnStartFails, TurnConfig,
     TurnAcquire, TurnStart, TurnEvent, TurnEmit, TurnDrained, TurnAbortNotice, EndTurn
<1>17. ASSUME NEW t \in Turns,
              Event(t) \/ PickerStep(t) \/ JobEnds(t) \/ DeliverAnswer(t)
       PROVE  CliTypes'
  BY <1>14, <1>17 DEF Event, StartTurn, RejectPrompt, CmdModelSpec, CmdPicker, CmdJob,
     PickerStep, PickerList, PickerAsk, PickerAnswered, PickerGivesUp, PickerSetModel,
     PickerSetProvider, JobEnds, DeliverAnswer
<1>18. ASSUME NEW c \in Chats, CmdNew(c) PROVE CliTypes'
  BY <1>14, <1>18 DEF CmdNew
<1>19. CASE CmdModelProvider \/ CloseReturns \/ UNCHANGED allVars
  BY <1>14, <1>19 DEF CmdModelProvider, CloseReturns, allVars
<1> QED
  BY <1>12, <1>13, <1>15, <1>16, <1>17, <1>18, <1>19 DEF AgentNext

\* A setting with one field stored.
LEMMA Settings ==
    ASSUME NEW r \in Setting, NEW t \in Turns \cup {NoTurn}
    PROVE  [r EXCEPT !.model = t] \in Setting /\ [r EXCEPT !.provider = t] \in Setting
BY DEF Setting

\* What a move of one turn leaves of it and of the others.
LEMMA AtMoves ==
    ASSUME AgentTypes, NEW t \in Turns, NEW pos \in Positions, At(t, pos)
    PROVE  /\ turn' \in [Turns -> TurnRecord]
           /\ \A u \in Turns : u # t => turn'[u] = turn[u]
           /\ turn'[t].at = pos /\ turn'[t].chat = turn[t].chat
           /\ turn'[t].since = turn[t].since /\ turn'[t].final = turn[t].final
           /\ turn'[t].resume = turn[t].resume
BY ZenonT(30) DEF At, AgentTypes, TurnRecord

\* What the choice of the model keeps of a turn.
LEMMA ConfigKeepsFinal ==
    ASSUME AgentTypes, NEW t \in Turns, TurnConfig(t)
    PROVE  turn'[t].final = turn[t].final
<1>1. PICK u, r : turn' = [turn EXCEPT ![t].at = "acquire", ![t].uses = u, ![t].resume = r]
  BY Zenon DEF TurnConfig
<1>2. turn \in [Turns -> TurnRecord]
  BY DEF AgentTypes
<1> QED
  BY ONLY <1>1, <1>2, t \in Turns DEF TurnRecord

\* What the arrival of a prompt makes of its turn.
LEMMA Arrived ==
    ASSUME AgentTypes, NEW t \in Turns, NEW c \in Chats, NEW pos \in Positions,
           turn' = [turn EXCEPT ![t].chat = c, ![t].at = pos]
    PROVE  /\ turn' \in [Turns -> TurnRecord]
           /\ \A u \in Turns : u # t => turn'[u] = turn[u]
           /\ turn'[t].at = pos /\ turn'[t].chat = c
           /\ turn'[t].since = turn[t].since /\ turn'[t].final = turn[t].final
<1>1. turn' = [turn EXCEPT ![t] = [turn[t] EXCEPT !.chat = c, !.at = pos]]
  BY DEF AgentTypes
<1>2. turn \in [Turns -> TurnRecord] /\ turn[t] \in TurnRecord
  BY DEF AgentTypes
<1>3. [turn[t] EXCEPT !.chat = c, !.at = pos] \in TurnRecord
  BY <1>2 DEF TurnRecord
<1> QED
  BY <1>1, <1>2, <1>3 DEF TurnRecord

\* The types of the rest: prompts and commands ...
LEMMA EventTypes ==
    ASSUME AgentTypes, NEW t \in Turns, Event(t)
    PROVE  AgentTypes'
<1> USE DEF AgentTypes, Positions
<1>1. ASSUME NEW c \in Chats, StartTurn(t, c) PROVE AgentTypes'
  <2>1. turn' = [turn EXCEPT ![t] = [turn[t] EXCEPT !.chat = c, !.at = "config", !.since = epoch[c]]]
    BY <1>1 DEF StartTurn
  <2>2. [turn[t] EXCEPT !.chat = c, !.at = "config", !.since = epoch[c]] \in TurnRecord
    <3>1. turn[t] \in TurnRecord /\ epoch[c] \in Nat /\ "config" \in Positions
      OBVIOUS
    <3> QED
      BY ONLY <3>1 DEF TurnRecord
  <2>3. turn' \in [Turns -> TurnRecord]
    BY <2>1, <2>2
  <2> QED
    BY <1>1, <2>3 DEF StartTurn
<1>2. ASSUME NEW c \in Chats, RejectPrompt(t, c) PROVE AgentTypes'
  BY <1>2, Arrived DEF RejectPrompt
<1>3. ASSUME NEW c \in Chats, CmdModelSpec(t, c) PROVE AgentTypes'
  <2>1. turn' \in [Turns -> TurnRecord]
    BY <1>3, Arrived DEF CmdModelSpec
  <2>2. binding' \in [Chats -> Setting]
    BY <1>3, Settings DEF CmdModelSpec
  <2> QED
    BY <1>3, <2>1, <2>2 DEF CmdModelSpec
<1>4. ASSUME NEW c \in Chats, CmdPicker(t, c) PROVE AgentTypes'
  BY <1>4, Arrived DEF CmdPicker
<1>5. ASSUME NEW c \in Chats, CmdJob(t, c) PROVE AgentTypes'
  <2>1. turn' \in [Turns -> TurnRecord]
    BY <1>5, Arrived DEF CmdJob
  <2> QED
    BY <1>5, <2>1 DEF CmdJob
<1> QED
  BY <1>1, <1>2, <1>3, <1>4, <1>5 DEF Event

\* ... pickers and jobs ...
LEMMA PickerTypes ==
    ASSUME AgentTypes, NEW t \in Turns, PickerStep(t) \/ JobEnds(t) \/ DeliverAnswer(t)
    PROVE  AgentTypes'
<1> USE DEF AgentTypes, Positions
<1>1. CASE PickerList(t)
  BY <1>1, AtMoves DEF PickerList
<1>2. CASE PickerAsk(t)
  BY <1>2, AtMoves DEF PickerAsk
<1>3. CASE PickerAnswered(t)
  BY <1>3, AtMoves DEF PickerAnswered
<1>4. CASE PickerGivesUp(t)
  BY <1>4, AtMoves DEF PickerGivesUp
<1>5. CASE PickerSetModel(t)
  <2>1. turn' \in [Turns -> TurnRecord]
    BY <1>5, AtMoves DEF PickerSetModel
  <2>2. binding' \in [Chats -> Setting]
    BY <1>5, Settings DEF PickerSetModel
  <2> QED
    BY <1>5, <2>1, <2>2 DEF PickerSetModel
<1>6. CASE PickerSetProvider(t)
  <2>1. turn' \in [Turns -> TurnRecord]
    BY <1>6, AtMoves DEF PickerSetProvider
  <2>2. binding' \in [Chats -> Setting]
    BY <1>6, Settings DEF PickerSetProvider
  <2> QED
    BY <1>6, <2>1, <2>2 DEF PickerSetProvider
<1>7. CASE JobEnds(t)
  BY <1>7, AtMoves DEF JobEnds
<1>8. CASE DeliverAnswer(t)
  BY <1>8 DEF DeliverAnswer
<1> QED
  BY <1>1, <1>2, <1>3, <1>4, <1>5, <1>6, <1>7, <1>8 DEF PickerStep

\* ... and turns.
LEMMA TurnTypes ==
    ASSUME AgentTypes, SlotHeld, NEW t \in Turns, TurnStep(t) \/ TurnStartFails(t)
    PROVE  AgentTypes'
<1> USE DEF AgentTypes, Positions
<1>0. ASSUME NEW kind \in Terminal, ToEmit(t, kind)
      PROVE  turn' \in [Turns -> TurnRecord]
  <2>1. turn' = [turn EXCEPT ![t] = [turn[t] EXCEPT !.at = "emit", !.final = kind, !.tries = 0]]
    BY <1>0 DEF ToEmit
  <2>2. turn[t] \in TurnRecord /\ "emit" \in Positions /\ kind \in Finals
    BY DEF Finals
  <2>3. [turn[t] EXCEPT !.at = "emit", !.final = kind, !.tries = 0] \in TurnRecord
    BY ONLY <2>2 DEF TurnRecord
  <2> QED
    BY <2>1, <2>3
<1>1. CASE TurnConfig(t)
  <2> DEFINE b == binding[turn[t].chat]
             u == IF b.model = NoTurn THEN Unset ELSE b
             r == session[turn[t].chat] # NoTurn
  <2>1. turn' = [turn EXCEPT ![t] = [turn[t] EXCEPT !.at = "acquire", !.uses = u, !.resume = r]]
    BY <1>1 DEF TurnConfig
  <2>2. u \in Setting /\ r \in BOOLEAN
    BY <1>1 DEF Unset, Setting, SlotHeld, InFlight, TurnConfig
  <2> HIDE DEF u, r
  <2>3. turn[t] \in TurnRecord /\ "acquire" \in Positions
    OBVIOUS
  <2>4. [turn[t] EXCEPT !.at = "acquire", !.uses = u, !.resume = r] \in TurnRecord
    BY ONLY <2>2, <2>3 DEF TurnRecord
  <2>5. turn' \in [Turns -> TurnRecord]
    BY <2>1, <2>4
  <2> QED
    BY <1>1, <2>5 DEF TurnConfig
<1>2. CASE TurnAcquire(t)
  BY <1>2, AtMoves DEF TurnAcquire
<1>3. CASE TurnStart(t)
  BY <1>3, AtMoves DEF TurnStart
<1>4. CASE TurnEvent(t)
  BY <1>0, <1>4 DEF TurnEvent, TurnRecord
<1>5. CASE TurnEmit(t)
  <2>1. turn[t] \in TurnRecord /\ sent[t] \in SUBSET Finals
    OBVIOUS
  <2>2. /\ \A pos \in Positions, n \in Nat : [turn[t] EXCEPT !.at = pos, !.tries = n] \in TurnRecord
        /\ \A n \in Nat : [turn[t] EXCEPT !.tries = n] \in TurnRecord
    BY ONLY <2>1 DEF TurnRecord
  <2>3. turn[t].tries + 1 \in Nat /\ turn[t].final \in Finals
    BY <2>1 DEF TurnRecord
  <2>4. AfterEmit(t) => turn' \in [Turns -> TurnRecord]
    <3> DEFINE pos == IF proc[t] = "none" THEN "end" ELSE "drain"
    <3>1. AfterEmit(t) => turn' = [turn EXCEPT ![t] = [turn[t] EXCEPT !.at = pos, !.tries = 0]]
      BY DEF AfterEmit
    <3>2. pos \in Positions
      OBVIOUS
    <3> HIDE DEF pos
    <3>3. [turn[t] EXCEPT !.at = pos, !.tries = 0] \in TurnRecord
      BY <2>2, <3>2
    <3> QED
      BY <3>1, <3>3
  <2>5. turn' \in [Turns -> TurnRecord]
    BY <1>5, <2>2, <2>3, <2>4 DEF TurnEmit
  <2>6. sent' \in [Turns -> SUBSET Finals]
    BY <1>5, <2>3 DEF TurnEmit, Notify
  <2> QED
    BY <1>5, <2>5, <2>6 DEF TurnEmit
<1>6. CASE TurnDrained(t)
  BY <1>6, AtMoves DEF TurnDrained
<1>7. CASE TurnAbortNotice(t)
  <2>1. turn[t] \in TurnRecord /\ "end" \in Positions /\ "aborted" \in Finals
    BY DEF Finals
  <2>2. [turn[t] EXCEPT !.at = "end", !.final = "aborted"] \in TurnRecord
    BY ONLY <2>1 DEF TurnRecord
  <2>3. turn' = [turn EXCEPT ![t] = [turn[t] EXCEPT !.at = "end", !.final = "aborted"]]
    BY <1>7 DEF TurnAbortNotice
  <2>4. sent' \in [Turns -> SUBSET Finals]
    BY <1>7, <2>1 DEF TurnAbortNotice, Notify
  <2>5. turn' \in [Turns -> TurnRecord]
    BY <2>2, <2>3
  <2> QED
    BY <1>7, <2>4, <2>5 DEF TurnAbortNotice
<1>8. CASE EndTurn(t)
  BY <1>8, AtMoves DEF EndTurn
<1>9. CASE TurnStartFails(t)
  BY <1>0, <1>9 DEF TurnStartFails, Terminal
<1> QED
  BY <1>1, <1>2, <1>3, <1>4, <1>5, <1>6, <1>7, <1>8, <1>9 DEF TurnStep

\* Every step keeps the types of the handler's state.
LEMMA AgentTypesKept ==
    ASSUME AgentTypes, SlotHeld, LoopHoldsSlot, [AgentNext]_allVars
    PROVE  AgentTypes'
<1>1. ASSUME UNCHANGED agentVars PROVE AgentTypes'
  BY <1>1 DEF agentVars, AgentTypes
<1>2. ASSUME NEW t \in Turns, Pump(t) \/ CliEnds(t) \/ CliKilled(t)
      PROVE  AgentTypes'
  BY <1>1, <1>2 DEF Pump, CliEnds, CliKilled
<1>3. ASSUME NEW c \in Chats, AbortChat(c) \/ CmdNew(c)
      PROVE  AgentTypes'
  BY <1>1, <1>3 DEF AbortChat, CmdNew, AgentTypes
<1>4. CASE CmdModelProvider
  <2>1. loop.t \in Turns /\ loop.chat \in Chats
    BY <1>4 DEF CmdModelProvider, LoopHoldsSlot
  <2>2. turn' \in [Turns -> TurnRecord]
    BY <1>4, <2>1, AtMoves DEF CmdModelProvider, Positions
  <2>3. binding' \in [Chats -> Setting]
    BY <1>4, <2>1, Settings DEF CmdModelProvider, AgentTypes
  <2> QED
    BY <1>4, <2>1, <2>2, <2>3 DEF CmdModelProvider, AgentTypes
<1>5. CASE Close \/ CloseReturns
  BY <1>5 DEF Close, CloseReturns, AgentTypes
<1>6. CASE UNCHANGED allVars
  BY <1>1, <1>6 DEF allVars
<1> QED
  BY <1>2, <1>3, <1>4, <1>5, <1>6, EventTypes, PickerTypes, TurnTypes DEF AgentNext

-----------------------------------------------------------------------------
(* The slot of a chat *)

Locks == SlotHeld /\ LoopHoldsSlot /\ JobsRun /\ SessionOfEpoch

\* A step that moves one turn on, which is no running command, and takes or
\* gives back no lock.
MovesOn(t) ==
    /\ UNCHANGED << cancelBy, epoch, loop, jobs >>
    /\ \A u \in Turns : u # t => turn'[u] = turn[u]
    /\ turn[t].at # "run"
    /\ t \in InFlight' => /\ t \in InFlight
                          /\ turn'[t].chat = turn[t].chat /\ turn'[t].since = turn[t].since

\* Such a step keeps the locks.
LEMMA MovesOnKeepsLocks ==
    ASSUME AgentTypes, Locks, NEW t \in Turns, MovesOn(t), SessionOfEpoch'
    PROVE  Locks'
<1>1. SlotHeld'
  BY DEF Locks, SlotHeld, MovesOn, InFlight
<1>2. LoopHoldsSlot'
  BY DEF Locks, LoopHoldsSlot, MovesOn
<1>3. JobsRun'
  BY DEF Locks, JobsRun, MovesOn, AgentTypes
<1> QED
  BY <1>1, <1>2, <1>3 DEF Locks

\* The steps of turns and pickers, but for the end of a turn.
LEMMA TurnsMoveOn ==
    ASSUME AgentTypes, NEW t \in Turns,
           \/ TurnConfig(t) \/ TurnAcquire(t) \/ TurnStart(t) \/ TurnEvent(t) \/ TurnEmit(t)
           \/ TurnDrained(t) \/ TurnAbortNotice(t) \/ TurnStartFails(t) \/ PickerStep(t)
    PROVE  MovesOn(t)
<1> USE DEF MovesOn, InFlight, Positions
<1>0. ASSUME turn[t].at \in {"config", "acquire", "start", "drain", "emit", "abort"},
             turn'[t].chat = turn[t].chat, turn'[t].since = turn[t].since,
             \A u \in Turns : u # t => turn'[u] = turn[u],
             UNCHANGED << cancelBy, epoch, loop, jobs >>
      PROVE  MovesOn(t)
  BY <1>0
<1>1. CASE TurnConfig(t)
  BY SMTT(30), <1>1, <1>0 DEF TurnConfig, AgentTypes, TurnRecord
<1>2. CASE TurnAcquire(t)
  BY <1>2, <1>0, AtMoves DEF TurnAcquire
<1>3. CASE TurnStart(t)
  BY <1>3, <1>0, AtMoves DEF TurnStart
<1>4. CASE TurnEvent(t)
  BY <1>4, <1>0 DEF TurnEvent, ToEmit, AgentTypes, TurnRecord
<1>5. CASE TurnEmit(t)
  BY <1>5, <1>0 DEF TurnEmit, AfterEmit, AgentTypes, TurnRecord
<1>6. CASE TurnDrained(t)
  BY <1>6, <1>0, AtMoves DEF TurnDrained
<1>7. CASE TurnAbortNotice(t)
  BY <1>7, <1>0 DEF TurnAbortNotice, AgentTypes, TurnRecord
<1>8. CASE TurnStartFails(t)
  BY <1>8, <1>0 DEF TurnStartFails, ToEmit, AgentTypes, TurnRecord
<1>9. CASE PickerStep(t)
  <2>1. PICK pos \in {"ask", "done", "wait", "model", "provider"} : At(t, pos)
    BY <1>9 DEF PickerStep, PickerList, PickerAsk, PickerAnswered, PickerGivesUp,
       PickerSetModel, PickerSetProvider
  <2>2. turn[t].at \in {"list", "ask", "wait", "model", "provider"}
        /\ UNCHANGED << cancelBy, epoch, loop, jobs >>
    BY <1>9 DEF PickerStep, PickerList, PickerAsk, PickerAnswered, PickerGivesUp,
       PickerSetModel, PickerSetProvider
  <2>3. pos \in Positions
    BY <2>1
  <2> QED
    BY <2>1, <2>2, <2>3, AtMoves
<1> QED
  BY <1>1, <1>2, <1>3, <1>4, <1>5, <1>6, <1>7, <1>8, <1>9

\* The arrival of a prompt: a turn or a command takes the slot only when it is
\* free, that is when no turn of the chat is in flight.
LEMMA EventLocks ==
    ASSUME AgentTypes, Locks, NEW t \in Turns, Event(t)
    PROVE  Locks'
<1> USE DEF Positions
<1>0. ASSUME NEW c \in Chats, cancelBy[c] = NoTurn
      PROVE  \A u \in InFlight : turn[u].chat # c
  BY <1>0, AgentAssumption DEF Locks, SlotHeld, InFlight
<1>00. turn[t].at = "idle" => \A c \in Chats : jobs[c] # t
  BY AgentAssumption DEF Locks, JobsRun
<1>1. ASSUME NEW c \in Chats, StartTurn(t, c) PROVE Locks'
  <2>1. /\ turn[t].at = "idle" /\ loop.at = "idle" /\ cancelBy[c] = NoTurn
        /\ cancelBy' = [cancelBy EXCEPT ![c] = t]
        /\ UNCHANGED << epoch, loop, jobs, session >>
    BY <1>1 DEF StartTurn, Arrives, Accepts
  <2>2. /\ turn'[t].chat = c /\ turn'[t].at = "config" /\ turn'[t].since = epoch[c]
        /\ \A u \in Turns : u # t => turn'[u] = turn[u]
    BY <1>1 DEF StartTurn, AgentTypes, TurnRecord
  <2>3. SlotHeld'
    BY <1>0, <2>1, <2>2 DEF Locks, SlotHeld, InFlight, AgentTypes
  <2>4. LoopHoldsSlot' /\ JobsRun' /\ SessionOfEpoch'
    BY <1>00, <2>1, <2>2 DEF Locks, LoopHoldsSlot, JobsRun, SessionOfEpoch, AgentTypes
  <2> QED
    BY <2>3, <2>4 DEF Locks
<1>2. ASSUME NEW c \in Chats, RejectPrompt(t, c) \/ CmdPicker(t, c) PROVE Locks'
  <2>1. MovesOn(t)
    BY <1>2, Arrived DEF RejectPrompt, CmdPicker, Arrives, MovesOn, InFlight
  <2>2. SessionOfEpoch'
    BY <1>2 DEF RejectPrompt, CmdPicker, Locks, SessionOfEpoch
  <2> QED
    BY <2>1, <2>2, MovesOnKeepsLocks
<1>3. ASSUME NEW c \in Chats, CmdModelSpec(t, c) PROVE Locks'
  <2>1. /\ turn[t].at = "idle" /\ loop.at = "idle" /\ cancelBy[c] = NoTurn
        /\ cancelBy' = [cancelBy EXCEPT ![c] = t]
        /\ loop' = [at |-> "provider", chat |-> c, t |-> t]
        /\ UNCHANGED << epoch, jobs, session >>
    BY <1>3 DEF CmdModelSpec, Arrives, Accepts
  <2>2. turn'[t].at = "run" /\ \A u \in Turns : u # t => turn'[u] = turn[u]
    BY <1>3, Arrived DEF CmdModelSpec
  <2>3. SlotHeld'
    BY <1>0, <2>1, <2>2 DEF Locks, SlotHeld, InFlight, AgentTypes
  <2>4. LoopHoldsSlot'
    BY <1>00, <2>1, <2>2 DEF LoopHoldsSlot, AgentTypes
  <2>5. JobsRun' /\ SessionOfEpoch'
    BY <1>00, <2>1, <2>2 DEF Locks, JobsRun, SessionOfEpoch, AgentTypes
  <2> QED
    BY <2>3, <2>4, <2>5 DEF Locks
<1>4. ASSUME NEW c \in Chats, CmdJob(t, c) PROVE Locks'
  <2>1. /\ turn[t].at = "idle" /\ loop.at = "idle"
        /\ UNCHANGED << cancelBy, loop, epoch, session >>
    BY <1>4 DEF CmdJob, Arrives, Accepts
  <2>2. \/ jobs[c] = NoTurn /\ jobs' = [jobs EXCEPT ![c] = t] /\ turn'[t].at = "run"
        \/ jobs' = jobs /\ turn'[t].at = "done"
    BY <1>4, Arrived DEF CmdJob
  <2>3. turn'[t].chat = c /\ \A u \in Turns : u # t => turn'[u] = turn[u]
    BY ZenonT(30), <1>4, Arrived DEF CmdJob
  <2>4. SlotHeld'
    BY <2>1, <2>2, <2>3 DEF Locks, SlotHeld, InFlight
  <2>5. LoopHoldsSlot' /\ SessionOfEpoch'
    BY <2>1 DEF Locks, LoopHoldsSlot, SessionOfEpoch
  <2>6. JobsRun'
    BY <1>00, <2>1, <2>2, <2>3 DEF Locks, JobsRun, AgentTypes
  <2> QED
    BY <2>4, <2>5, <2>6 DEF Locks
<1> QED
  BY <1>1, <1>2, <1>3, <1>4 DEF Event

\* What gives a slot or a mutex back, and /new.
LEMMA ReleaseLocks ==
    ASSUME AgentTypes, Locks,
           \/ CmdModelProvider
           \/ \E t \in Turns : JobEnds(t) \/ EndTurn(t)
           \/ \E c \in Chats : CmdNew(c)
    PROVE  Locks'
<1> USE DEF Positions
<1>1. CASE CmdModelProvider
  <2>1. /\ loop.at = "provider" /\ loop'.at = "idle" /\ loop.t \in Turns /\ loop.chat \in Chats
        /\ cancelBy' = [cancelBy EXCEPT ![loop.chat] = NoTurn]
        /\ UNCHANGED << epoch, jobs, session >>
        /\ cancelBy[loop.chat] = loop.t /\ turn[loop.t].at = "run"
        /\ \A c \in Chats : jobs[c] # loop.t
    BY <1>1 DEF CmdModelProvider, Locks, LoopHoldsSlot
  <2>2. turn'[loop.t].at = "done" /\ \A u \in Turns : u # loop.t => turn'[u] = turn[u]
    BY <1>1, <2>1, AtMoves DEF CmdModelProvider
  <2>3. SlotHeld'
    BY <2>1, <2>2 DEF Locks, SlotHeld, InFlight, AgentTypes
  <2> QED
    BY <2>1, <2>2, <2>3 DEF Locks, LoopHoldsSlot, JobsRun, SessionOfEpoch, AgentTypes
<1>2. ASSUME NEW t \in Turns, JobEnds(t) PROVE Locks'
  <2>1. /\ turn[t].chat \in Chats /\ jobs[turn[t].chat] = t
        /\ jobs' = [jobs EXCEPT ![turn[t].chat] = NoTurn]
        /\ UNCHANGED << cancelBy, epoch, loop, session >>
    BY <1>2 DEF JobEnds, AgentTypes, TurnRecord
  <2>2. turn'[t].at = "done" /\ \A u \in Turns : u # t => turn'[u] = turn[u]
    BY <1>2, AtMoves DEF JobEnds
  <2>3. turn[t].at = "run"
    BY <2>1, AgentAssumption DEF Locks, JobsRun
  <2>4. SlotHeld'
    BY <2>1, <2>2 DEF Locks, SlotHeld, InFlight
  <2>5. LoopHoldsSlot'
    BY <2>1, <2>2, AgentAssumption DEF Locks, LoopHoldsSlot, AgentTypes
  <2>6. JobsRun' /\ SessionOfEpoch'
    BY <2>1, <2>2 DEF Locks, JobsRun, SessionOfEpoch, AgentTypes
  <2> QED
    BY <2>4, <2>5, <2>6 DEF Locks
<1>3. ASSUME NEW t \in Turns, EndTurn(t) PROVE Locks'
  <2>1. /\ turn[t].at = "end"
        /\ \A c \in Chats : cancelBy'[c] = IF cancelBy[c] = t THEN NoTurn ELSE cancelBy[c]
        /\ UNCHANGED << epoch, loop, jobs, session >>
    BY <1>3 DEF EndTurn
  <2>2. turn'[t].at = "done" /\ \A u \in Turns : u # t => turn'[u] = turn[u]
    BY <1>3, AtMoves DEF EndTurn
  <2>3. SlotHeld'
    BY <2>1, <2>2 DEF Locks, SlotHeld, InFlight
  <2>4. LoopHoldsSlot'
    BY <2>1, <2>2 DEF Locks, LoopHoldsSlot
  <2>5. JobsRun' /\ SessionOfEpoch'
    BY <2>1, <2>2 DEF Locks, JobsRun, SessionOfEpoch, AgentTypes
  <2> QED
    BY <2>3, <2>4, <2>5 DEF Locks
<1>4. ASSUME NEW c \in Chats, CmdNew(c) PROVE Locks'
  <2>1. /\ cancelBy[c] = NoTurn /\ epoch' = [epoch EXCEPT ![c] = @ + 1]
        /\ session' = [session EXCEPT ![c] = NoTurn]
        /\ UNCHANGED << cancelBy, turn, loop, jobs >>
    BY <1>4 DEF CmdNew, Accepts
  <2>2. SlotHeld'
    BY <2>1, AgentAssumption DEF Locks, SlotHeld, InFlight, AgentTypes
  <2>3. LoopHoldsSlot' /\ JobsRun' /\ SessionOfEpoch'
    BY <2>1 DEF Locks, LoopHoldsSlot, JobsRun, SessionOfEpoch, AgentTypes
  <2> QED
    BY <2>2, <2>3 DEF Locks
<1> QED
  BY <1>1, <1>2, <1>3, <1>4

\* Every step keeps the locks.
LEMMA LocksKept ==
    ASSUME AgentTypes, Locks, [AgentNext]_allVars
    PROVE  Locks'
<1>1. ASSUME UNCHANGED << cancelBy, turn, session, epoch, loop, jobs >> PROVE Locks'
  BY <1>1 DEF Locks, SlotHeld, InFlight, LoopHoldsSlot, JobsRun, SessionOfEpoch
<1>2. ASSUME NEW t \in Turns, TurnEvent(t) PROVE Locks'
  <2>1. SessionOfEpoch'
    BY <1>2 DEF TurnEvent, Locks, SlotHeld, InFlight, SessionOfEpoch, AgentTypes
  <2> QED
    BY <1>2, <2>1, TurnsMoveOn, MovesOnKeepsLocks
<1>3. ASSUME NEW t \in Turns,
             \/ TurnConfig(t) \/ TurnAcquire(t) \/ TurnStart(t) \/ TurnEmit(t)
             \/ TurnDrained(t) \/ TurnAbortNotice(t) \/ TurnStartFails(t) \/ PickerStep(t)
      PROVE  Locks'
  <2>1. UNCHANGED << session, epoch >>
    BY <1>3 DEF TurnConfig, TurnAcquire, TurnStart, TurnEmit, TurnDrained, TurnAbortNotice,
       TurnStartFails, PickerStep, PickerList, PickerAsk, PickerAnswered, PickerGivesUp,
       PickerSetModel, PickerSetProvider
  <2>2. SessionOfEpoch'
    BY <2>1 DEF Locks, SessionOfEpoch
  <2> QED
    BY <1>3, <2>2, TurnsMoveOn, MovesOnKeepsLocks
<1>4. ASSUME NEW t \in Turns, Pump(t) \/ CliEnds(t) \/ CliKilled(t) \/ DeliverAnswer(t)
      PROVE  Locks'
  BY <1>1, <1>4 DEF Pump, CliEnds, CliKilled, DeliverAnswer, agentVars
<1>5. ASSUME NEW c \in Chats, AbortChat(c) PROVE Locks'
  BY <1>1, <1>5 DEF AbortChat, agentVars
<1>6. CASE Close \/ CloseReturns \/ UNCHANGED allVars
  BY <1>1, <1>6 DEF Close, CloseReturns, allVars, agentVars
<1> QED
  BY <1>2, <1>3, <1>4, <1>5, <1>6, EventLocks, ReleaseLocks DEF AgentNext, TurnStep

-----------------------------------------------------------------------------
(* Permits *)

\* The move of one turn from one set of positions to another.
Moves(t, from, to) ==
    /\ turn[t].at \in from /\ turn'[t].at \in to
    /\ \A u \in Turns : u # t => turn'[u] = turn[u]

\* Where the steps of prompts, commands and pickers lead.
LEMMA CommandMoves ==
    ASSUME AgentTypes, Locks, NEW t \in Turns
    PROVE  /\ Event(t) => Moves(t, {"idle"}, {"config", "run", "list", "done"})
           /\ PickerStep(t) => Moves(t, Commands, Commands \cup {"done"})
           /\ JobEnds(t) => Moves(t, {"run"}, {"done"})
           /\ CmdModelProvider => Moves(loop.t, {"run"}, {"done"})
<1> USE DEF Moves, Positions
<1>1. ASSUME NEW c \in Chats, StartTurn(t, c) PROVE Moves(t, {"idle"}, {"config"})
  BY <1>1 DEF StartTurn, Arrives, AgentTypes, TurnRecord
<1>2. ASSUME NEW c \in Chats, RejectPrompt(t, c) \/ CmdPicker(t, c) \/ CmdModelSpec(t, c)
             \/ CmdJob(t, c)
      PROVE  Moves(t, {"idle"}, {"run", "list", "done"})
  BY <1>2, Arrived DEF RejectPrompt, CmdPicker, CmdModelSpec, CmdJob, Arrives
<1>3. Event(t) => Moves(t, {"idle"}, {"config", "run", "list", "done"})
  BY <1>1, <1>2 DEF Event
<1>4. ASSUME PickerStep(t) PROVE Moves(t, Commands, Commands \cup {"done"})
  <2>1. PICK pos \in {"ask", "done", "wait", "model", "provider"} : At(t, pos)
    BY <1>4 DEF PickerStep, PickerList, PickerAsk, PickerAnswered, PickerGivesUp,
       PickerSetModel, PickerSetProvider
  <2>2. turn[t].at \in Commands
    BY <1>4 DEF PickerStep, PickerList, PickerAsk, PickerAnswered, PickerGivesUp,
       PickerSetModel, PickerSetProvider, Commands
  <2>3. pos \in Positions /\ pos \in Commands \cup {"done"}
    BY <2>1 DEF Commands
  <2> QED
    BY <2>1, <2>2, <2>3, AtMoves
<1>5. ASSUME JobEnds(t) PROVE Moves(t, {"run"}, {"done"})
  BY <1>5, AtMoves, AgentAssumption DEF JobEnds, Locks, JobsRun, AgentTypes, TurnRecord
<1>6. ASSUME CmdModelProvider PROVE Moves(loop.t, {"run"}, {"done"})
  BY <1>6, AtMoves DEF CmdModelProvider, Locks, LoopHoldsSlot
<1> QED
  BY <1>3, <1>4, <1>5, <1>6

\* Where the steps of a turn lead.
LEMMA TurnMoves ==
    ASSUME AgentTypes, NEW t \in Turns
    PROVE  /\ TurnConfig(t) => Moves(t, {"config"}, {"acquire"})
           /\ TurnAcquire(t) => Moves(t, {"acquire"}, {"start"})
           /\ TurnStart(t) => Moves(t, {"start"}, {"drain"})
           /\ TurnStartFails(t) => Moves(t, {"acquire", "start"}, {"emit"})
           /\ TurnEvent(t) => Moves(t, {"drain"}, {"drain", "emit"})
           /\ TurnEmit(t) => Moves(t, {"emit"}, {"emit", "drain", "end"})
           /\ TurnDrained(t) => Moves(t, {"drain"}, {"abort", "end"})
           /\ TurnAbortNotice(t) => Moves(t, {"abort"}, {"end"})
           /\ EndTurn(t) => Moves(t, {"end"}, {"done"})
<1> USE DEF Moves, Positions
<1>1. TurnConfig(t) => Moves(t, {"config"}, {"acquire"})
  BY DEF TurnConfig, AgentTypes, TurnRecord
<1>2. TurnAcquire(t) => Moves(t, {"acquire"}, {"start"})
  BY AtMoves DEF TurnAcquire
<1>3. TurnStart(t) => Moves(t, {"start"}, {"drain"})
  BY AtMoves DEF TurnStart
<1>4. TurnStartFails(t) => Moves(t, {"acquire", "start"}, {"emit"})
  BY DEF TurnStartFails, ToEmit, AgentTypes, TurnRecord
<1>5. TurnEvent(t) => Moves(t, {"drain"}, {"drain", "emit"})
  BY DEF TurnEvent, ToEmit, AgentTypes, TurnRecord
<1>6. TurnEmit(t) => Moves(t, {"emit"}, {"emit", "drain", "end"})
  BY DEF TurnEmit, AfterEmit, AgentTypes, TurnRecord
<1>7. TurnDrained(t) => Moves(t, {"drain"}, {"abort", "end"})
  BY AtMoves DEF TurnDrained
<1>8. TurnAbortNotice(t) => Moves(t, {"abort"}, {"end"})
  BY DEF TurnAbortNotice, AgentTypes, TurnRecord
<1>9. EndTurn(t) => Moves(t, {"end"}, {"done"})
  BY AtMoves DEF EndTurn
<1> QED
  BY <1>1, <1>2, <1>3, <1>4, <1>5, <1>6, <1>7, <1>8, <1>9

PermitInv == PumpFollowsTurn /\ PermitsReturned

\* The same, turn by turn.
PermitOf(t) ==
    /\ pump[t].at = "none" <=> proc[t] = "none"
    /\ turn[t].at \in Begins \cup Commands => pump[t].at = "none"
    /\ t \in sem <=> turn[t].at = "start" \/ pump[t].at \in {"read", "push", "wait", "synth"}

PermitStands(t) ==
    /\ turn'[t] = turn[t] /\ proc'[t] = proc[t] /\ pump'[t] = pump[t]
    /\ t \in sem' <=> t \in sem

\* A step of one turn touches the permit, process and pump of no other.
LEMMA PermitOneTurn ==
    ASSUME CliTypes, CliTypes', PermitInv, NEW t \in Turns, PermitOf(t) => PermitOf(t)',
           \A u \in Turns : u # t => PermitStands(u)
    PROVE  PermitInv'
<1>1. \A u \in Turns : PermitOf(u)
  BY DEF PermitInv, PumpFollowsTurn, PermitsReturned, PermitOf, CliTypes
<1>2. ASSUME NEW u \in Turns PROVE PermitOf(u)'
  <2>1. CASE u = t
    BY <1>1, <2>1
  <2>2. CASE u # t
    <3>1. PermitStands(u)
      BY <2>2
    <3>2. PermitOf(u)
      BY <1>1
    <3> QED
      BY ONLY <3>1, <3>2 DEF PermitOf, PermitStands
  <2> QED
    BY <2>1, <2>2
<1>3. PumpFollowsTurn'
  BY <1>2 DEF PumpFollowsTurn, PermitOf
<1>4. PermitsReturned'
  BY <1>2 DEF PermitsReturned, PermitOf, CliTypes
<1> QED
  BY <1>3, <1>4 DEF PermitInv

\* Permits, processes and pumps stay as they are unless the turn starts its
\* process, fails to, or the pump ends.
LEMMA PermitKept ==
    ASSUME CliTypes, AgentTypes, Locks, PermitInv, [AgentNext]_allVars
    PROVE  PermitInv'
<1>c. CliTypes'
  BY CliTypesKept
<1> USE DEF PermitOf, PermitStands, CliTypes, PumpRecord, Begins, Commands
<1>0. ASSUME UNCHANGED << sem, proc, pump >>, NEW t \in Turns,
             NEW from, NEW to, Moves(t, from, to), "start" \notin from, "start" \notin to,
             \/ from \subseteq {"idle", "config", "acquire", "start"} \cup Commands
             \/ to \subseteq {"drain", "emit", "abort", "end", "done"}
      PROVE  PermitInv'
  <2>1. turn[t].at # "start" /\ turn'[t].at # "start"
    BY <1>0 DEF Moves
  <2>2. turn'[t].at \in Begins \cup Commands => turn[t].at \in Begins \cup Commands
    BY <1>0 DEF Moves
  <2>3. PermitOf(t) => PermitOf(t)'
    BY <1>0, <2>1, <2>2
  <2> QED
    BY <1>0, <1>c, <2>3, PermitOneTurn DEF Moves
<1>1. ASSUME NEW t \in Turns,
             \/ TurnConfig(t) \/ TurnEvent(t) \/ TurnEmit(t) \/ TurnDrained(t)
             \/ TurnAbortNotice(t) \/ EndTurn(t)
      PROVE  PermitInv'
  <2>1. UNCHANGED << sem, proc, pump >>
    BY <1>1 DEF TurnConfig, TurnEvent, TurnEmit, TurnDrained, TurnAbortNotice, EndTurn,
       Received, cliVars
  <2> QED
    BY <1>0, <1>1, <2>1, TurnMoves
<1>2. ASSUME NEW t \in Turns, Event(t) \/ PickerStep(t) \/ JobEnds(t)
      PROVE  PermitInv'
  <2>1. UNCHANGED << sem, proc, pump >>
    BY <1>2 DEF Event, StartTurn, RejectPrompt, CmdModelSpec, CmdPicker, CmdJob, PickerStep,
       PickerList, PickerAsk, PickerAnswered, PickerGivesUp, PickerSetModel,
       PickerSetProvider, JobEnds, cliVars
  <2> QED
    BY <1>0, <1>2, <2>1, CommandMoves
<1>3. CASE CmdModelProvider
  <2>1. UNCHANGED << sem, proc, pump >> /\ loop.t \in Turns
    BY <1>3 DEF CmdModelProvider, cliVars, Locks, LoopHoldsSlot
  <2> QED
    BY <1>0, <1>3, <2>1, CommandMoves
<1>4. ASSUME NEW t \in Turns, TurnAcquire(t) PROVE PermitInv'
  <2>1. sem' = sem \cup {t} /\ UNCHANGED << proc, pump >> /\ Moves(t, {"acquire"}, {"start"})
    BY <1>4, TurnMoves DEF TurnAcquire, AcquirePermit
  <2> QED
    BY <1>c, <2>1, PermitOneTurn DEF Moves
<1>5. ASSUME NEW t \in Turns, TurnStart(t) PROVE PermitInv'
  <2>1. /\ proc' = [proc EXCEPT ![t] = "running"] /\ pump' = [pump EXCEPT ![t].at = "read"]
        /\ t \in sem /\ sem' = sem /\ Moves(t, {"start"}, {"drain"})
    BY <1>5, TurnMoves DEF TurnStart, StartProcess
  <2>2. PermitOf(t)'
    BY <2>1 DEF Moves
  <2> QED
    BY <1>c, <2>1, <2>2, PermitOneTurn DEF Moves
<1>6. ASSUME NEW t \in Turns, TurnStartFails(t) PROVE PermitInv'
  <2>1. CASE turn[t].at = "acquire" /\ UNCHANGED cliVars
    <3>1. Moves(t, {"acquire"}, {"emit"}) /\ UNCHANGED << sem, proc, pump >>
      BY <1>6, <2>1, TurnMoves DEF Moves, cliVars
    <3> QED
      BY <1>0, <3>1
  <2>2. CASE turn[t].at = "start" /\ StartFails(t)
    <3>1. /\ proc[t] = "none" /\ sem' = sem \ {t} /\ UNCHANGED << proc, pump >>
          /\ Moves(t, {"start"}, {"emit"})
      BY <1>6, <2>2, TurnMoves DEF StartFails, Moves
    <3> QED
      BY <1>c, <3>1, PermitOneTurn DEF Moves
  <2> QED
    BY <1>6, <2>1, <2>2 DEF TurnStartFails
<1>7. ASSUME NEW t \in Turns, NEW how \in {"ok", "failed", "killed"}, Exit(t, how),
             UNCHANGED turn
      PROVE  PermitInv'
  BY <1>7, <1>c, PermitOneTurn DEF Exit
<1>8. ASSUME NEW t \in Turns, PumpStep(t), UNCHANGED turn PROVE PermitInv'
  <2>1. CASE PumpRead(t)
    <3>1. pump[t].at = "read" /\ pump'[t].at \in {"read", "push"} /\ UNCHANGED << sem, proc >>
          /\ \A u \in Turns : u # t => pump'[u] = pump[u]
      BY <2>1 DEF PumpRead
    <3> QED
      BY <1>8, <1>c, <3>1, PermitOneTurn
  <2>2. CASE PumpPush(t) \/ PumpAbandon(t) \/ PumpEOF(t)
    <3>1. /\ pump[t].at \in {"read", "push"} /\ pump'[t].at \in {"read", "wait"}
          /\ UNCHANGED << sem, proc >>
          /\ \A u \in Turns : u # t => pump'[u] = pump[u]
      BY <2>2 DEF PumpPush, PumpAbandon, PumpEOF
    <3> QED
      BY <1>8, <1>c, <3>1, PermitOneTurn
  <2>3. CASE PumpWait(t) \/ PumpSynth(t)
    <3>1. /\ pump[t].at \in {"wait", "synth"} /\ proc' = proc
          /\ \/ sem' = sem \ {t} /\ pump'[t].at = "closed"
             \/ sem' = sem /\ pump'[t].at = "synth"
          /\ \A u \in Turns : u # t => pump'[u] = pump[u]
      BY <2>3 DEF PumpWait, PumpSynth, PumpClose
    <3> QED
      BY <1>8, <1>c, <3>1, PermitOneTurn
  <2> QED
    BY <1>8, <2>1, <2>2, <2>3 DEF PumpStep
<1>9. CASE UNCHANGED << sem, proc, pump, turn >>
  BY <1>9 DEF PermitInv, PumpFollowsTurn, PermitsReturned
<1> HIDE DEF PermitOf, PermitStands, CliTypes, PumpRecord
<1>10. ASSUME NEW t \in Turns, Pump(t) \/ CliEnds(t) \/ CliKilled(t)
       PROVE  PermitInv'
  BY <1>7, <1>8, <1>10 DEF Pump, CliEnds, CliKilled, GroupKilled, agentVars
<1>11. CASE \/ Close \/ CloseReturns \/ UNCHANGED allVars
            \/ \E t \in Turns : DeliverAnswer(t)
            \/ \E c \in Chats : AbortChat(c) \/ CmdNew(c)
  BY <1>9, <1>11 DEF Close, CloseReturns, DeliverAnswer, AbortChat, CmdNew, allVars,
     agentVars, cliVars
<1> QED
  BY <1>1, <1>2, <1>3, <1>4, <1>5, <1>6, <1>10, <1>11 DEF AgentNext, TurnStep

-----------------------------------------------------------------------------
(* The answer broker *)

\* Only the picker that asks, the answer, its time-out and Close change who
\* waits; no other step moves a turn into or out of the wait.
LEMMA BrokerKept ==
    ASSUME CliTypes, AgentTypes, Locks, BrokerHoldsWaiters, [AgentNext]_allVars
    PROVE  BrokerHoldsWaiters'
<1> USE DEF BrokerHoldsWaiters, AgentTypes, Positions
<1>0. ASSUME UNCHANGED << broker, reply >>, NEW t \in Turns,
             NEW from, NEW to, Moves(t, from, to), "wait" \notin from, "wait" \notin to
      PROVE  BrokerHoldsWaiters'
  BY <1>0 DEF Moves
<1>1. ASSUME NEW t \in Turns, TurnStep(t) \/ TurnStartFails(t)
      PROVE  BrokerHoldsWaiters'
  <2>1. UNCHANGED << broker, reply >>
    BY <1>1 DEF TurnStep, TurnConfig, TurnAcquire, TurnStart, TurnEvent, TurnEmit,
       TurnDrained, TurnAbortNotice, EndTurn, TurnStartFails
  <2> QED
    BY <1>0, <1>1, <2>1, TurnMoves DEF TurnStep
<1>2. ASSUME NEW t \in Turns, Event(t) \/ JobEnds(t) PROVE BrokerHoldsWaiters'
  <2>1. UNCHANGED << broker, reply >>
    BY <1>2 DEF Event, StartTurn, RejectPrompt, CmdModelSpec, CmdPicker, CmdJob, JobEnds
  <2> QED
    BY <1>0, <1>2, <2>1, CommandMoves
<1>3. CASE CmdModelProvider
  BY <1>0, <1>3, CommandMoves DEF CmdModelProvider, Locks, LoopHoldsSlot
<1>4. ASSUME NEW t \in Turns, PickerAsk(t) PROVE BrokerHoldsWaiters'
  <2>1. turn'[t].at = "wait" /\ \A u \in Turns : u # t => turn'[u] = turn[u]
    BY <1>4, AtMoves DEF PickerAsk
  <2>2. broker' = broker \cup {t} /\ reply' = [reply EXCEPT ![t] = "empty"]
    BY <1>4 DEF PickerAsk
  <2> QED
    BY <2>1, <2>2
<1>5. ASSUME NEW t \in Turns, PickerAnswered(t) PROVE BrokerHoldsWaiters'
  <2>1. /\ reply[t] = "answer" /\ UNCHANGED << broker, reply >>
        /\ turn'[t].at # "wait" /\ \A u \in Turns : u # t => turn'[u] = turn[u]
    BY <1>5, AtMoves DEF PickerAnswered
  <2> QED
    BY <2>1
<1>6. ASSUME NEW t \in Turns, PickerGivesUp(t) PROVE BrokerHoldsWaiters'
  <2>1. /\ broker' = broker \ {t} /\ UNCHANGED reply
        /\ turn'[t].at # "wait" /\ \A u \in Turns : u # t => turn'[u] = turn[u]
    BY <1>6, AtMoves DEF PickerGivesUp
  <2> QED
    BY <2>1
<1>7. ASSUME NEW t \in Turns, PickerList(t) \/ PickerSetModel(t) \/ PickerSetProvider(t)
      PROVE  BrokerHoldsWaiters'
  <2>1. turn[t].at # "wait" /\ UNCHANGED << broker, reply >>
    BY <1>7 DEF PickerList, PickerSetModel, PickerSetProvider
  <2>2. turn'[t].at # "wait" /\ \A u \in Turns : u # t => turn'[u] = turn[u]
    BY <1>7, AtMoves DEF PickerList, PickerSetModel, PickerSetProvider
  <2> QED
    BY <2>1, <2>2
<1>8. ASSUME NEW t \in Turns, DeliverAnswer(t) PROVE BrokerHoldsWaiters'
  BY <1>8 DEF DeliverAnswer
<1>9. CASE Close
  BY <1>9 DEF Close
<1>10. CASE UNCHANGED << broker, reply, turn >>
  BY <1>10
<1> HIDE DEF BrokerHoldsWaiters
<1>11. CASE \/ CloseReturns \/ UNCHANGED allVars
            \/ \E t \in Turns : Pump(t) \/ CliEnds(t) \/ CliKilled(t)
            \/ \E c \in Chats : AbortChat(c) \/ CmdNew(c)
  BY <1>10, <1>11 DEF CloseReturns, Pump, CliEnds, CliKilled, AbortChat, CmdNew, allVars,
     agentVars
<1> QED
  BY <1>1, <1>2, <1>3, <1>4, <1>5, <1>6, <1>7, <1>8, <1>9, <1>11 DEF AgentNext, PickerStep

-----------------------------------------------------------------------------
(* Final controls *)

\* Prompts, commands and pickers record no final control.
LEMMA CommandFinal ==
    ASSUME AgentTypes, NEW t \in Turns, Event(t) \/ PickerStep(t) \/ JobEnds(t)
    PROVE  turn'[t].final = turn[t].final
<1>1. ASSUME NEW c \in Chats, StartTurn(t, c) PROVE turn'[t].final = turn[t].final
  BY <1>1 DEF StartTurn, AgentTypes, TurnRecord
<1>2. ASSUME NEW c \in Chats, RejectPrompt(t, c) \/ CmdPicker(t, c) \/ CmdModelSpec(t, c)
             \/ CmdJob(t, c)
      PROVE  turn'[t].final = turn[t].final
  BY <1>2, Arrived DEF RejectPrompt, CmdPicker, CmdModelSpec, CmdJob, Positions
<1>3. CASE PickerStep(t) \/ JobEnds(t)
  BY <1>3, AtMoves DEF PickerStep, PickerList, PickerAsk, PickerAnswered, PickerGivesUp,
     PickerSetModel, PickerSetProvider, JobEnds, Positions
<1> QED
  BY <1>1, <1>2, <1>3 DEF Event

\* A step that sends nothing and leaves the recorded final as it is, and moves
\* the turn neither to an emission nor back.
LEMMA FinalsStand ==
    ASSUME FinalAgrees, UNCHANGED sent, NEW t \in Turns, NEW from, NEW to,
           Moves(t, from, to), turn'[t].final = turn[t].final,
           "emit" \notin to, "abort" \notin to,
           "done" \notin from,
           "end" \in from => to \subseteq {"end", "done"},
           from \subseteq Begins \/ to \cap Begins = {}
    PROVE  FinalAgrees'
BY DEF FinalAgrees, Moves, Begins

\* Every step keeps what was sent and what was recorded in agreement.
LEMMA FinalKept ==
    ASSUME AgentTypes, Locks, FinalAgrees, [AgentNext]_allVars
    PROVE  FinalAgrees'
<1> USE DEF Begins, Commands
<1>1. ASSUME NEW t \in Turns, Event(t) \/ PickerStep(t) \/ JobEnds(t)
      PROVE  FinalAgrees'
  <2>1. UNCHANGED sent
    BY <1>1 DEF Event, StartTurn, RejectPrompt, CmdModelSpec, CmdPicker, CmdJob, PickerStep,
       PickerList, PickerAsk, PickerAnswered, PickerGivesUp, PickerSetModel,
       PickerSetProvider, JobEnds
  <2>2. turn'[t].final = turn[t].final
    BY <1>1, CommandFinal
  <2>3. \/ Moves(t, {"idle"}, {"config", "run", "list", "done"})
        \/ Moves(t, Commands, Commands \cup {"done"})
        \/ Moves(t, {"run"}, {"done"})
    BY <1>1, CommandMoves
  <2> QED
    BY <2>1, <2>2, <2>3, FinalsStand
<1>2. CASE CmdModelProvider
  <2>1. loop.t \in Turns /\ Moves(loop.t, {"run"}, {"done"}) /\ UNCHANGED sent
    BY <1>2, CommandMoves DEF CmdModelProvider, Locks, LoopHoldsSlot
  <2>2. turn'[loop.t].final = turn[loop.t].final
    BY <1>2, <2>1, AtMoves DEF CmdModelProvider, Positions
  <2> QED
    BY <2>1, <2>2, FinalsStand
<1>3. ASSUME NEW t \in Turns,
             TurnConfig(t) \/ TurnAcquire(t) \/ TurnStart(t) \/ EndTurn(t)
      PROVE  FinalAgrees'
  <2>1. UNCHANGED sent
    BY <1>3 DEF TurnConfig, TurnAcquire, TurnStart, EndTurn
  <2>2. turn'[t].final = turn[t].final
    <3>1. ASSUME NEW pos \in Positions, At(t, pos) PROVE turn'[t].final = turn[t].final
      BY <3>1, AtMoves
    <3>2. {"start", "drain", "done"} \subseteq Positions
      BY DEF Positions
    <3> QED
      BY <1>3, <3>1, <3>2, ConfigKeepsFinal DEF TurnAcquire, TurnStart, EndTurn
  <2>3. \/ Moves(t, {"config"}, {"acquire"}) \/ Moves(t, {"acquire"}, {"start"})
        \/ Moves(t, {"start"}, {"drain"}) \/ Moves(t, {"end"}, {"done"})
    BY <1>3, TurnMoves
  <2> QED
    BY <2>1, <2>2, <2>3, FinalsStand
<1>4. ASSUME NEW t \in Turns, NEW kind \in Terminal, ToEmit(t, kind), UNCHANGED sent,
             turn[t].at \in {"acquire", "start", "drain"}
      PROVE  FinalAgrees'
  <2>1. /\ turn'[t].final = kind /\ turn'[t].at = "emit"
        /\ \A u \in Turns : u # t => turn'[u] = turn[u]
    BY <1>4 DEF ToEmit, AgentTypes, TurnRecord
  <2>2. sent[t] \subseteq Terminal
    BY <1>4 DEF FinalAgrees, AgentTypes, TurnRecord, Finals
  <2> QED
    BY <1>4, <2>1, <2>2 DEF FinalAgrees, Terminal
<1>5. ASSUME NEW t \in Turns, TurnEvent(t) \/ TurnStartFails(t) PROVE FinalAgrees'
  <2>1. CASE \E kind \in Terminal : ToEmit(t, kind)
    BY <1>4, <1>5, <2>1 DEF TurnEvent, TurnStartFails
  <2>2. CASE UNCHANGED << turn, sent >>
    BY <2>2 DEF FinalAgrees
  <2> QED
    BY <1>5, <2>1, <2>2 DEF TurnEvent, TurnStartFails, Terminal
<1>6. ASSUME NEW t \in Turns, TurnEmit(t) PROVE FinalAgrees'
  <2>1. /\ turn'[t].final = turn[t].final /\ turn[t].at = "emit"
        /\ turn'[t].at \in {"emit", "drain", "end"}
        /\ \A u \in Turns : u # t => turn'[u] = turn[u]
    BY <1>6 DEF TurnEmit, AfterEmit, AgentTypes, TurnRecord
  <2>2. /\ sent'[t] \subseteq sent[t] \cup {turn[t].final}
        /\ \A u \in Turns : u # t => sent'[u] = sent[u]
    BY <1>6 DEF TurnEmit, Notify, AgentTypes
  <2> QED
    BY <2>1, <2>2 DEF FinalAgrees, Terminal
<1>7. ASSUME NEW t \in Turns, TurnDrained(t) PROVE FinalAgrees'
  <2>1. /\ turn'[t].final = turn[t].final /\ turn[t].at = "drain" /\ UNCHANGED sent
        /\ \/ turn'[t].at = "end"
           \/ turn'[t].at = "abort" /\ turn[t].final = "none"
        /\ \A u \in Turns : u # t => turn'[u] = turn[u]
    BY <1>7, AtMoves DEF TurnDrained, Positions
  <2> QED
    BY <2>1 DEF FinalAgrees
<1>8. ASSUME NEW t \in Turns, TurnAbortNotice(t) PROVE FinalAgrees'
  <2>1. /\ turn'[t].final = "aborted" /\ turn[t].at = "abort" /\ turn'[t].at = "end"
        /\ \A u \in Turns : u # t => turn'[u] = turn[u]
    BY <1>8 DEF TurnAbortNotice, AgentTypes, TurnRecord
  <2>2. /\ sent'[t] \subseteq sent[t] \cup {"aborted"}
        /\ \A u \in Turns : u # t => sent'[u] = sent[u]
    BY <1>8 DEF TurnAbortNotice, Notify, AgentTypes
  <2> QED
    BY <2>1, <2>2 DEF FinalAgrees, Terminal
<1>9. CASE \/ UNCHANGED allVars \/ Close \/ CloseReturns
           \/ \E t \in Turns : Pump(t) \/ CliEnds(t) \/ CliKilled(t) \/ DeliverAnswer(t)
           \/ \E c \in Chats : AbortChat(c) \/ CmdNew(c)
  <2>1. UNCHANGED << turn, sent >>
    BY <1>9 DEF Close, CloseReturns, Pump, CliEnds, CliKilled, DeliverAnswer, AbortChat,
       CmdNew, allVars, agentVars
  <2> QED
    BY <2>1 DEF FinalAgrees
<1> QED
  BY <1>1, <1>2, <1>3, <1>5, <1>6, <1>7, <1>8, <1>9 DEF AgentNext, TurnStep

-----------------------------------------------------------------------------
(* Dead processes *)

\* The same, turn by turn.
DeathOf(t) ==
    /\ pump[t].got => HasTerminal(t)
    /\ pump[t].at \in {"none", "read", "push"} => ~pump[t].got
    /\ pump[t].at \in {"synth", "closed"} => proc[t] # "running"
    /\ pump[t].at = "closed" /\ proc[t] \in {"failed", "killed"}
           => t \in cancelled \/ HasTerminal(t)
    /\ turn[t].at = "abort" => pump[t].at = "closed"
    /\ turn[t].at \in {"end", "done"} /\ proc[t] # "none"
           => pump[t].at = "closed"
                  /\ (proc[t] \in {"failed", "killed"} => turn[t].final # "none")

\* A step of one turn disturbs no other's.
LEMMA DeathOneTurn ==
    ASSUME DeathsSeen, NEW t \in Turns, DeathOf(t) => DeathOf(t)', cancelled \subseteq cancelled',
           \A u \in Turns : u # t => /\ turn'[u] = turn[u] /\ proc'[u] = proc[u]
                                    /\ pump'[u] = pump[u] /\ out'[u] = out[u]
    PROVE  DeathsSeen'
<1>1. \A u \in Turns : DeathOf(u)
  BY DEF DeathsSeen, DeathOf
<1>2. ASSUME NEW u \in Turns PROVE DeathOf(u)'
  <2>1. CASE u = t
    BY <1>1, <2>1
  <2>2. CASE u # t
    <3>1. /\ turn'[u] = turn[u] /\ proc'[u] = proc[u] /\ pump'[u] = pump[u]
          /\ out'[u] = out[u]
      BY <2>2
    <3>2. DeathOf(u) /\ (u \in cancelled => u \in cancelled')
      BY <1>1
    <3>3. HasTerminal(u)' <=> HasTerminal(u)
      BY ONLY <3>1 DEF HasTerminal
    <3> QED
      BY ONLY <3>1, <3>2, <3>3 DEF DeathOf
  <2> QED
    BY <2>1, <2>2
<1> QED
  BY <1>2 DEF DeathsSeen, DeathOf

\* A step that leaves the process, the pump and the channel alone.
LEMMA DeathMoves ==
    ASSUME DeathsSeen, PumpFollowsTurn, NEW t \in Turns, NEW from, NEW to, Moves(t, from, to),
           UNCHANGED << proc, pump, out >>, cancelled \subseteq cancelled',
           turn'[t].final = turn[t].final \/ turn'[t].final # "none",
           "abort" \notin to,
           \/ to \cap {"end", "done"} = {}
           \/ from \subseteq {"end"}
           \/ from \subseteq Begins \cup Commands
           \/ proc[t] = "none"
    PROVE  DeathsSeen'
<1>1. HasTerminal(t) => HasTerminal(t)'
  BY DEF HasTerminal
<1>2. turn'[t].at # "abort"
  BY DEF Moves
<1>3. turn'[t].at \in {"end", "done"} => turn[t].at = "end" \/ proc[t] = "none"
  BY DEF Moves, PumpFollowsTurn
<1>4. /\ proc'[t] = proc[t] /\ pump'[t] = pump[t] /\ (t \in cancelled => t \in cancelled')
  OBVIOUS
<1>5. DeathOf(t) => DeathOf(t)'
  BY ONLY <1>1, <1>2, <1>3, <1>4, turn'[t].final = turn[t].final \/ turn'[t].final # "none"
     DEF DeathOf
<1> QED
  BY <1>5, DeathOneTurn DEF Moves

\* What the channel holds.
LEMMA ChannelTerminal ==
    ASSUME NEW S, NEW s \in Seq(S), NEW e
    PROVE  /\ (\E i \in 1 .. Len(s) : s[i] \in Terminal)
                  => \E i \in 1 .. Len(Append(s, e)) : Append(s, e)[i] \in Terminal
           /\ e \in Terminal => \E i \in 1 .. Len(Append(s, e)) : Append(s, e)[i] \in Terminal
           /\ s # << >> /\ (\E i \in 1 .. Len(s) : s[i] \in Terminal)
                  => Head(s) \in Terminal \/ \E i \in 1 .. Len(Tail(s)) : Tail(s)[i] \in Terminal
<1>1. ASSUME NEW i \in 1 .. Len(s), s[i] \in Terminal
      PROVE  i \in 1 .. Len(Append(s, e)) /\ Append(s, e)[i] \in Terminal
  BY <1>1
<1>2. Len(s) + 1 \in 1 .. Len(Append(s, e)) /\ Append(s, e)[Len(s) + 1] = e
  OBVIOUS
<1>3. ASSUME NEW i \in 1 .. Len(s), s[i] \in Terminal, s # << >>, Head(s) \notin Terminal
      PROVE  i - 1 \in 1 .. Len(Tail(s)) /\ Tail(s)[i - 1] \in Terminal
  BY <1>3
<1> QED
  BY <1>1, <1>2, <1>3

\* The pump's steps: it closes the channel on a dead process only with a
\* terminal event in it, or in a cancelled turn.
LEMMA DeathInPump ==
    ASSUME CliTypes, PumpFollowsTurn, DeathsSeen, NEW t \in Turns, PumpStep(t), UNCHANGED turn
    PROVE  DeathsSeen'
<1> USE DEF CliTypes, PumpRecord
<1>1. DeathOf(t)
  BY DEF DeathsSeen, DeathOf
<1>2. UNCHANGED << proc, cancelled >>
  BY DEF PumpStep, PumpRead, PumpPush, PumpAbandon, PumpEOF, PumpWait, PumpSynth, PumpClose
<1>3. /\ pump[t].at = "none" <=> proc[t] = "none"
      /\ turn[t].at \in {"abort", "end", "done"} => pump[t].at \in {"closed", "none"}
  BY <1>1 DEF PumpFollowsTurn, DeathOf
<1>4. ASSUME \A u \in Turns : u # t => pump'[u] = pump[u] /\ out'[u] = out[u],
             DeathOf(t)'
      PROVE  DeathsSeen'
  BY <1>2, <1>4, DeathOneTurn
<1>5. CASE PumpRead(t) \/ PumpAbandon(t) \/ PumpEOF(t)
  <2>1. /\ pump[t].at \in {"read", "push"} /\ pump'[t].at \in {"read", "push", "wait"}
        /\ pump'[t].got = pump[t].got /\ out' = out
        /\ \A u \in Turns : u # t => pump'[u] = pump[u]
    <3>1. CASE PumpRead(t)
      BY <3>1 DEF PumpRead
    <3>2. CASE PumpAbandon(t)
      BY <3>2 DEF PumpAbandon
    <3>3. CASE PumpEOF(t)
      BY <3>3 DEF PumpEOF
    <3> QED
      BY <1>5, <3>1, <3>2, <3>3
  <2>2. HasTerminal(t) => HasTerminal(t)'
    BY <2>1 DEF HasTerminal
  <2>3. DeathOf(t)'
    BY <1>1, <1>2, <1>3, <2>1, <2>2 DEF DeathOf
  <2> QED
    BY <1>4, <2>1, <2>3
<1>6. CASE PumpPush(t)
  <2>1. /\ pump[t].at = "push" /\ out'[t] = Append(out[t], pump[t].ev)
        /\ \/ pump'[t].at = "wait" /\ pump'[t].got /\ pump[t].ev \in Terminal
           \/ pump'[t].at = "read" /\ ~pump'[t].got
        /\ \A u \in Turns : u # t => pump'[u] = pump[u] /\ out'[u] = out[u]
    BY <1>6 DEF PumpPush
  <2>2. out[t] \in Seq({"none"} \cup EventKind)
    OBVIOUS
  <2>3. /\ HasTerminal(t) => HasTerminal(t)'
        /\ pump[t].ev \in Terminal => HasTerminal(t)'
    BY SMTT(30), <2>1, <2>2, ChannelTerminal DEF HasTerminal
  <2>4. DeathOf(t)'
    BY <1>1, <1>2, <1>3, <2>1, <2>3 DEF DeathOf
  <2> QED
    BY <1>4, <2>1, <2>4
<1>7. CASE PumpWait(t)
  <2>1. /\ pump[t].at = "wait" /\ proc[t] \notin {"none", "running"}
        /\ \/ pump'[t].at = "synth"
           \/ pump'[t].at = "closed"
                  /\ (proc[t] = "ok" \/ t \in cancelled \/ pump[t].got)
        /\ pump'[t].got = pump[t].got /\ out' = out
        /\ \A u \in Turns : u # t => pump'[u] = pump[u]
    BY <1>7 DEF PumpWait, PumpClose
  <2>2. HasTerminal(t) => HasTerminal(t)'
    BY <2>1 DEF HasTerminal
  <2>3. DeathOf(t)'
    BY <1>1, <1>2, <1>3, <2>1, <2>2 DEF DeathOf
  <2> QED
    BY <1>4, <2>1, <2>3
<1>8. CASE PumpSynth(t)
  <2>1. /\ pump[t].at = "synth" /\ pump'[t].at = "closed" /\ pump'[t].got = pump[t].got
        /\ \A u \in Turns : u # t => pump'[u] = pump[u]
    BY <1>8 DEF PumpSynth, PumpClose
  <2>5. /\ \/ out'[t] = Append(out[t], "error")
           \/ t \in cancelled /\ out'[t] = out[t]
        /\ \A u \in Turns : u # t => out'[u] = out[u]
    BY <1>8 DEF PumpSynth
  <2>2. out[t] \in Seq({"none"} \cup EventKind) /\ "error" \in Terminal
    BY DEF Terminal
  <2>3. /\ HasTerminal(t) => HasTerminal(t)'
        /\ t \in cancelled \/ HasTerminal(t)'
    BY <2>2, <2>5, ChannelTerminal DEF HasTerminal
  <2>4. DeathOf(t)'
    BY <1>1, <1>2, <1>3, <2>1, <2>3 DEF DeathOf
  <2> QED
    BY <1>4, <2>1, <2>4, <2>5
<1> QED
  BY <1>5, <1>6, <1>7, <1>8 DEF PumpStep

\* The turn's steps: it ends with the channel closed and empty, so a terminal
\* event that was in it is recorded.
LEMMA DeathInTurn ==
    ASSUME CliTypes, AgentTypes, PumpFollowsTurn, DeathsSeen, NEW t \in Turns,
           TurnStep(t) \/ TurnStartFails(t)
    PROVE  DeathsSeen'
<1> USE DEF CliTypes, PumpRecord
<1>1. DeathOf(t)
  BY DEF DeathsSeen, DeathOf
<1>2. CASE TurnConfig(t) \/ TurnAcquire(t)
  <2>1. UNCHANGED << proc, pump, out, cancelled >>
    BY <1>2 DEF TurnConfig, TurnAcquire, AcquirePermit, cliVars
  <2>2. turn'[t].final = turn[t].final
    BY <1>2, AtMoves, ConfigKeepsFinal DEF TurnAcquire, Positions
  <2>3. Moves(t, {"config"}, {"acquire"}) \/ Moves(t, {"acquire"}, {"start"})
    BY <1>2, TurnMoves
  <2> QED
    BY <2>1, <2>2, <2>3, DeathMoves
<1>3. CASE TurnStart(t)
  <2>1. /\ proc[t] = "none" /\ turn[t].at = "start" /\ turn'[t].at = "drain"
        /\ turn'[t].final = turn[t].final
        /\ \A u \in Turns : u # t => turn'[u] = turn[u]
    BY <1>3, AtMoves DEF TurnStart, StartProcess, Positions
  <2>2. /\ proc'[t] = "running" /\ pump'[t].at = "read" /\ pump'[t].got = pump[t].got
        /\ \A u \in Turns : u # t => pump'[u] = pump[u] /\ proc'[u] = proc[u]
        /\ UNCHANGED << out, cancelled >>
    BY <1>3 DEF TurnStart, StartProcess
  <2>3. HasTerminal(t) => HasTerminal(t)'
    BY <2>1, <2>2 DEF HasTerminal
  <2>4. pump[t].at = "none"
    BY <2>1 DEF PumpFollowsTurn
  <2>5. DeathOf(t)'
    BY <1>1, <2>1, <2>2, <2>3, <2>4 DEF DeathOf
  <2> QED
    BY <2>1, <2>2, <2>5, DeathOneTurn
<1>4. CASE TurnStartFails(t)
  <2>1. UNCHANGED << proc, pump, out, cancelled >> /\ turn'[t].final = "error"
    BY <1>4 DEF TurnStartFails, StartFails, ToEmit, cliVars, AgentTypes, TurnRecord
  <2>2. Moves(t, {"acquire", "start"}, {"emit"})
    BY <1>4, TurnMoves
  <2> QED
    BY <2>1, <2>2, DeathMoves
<1>5. CASE TurnEvent(t)
  <2>1. /\ turn[t].at = "drain" /\ out[t] # << >> /\ out'[t] = Tail(out[t])
        /\ \A u \in Turns : u # t => out'[u] = out[u]
        /\ UNCHANGED << proc, pump, cancelled >>
    BY <1>5 DEF TurnEvent, Received
  <2>2. /\ turn'[t].at \in {"drain", "emit"}
        /\ \A u \in Turns : u # t => turn'[u] = turn[u]
    BY <1>5, TurnMoves DEF Moves
  <2>3. IF Head(out[t]) \in Terminal THEN turn'[t].final # "none"
                                    ELSE turn'[t].final = turn[t].final
    BY <1>5 DEF TurnEvent, ToEmit, AgentTypes, TurnRecord, Terminal
  <2>4. out[t] \in Seq({"none"} \cup EventKind)
    OBVIOUS
  <2>5. HasTerminal(t) => HasTerminal(t)'
    BY <2>1, <2>3, <2>4, ChannelTerminal DEF HasTerminal
  <2>6. DeathOf(t)'
    BY <1>1, <2>1, <2>2, <2>5 DEF DeathOf
  <2> QED
    BY <2>1, <2>2, <2>6, DeathOneTurn
<1>6. CASE TurnEmit(t)
  <2>1. UNCHANGED << proc, pump, out, cancelled >> /\ turn'[t].final = turn[t].final
    BY <1>6 DEF TurnEmit, AfterEmit, cliVars, AgentTypes, TurnRecord
  <2>2. turn'[t].at \in {"emit", "drain"} \/ proc[t] = "none"
    BY <1>6 DEF TurnEmit, AfterEmit, AgentTypes, TurnRecord
  <2>3. Moves(t, {"emit"}, {"emit", "drain", "end"})
    BY <1>6, TurnMoves
  <2>4. Moves(t, {"emit"}, {"emit", "drain"}) \/ proc[t] = "none"
    BY <2>2, <2>3 DEF Moves
  <2> QED
    BY <2>1, <2>3, <2>4, DeathMoves
<1>7. CASE TurnDrained(t)
  <2>1. /\ pump[t].at = "closed" /\ out[t] = << >>
        /\ UNCHANGED << proc, pump, out, cancelled >>
        /\ turn'[t].final = turn[t].final
        /\ \/ turn'[t].at = "abort"
           \/ turn'[t].at = "end" /\ (t \in cancelled => turn[t].final # "none")
        /\ \A u \in Turns : u # t => turn'[u] = turn[u]
    BY <1>7, AtMoves DEF TurnDrained, Drained, cliVars, Positions
  <2>2. HasTerminal(t) <=> turn[t].final # "none"
    BY <2>1 DEF HasTerminal
  <2>3. HasTerminal(t)' <=> turn[t].final # "none"
    BY <2>1 DEF HasTerminal
  <2>4. DeathOf(t)'
    BY <1>1, <2>1, <2>2, <2>3 DEF DeathOf
  <2> QED
    BY <2>1, <2>4, DeathOneTurn
<1>8. CASE TurnAbortNotice(t)
  <2>1. /\ UNCHANGED << proc, pump, out, cancelled >> /\ turn[t].at = "abort"
        /\ turn'[t].final = "aborted" /\ turn'[t].at = "end"
        /\ \A u \in Turns : u # t => turn'[u] = turn[u]
    BY <1>8 DEF TurnAbortNotice, cliVars, AgentTypes, TurnRecord
  <2>2. HasTerminal(t)'
    BY <2>1 DEF HasTerminal
  <2>3. DeathOf(t)'
    BY <1>1, <2>1, <2>2 DEF DeathOf
  <2> QED
    BY <2>1, <2>3, DeathOneTurn
<1>9. CASE EndTurn(t)
  <2>1. UNCHANGED << proc, pump, out, cancelled >> /\ turn'[t].final = turn[t].final
    BY <1>9, AtMoves DEF EndTurn, cliVars, Positions
  <2> QED
    BY <1>9, <2>1, TurnMoves, DeathMoves
<1> QED
  BY <1>2, <1>3, <1>4, <1>5, <1>6, <1>7, <1>8, <1>9 DEF TurnStep

\* Every step keeps the reports of dead processes.
LEMMA DeathKept ==
    ASSUME CliTypes, AgentTypes, Locks, PumpFollowsTurn, DeathsSeen, [AgentNext]_allVars
    PROVE  DeathsSeen'
<1>1. ASSUME NEW t \in Turns, Event(t) \/ PickerStep(t) \/ JobEnds(t)
      PROVE  DeathsSeen'
  <2>1. UNCHANGED << proc, pump, out, cancelled >>
    BY <1>1 DEF Event, StartTurn, RejectPrompt, CmdModelSpec, CmdPicker, CmdJob, PickerStep,
       PickerList, PickerAsk, PickerAnswered, PickerGivesUp, PickerSetModel,
       PickerSetProvider, JobEnds, cliVars
  <2>2. turn'[t].final = turn[t].final
    BY <1>1, CommandFinal
  <2>3. \/ Moves(t, {"idle"}, {"config", "run", "list", "done"})
        \/ Moves(t, Commands, Commands \cup {"done"})
        \/ Moves(t, {"run"}, {"done"})
    BY <1>1, CommandMoves
  <2>4. "idle" \in Begins /\ "run" \in Commands /\ "abort" \notin Commands
    BY DEF Begins, Commands
  <2> QED
    BY <2>1, <2>2, <2>3, <2>4, DeathMoves
<1>2. CASE CmdModelProvider
  <2>1. loop.t \in Turns /\ Moves(loop.t, {"run"}, {"done"})
    BY <1>2, CommandMoves DEF CmdModelProvider, Locks, LoopHoldsSlot
  <2>2. turn'[loop.t].final = turn[loop.t].final /\ UNCHANGED << proc, pump, out, cancelled >>
    BY <1>2, <2>1, AtMoves DEF CmdModelProvider, Positions, cliVars
  <2>3. "run" \in Commands
    BY DEF Commands
  <2> QED
    BY <2>1, <2>2, <2>3, DeathMoves
<1>3. ASSUME NEW t \in Turns, NEW how \in {"ok", "failed", "killed"}, Exit(t, how),
             UNCHANGED turn
      PROVE  DeathsSeen'
  <2>1. /\ proc[t] = "running" /\ proc'[t] = how
        /\ \A u \in Turns : u # t => proc'[u] = proc[u]
        /\ UNCHANGED << pump, out, cancelled >>
    BY <1>3 DEF Exit, CliTypes
  <2>2. HasTerminal(t)' <=> HasTerminal(t)
    BY <1>3, <2>1 DEF HasTerminal
  <2>3. DeathOf(t) => DeathOf(t)'
    BY <1>3, <2>1, <2>2 DEF DeathOf
  <2> QED
    BY <1>3, <2>1, <2>3, DeathOneTurn
<1>4. ASSUME NEW t \in Turns, Pump(t) \/ CliEnds(t) \/ CliKilled(t)
      PROVE  DeathsSeen'
  BY <1>3, <1>4, DeathInPump DEF Pump, CliEnds, CliKilled, GroupKilled, agentVars
<1>5. CASE UNCHANGED << turn, proc, pump, out >> /\ cancelled \subseteq cancelled'
  <2>1. ASSUME NEW t \in Turns PROVE DeathOf(t) => DeathOf(t)'
    <3>1. HasTerminal(t)' <=> HasTerminal(t)
      BY <1>5 DEF HasTerminal
    <3> QED
      BY <1>5, <3>1 DEF DeathOf
  <2> QED
    BY <2>1 DEF DeathsSeen, DeathOf
<1>6. CASE Close
  BY <1>5, <1>6, AgentAssumption DEF Close, CliTypes
<1>7. CASE \/ CloseReturns \/ UNCHANGED allVars
           \/ \E t \in Turns : DeliverAnswer(t)
           \/ \E c \in Chats : AbortChat(c) \/ CmdNew(c)
  BY <1>5, <1>7 DEF CloseReturns, DeliverAnswer, AbortChat, CmdNew, allVars, agentVars,
     cliVars
<1> QED
  BY <1>1, <1>2, <1>4, <1>6, <1>7, DeathInTurn DEF AgentNext

-----------------------------------------------------------------------------
(* The theorems *)

\* The invariant holds at the start.
LEMMA AgentInvInit == AgentInit => AgentInv
<1> SUFFICES ASSUME AgentInit PROVE AgentInv
  OBVIOUS
<1> USE AgentAssumption DEF AgentInit, CliInit, FreshTurn, NoPump
<1>1. CliTypes
  BY DEF CliTypes, PumpRecord
<1>2. AgentTypes
  BY DEF AgentTypes, TurnRecord, Positions, Finals, Setting, Unset
<1>3. SlotHeld /\ LoopHoldsSlot /\ JobsRun /\ SessionOfEpoch
  BY DEF SlotHeld, InFlight, LoopHoldsSlot, JobsRun, SessionOfEpoch
<1>4. PumpFollowsTurn /\ SlotsReturned
  BY DEF PumpFollowsTurn, SlotsReturned, PermitsReturned, BrokerHoldsWaiters
<1>5. FinalAgrees /\ DeathsSeen
  BY DEF FinalAgrees, Terminal, Begins, DeathsSeen
<1> QED
  BY <1>1, <1>2, <1>3, <1>4, <1>5 DEF AgentInv

\* Every step keeps it.
LEMMA AgentInvNext == AgentInv /\ [AgentNext]_allVars => AgentInv'
<1> SUFFICES ASSUME AgentInv, [AgentNext]_allVars PROVE AgentInv'
  OBVIOUS
<1>1. CliTypes /\ AgentTypes /\ Locks /\ PermitInv /\ BrokerHoldsWaiters /\ FinalAgrees /\ DeathsSeen
  BY DEF AgentInv, Locks, PermitInv, SlotsReturned
<1>2. CliTypes' /\ AgentTypes'
  BY <1>1, CliTypesKept, AgentTypesKept DEF Locks
<1>3. Locks' /\ PermitInv' /\ BrokerHoldsWaiters'
  BY <1>1, LocksKept, PermitKept, BrokerKept
<1>4. FinalAgrees' /\ DeathsSeen'
  BY <1>1, FinalKept, DeathKept DEF PermitInv
<1> QED
  BY <1>2, <1>3, <1>4 DEF AgentInv, Locks, PermitInv, SlotsReturned

\* The slot is the lock between the prompts of a chat (startTurn, endTurn,
\* handler_lifecycle.go): no two turns of one chat are in flight.
THEOREM OneTurnPerChatCorrect == AgentSpec => []OneTurnPerChat
<1>1. AgentInv => OneTurnPerChat
  BY DEF AgentInv, SlotHeld, OneTurnPerChat
<1> QED
  BY <1>1, AgentInvInit, AgentInvNext, PTL DEF AgentSpec

\* The mapping file of a chat is never of a conversation /new has ended.
THEOREM SessionOfEpochCorrect == AgentSpec => []SessionOfEpoch
<1>1. AgentInv => SessionOfEpoch
  BY DEF AgentInv
<1> QED
  BY <1>1, AgentInvInit, AgentInvNext, PTL DEF AgentSpec

\* Permits and answer slots are given back on every path (client.go, answer.go).
THEOREM SlotsReturnedCorrect == AgentSpec => []SlotsReturned
<1>1. AgentInv => SlotsReturned
  BY DEF AgentInv
<1> QED
  BY <1>1, AgentInvInit, AgentInvNext, PTL DEF AgentSpec

\* The abort notice and a result or error exclude each other (handler_cli.go).
THEOREM AbortXorResultCorrect == AgentSpec => []AbortXorResult
<1>1. AgentInv => AbortXorResult
  BY DEF AgentInv, AgentTypes, TurnRecord, Finals, FinalAgrees, AbortXorResult, Terminal
<1> QED
  BY <1>1, AgentInvInit, AgentInvNext, PTL DEF AgentSpec

\* A turn whose process died has recorded a final control when it is over.
THEOREM DeadProcessIsReportedCorrect == AgentSpec => []DeadProcessIsReported
<1>1. AgentInv => DeadProcessIsReported
  BY DEF AgentInv, DeathsSeen, DeadProcessIsReported
<1> QED
  BY <1>1, AgentInvInit, AgentInvNext, PTL DEF AgentSpec
=============================================================================
