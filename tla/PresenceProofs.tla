---------------------------- MODULE PresenceProofs ----------------------------
(*************************************************************************)
(* Proofs about the registry of backend connections, the debounce of     *)
(* offline notices and their composition Presence, for any number of     *)
(* backends, connections, prompts and timers and every queue capacity    *)
(* and missed-pong budget.                                               *)
(*************************************************************************)
EXTENDS Presence, FiniteSetTheorems, TLAPS

-----------------------------------------------------------------------------
(*************************************************************************)
(* BackendRegistry: every connection that is lost is reported once, no   *)
(* connection is unreachable, and a reconnect after a report is noticed. *)
(*************************************************************************)

(* Type correctness *)

\* What the actions of the health checker do to its own state.
LEMMA NextPingType ==
    ASSUME health \in HealthState, NEW b \in Backends, NextPing(b)
    PROVE  health' \in HealthState
BY RegistryAssumption DEF NextPing, HealthState, Idle, ConnOrNone

LEMMA DropIdType ==
    ASSUME health \in HealthState, NEW b \in Backends
    PROVE  DropId(b) \in HealthState /\ DropId(b).at # "report"
BY DEF DropId, HealthState, Idle, ConnOrNone

\* RegTypeOK holds initially.
LEMMA RegInitType == RegInit => RegTypeOK
BY RegistryAssumption DEF RegInit, RegTypeOK, Idle, HealthState, ConnOrNone, HandlerState

\* fireCallback adds to the bag of callbacks.
LEMMA FireType ==
    ASSUME cb \in [{"offline", "online"} -> [Backends -> Nat]],
           NEW kind \in {"offline", "online"}, NEW b \in Backends,
           FireCallback(kind, b)
    PROVE  cb' \in [{"offline", "online"} -> [Backends -> Nat]]
<1>1. [cb[kind] EXCEPT ![b] = @ + 1] \in [Backends -> Nat]
  OBVIOUS
<1> QED BY <1>1 DEF FireCallback

\* A health record with its position, conn and id replaced.
LEMMA HealthRecType ==
    ASSUME health \in HealthState, NEW c \in ConnOrNone, NEW b \in Backends,
           NEW at \in {"idle", "ping", "send", "bump", "judge", "evict", "report"}
    PROVE  /\ [health EXCEPT !.at = at, !.conn = c] \in HealthState
           /\ [health EXCEPT !.at = at, !.id = {b}, !.conn = c] \in HealthState
BY DEF HealthState

LEMMA RegTypeStep ==
    ASSUME RegTypeOK, [RegNext]_regVars
    PROVE  RegTypeOK'
<1> USE DEF RegTypeOK, ConnOrNone
<1>1. ASSUME NEW c \in Conns, RegisterWithToken(c) PROVE RegTypeOK'
  BY ZenonT(30), <1>1, RegistryAssumption DEF RegisterWithToken, HandlerState
<1>2. ASSUME NEW c \in Conns, PeerGone(c) PROVE RegTypeOK'
  BY <1>2 DEF PeerGone, HandlerState
<1>3. ASSUME NEW c \in Conns, GoSilent(c) PROVE RegTypeOK'
  BY <1>3 DEF GoSilent
<1>4. ASSUME NEW c \in Conns, NoteOnline(c) PROVE RegTypeOK'
  <2>1. Owner[c] \in Backends
    BY RegistryAssumption
  <2>2. cb' \in [{"offline", "online"} -> [Backends -> Nat]]
    BY <1>4, <2>1, FireType DEF NoteOnline
  <2> QED BY <1>4, <2>1, <2>2 DEF NoteOnline, HandlerState
<1>5. ASSUME NEW c \in Conns, Flush(c) PROVE RegTypeOK'
  <2>1. eventCh' \in [Conns -> Seq(Event)]
    BY <1>5 DEF Flush
  <2>2. pongs' \subseteq Backends
    BY <1>5, RegistryAssumption DEF Flush
  <2> QED BY <1>5, <2>1, <2>2 DEF Flush
<1>6. ASSUME NEW c \in Conns, FlushFails(c) PROVE RegTypeOK'
  BY <1>6 DEF FlushFails, HandlerState
<1>7. ASSUME NEW c \in Conns, ChannelClosed(c) PROVE RegTypeOK'
  BY <1>7 DEF ChannelClosed, HandlerState
<1>8. ASSUME NEW c \in Conns, UnregisterIfMatch(c) PROVE RegTypeOK'
  BY ZenonT(30), <1>8, RegistryAssumption DEF UnregisterIfMatch, HandlerState
<1>9. ASSUME NEW c \in Conns, ExitReport(c) PROVE RegTypeOK'
  <2>1. Owner[c] \in Backends
    BY RegistryAssumption
  <2>2. /\ cb' \in [{"offline", "online"} -> [Backends -> Nat]]
        /\ wasOffline' \subseteq Backends
    BY <1>9, <2>1, FireType DEF ExitReport, ReportOffline
  <2> QED BY <1>9, <2>2 DEF ExitReport, HandlerState
<1>10. ASSUME NEW b \in Backends, SendLookup(b) PROVE RegTypeOK'
  BY <1>10 DEF SendLookup
<1>11. ASSUME NEW b \in Backends, ReceivePong(b) PROVE RegTypeOK'
  BY <1>11 DEF ReceivePong
<1>21. ASSUME NEW b \in Backends, HealthLook(b) PROVE RegTypeOK'
  <2>1. health' \in HealthState
    <3>1. CASE NextPing(b)
      BY <3>1, NextPingType
    <3>2. CASE health' = [health EXCEPT !.at = "send", !.id = {b}, !.conn = conns[b]]
      BY <3>2, HealthRecType
    <3> QED BY <1>21, <3>1, <3>2 DEF HealthLook
  <2> QED BY <1>21, <2>1 DEF HealthLook
<1>12. ASSUME NEW b \in Backends, HealthPing(b) PROVE RegTypeOK'
  <2>1. health' \in HealthState
    <3>1. CASE NextPing(b)
      BY <3>1, NextPingType
    <3>2. CASE health' = [health EXCEPT !.at = "bump"]
      BY <3>2 DEF HealthState
    <3> QED BY <1>12, <3>1, <3>2 DEF HealthPing
  <2>2. eventCh' \in [Conns -> Seq(Event)]
    <3>1. CASE conns[b] \in Conns /\ eventCh' = [eventCh EXCEPT ![conns[b]] = Append(@, "ping")]
      BY <3>1 DEF Event
    <3>2. CASE UNCHANGED eventCh
      BY <3>2
    <3> QED BY <1>12, <3>1, <3>2 DEF HealthPing
  <2> QED BY <1>12, <2>1, <2>2 DEF HealthPing
<1>13. ASSUME NEW b \in Backends, HealthBump(b) PROVE RegTypeOK'
  <2>1. health' \in HealthState
    BY <1>13, NextPingType DEF HealthBump
  <2>2. missed' \in [Conns -> Nat]
    <3>1. CASE health.conn \in Conns
      BY <1>13, <3>1 DEF HealthBump
    <3>2. CASE health.conn \notin Conns
      <4>1. missed' = missed
        BY <1>13, <3>2 DEF HealthBump
      <4> QED BY <4>1
    <3> QED BY <3>1, <3>2
  <2> QED BY <1>13, <2>1, <2>2 DEF HealthBump
<1>14. ASSUME NEW b \in Backends, HealthJudge(b) PROVE RegTypeOK'
  <2>1. health' \in HealthState
    BY <1>14, DropIdType DEF HealthJudge, HealthState
  <2> QED BY <1>14, <2>1 DEF HealthJudge
<1>15. ASSUME NEW b \in Backends, HealthEvict(b) PROVE RegTypeOK'
  <2>1. health' \in HealthState
    <3>1. CASE conns[b] = NoConn
      BY <1>15, <3>1, DropIdType DEF HealthEvict
    <3>2. CASE conns[b] # NoConn
      <4>1. health' = [health EXCEPT !.at = "report", !.conn = conns[b]]
        BY <1>15, <3>2 DEF HealthEvict
      <4>2. conns[b] \in ConnOrNone
        OBVIOUS
      <4> QED BY <4>1, <4>2, HealthRecType
    <3> QED BY <3>1, <3>2
  <2>2. closed' \subseteq Conns /\ conns' \in [Backends -> ConnOrNone]
    <3>1. CASE conns[b] = NoConn
      BY <1>15, <3>1 DEF HealthEvict
    <3>2. CASE conns[b] # NoConn
      <4>1. conns[b] \in Conns
        BY <3>2
      <4>2. closed' = closed \cup {conns[b]} /\ conns' = [conns EXCEPT ![b] = NoConn]
        BY <1>15, <3>2 DEF HealthEvict
      <4> QED BY <4>1, <4>2
    <3> QED BY <3>1, <3>2
  <2> QED BY <1>15, <2>1, <2>2 DEF HealthEvict
<1>16. ASSUME NEW b \in Backends, HealthReport(b) PROVE RegTypeOK'
  <2>1. health' \in HealthState
    BY <1>16, DropIdType DEF HealthReport
  <2>2. /\ cb' \in [{"offline", "online"} -> [Backends -> Nat]]
        /\ wasOffline' \subseteq Backends
    BY <1>16, FireType DEF HealthReport, ReportOffline
  <2>3. fired' \in [Conns -> Nat]
    <3>1. CASE health.conn \in Conns
      BY <1>16, <3>1 DEF HealthReport
    <3>2. CASE health.conn \notin Conns
      <4>1. fired' = fired
        BY <1>16, <3>2 DEF HealthReport
      <4> QED BY <4>1
    <3> QED BY <3>1, <3>2
  <2> QED BY <1>16, <2>1, <2>2, <2>3 DEF HealthReport
<1>17. ASSUME SendPush PROVE RegTypeOK'
  BY <1>17 DEF SendPush, Event
<1>18. ASSUME HealthSnapshot PROVE RegTypeOK'
  BY <1>18 DEF HealthSnapshot, HealthState, Idle
<1>19. ASSUME NEW kind \in {"offline", "online"}, NEW b \in Backends,
              TakeCallback(kind, b)
       PROVE  RegTypeOK'
  BY <1>19 DEF TakeCallback
<1>20. CASE UNCHANGED regVars
  BY <1>20 DEF regVars
<1> QED
  BY <1>1, <1>2, <1>3, <1>4, <1>5, <1>6, <1>7, <1>8, <1>9, <1>10, <1>11, <1>12,
     <1>13, <1>14, <1>15, <1>16, <1>17, <1>18, <1>19, <1>20, <1>21
  DEF RegNext, RegStep, SSEStep, HealthStep

\* The registry's state keeps its types in every reachable state.
THEOREM RegTypeCorrect == RegSpec => []RegTypeOK
BY RegInitType, RegTypeStep, PTL DEF RegSpec

-----------------------------------------------------------------------------
(* Every connection has one fate *)

RegInv == RegTypeOK /\ NoOrphanConn /\ LossAccounted

LEMMA RegInitInv == RegInit => NoOrphanConn /\ LossAccounted
BY RegistryAssumption
DEF RegInit, NoOrphanConn, LossAccounted, Bound, Alive, One, SSEReports,
    HealthReports, Idle

\* A step that changes no fate: the same connections are bound, closed,
\* replaced and reported, and handlers move only within their life.
LEMMA SameFates ==
    ASSUME NoOrphanConn, LossAccounted,
           UNCHANGED << conns, closed, replaced, fired >>,
           \A c \in Conns : Alive(c)' <=> Alive(c),
           \A c \in Conns : (handler[c] = "none")' <=> handler[c] = "none",
           \A c \in Conns : SSEReports(c)' <=> SSEReports(c),
           \A c \in Conns : HealthReports(c)' <=> HealthReports(c)
    PROVE  NoOrphanConn' /\ LossAccounted'
BY DEF NoOrphanConn, LossAccounted, Bound, One

\* The handler's own moves between registering and exiting.
LEMMA HandlerMoves ==
    ASSUME RegTypeOK, NoOrphanConn, LossAccounted,
           UNCHANGED << conns, closed, replaced, fired, health >>,
           NEW c \in Conns, Alive(c),
           NEW to \in {"streaming", "exiting"},
           handler' = [handler EXCEPT ![c] = to]
    PROVE  NoOrphanConn' /\ LossAccounted'
<1>1. \A d \in Conns : /\ Alive(d)' <=> Alive(d)
                       /\ (handler[d] = "none")' <=> handler[d] = "none"
                       /\ SSEReports(d)' <=> SSEReports(d)
                       /\ HealthReports(d)' <=> HealthReports(d)
  BY DEF RegTypeOK, Alive, SSEReports, HealthReports
<1> QED BY <1>1, SameFates

\* The health checker's moves other than removing and reporting.
LEMMA HealthMoves ==
    ASSUME NoOrphanConn, LossAccounted,
           UNCHANGED << conns, closed, replaced, fired, handler >>,
           health.at # "report", health'.at # "report"
    PROVE  NoOrphanConn' /\ LossAccounted'
<1>1. \A d \in Conns : /\ Alive(d)' <=> Alive(d)
                       /\ (handler[d] = "none")' <=> handler[d] = "none"
                       /\ SSEReports(d)' <=> SSEReports(d)
                       /\ HealthReports(d)' <=> HealthReports(d)
  BY DEF Alive, SSEReports, HealthReports
<1> QED BY <1>1, SameFates

\* A bound connection has no other fate yet, and its handler has started.
LEMMA BoundFate ==
    ASSUME LossAccounted, NEW d \in Conns, fired[d] \in Nat, Bound(d)
    PROVE  /\ d \notin replaced /\ ~SSEReports(d) /\ ~HealthReports(d)
           /\ fired[d] = 0 /\ handler[d] # "none"
<1>1. One(Bound(d)) = 1
  BY DEF One
<1>2. 1 + One(d \in replaced) + One(SSEReports(d)) + One(HealthReports(d)) + fired[d]
        = One(handler[d] # "none")
  BY <1>1 DEF LossAccounted
<1>3. handler[d] # "none"
  BY <1>2 DEF One
<1>4. One(d \in replaced) + One(SSEReports(d)) + One(HealthReports(d)) + fired[d] = 0
  BY <1>2, <1>3 DEF One
<1> QED BY <1>3, <1>4 DEF One

LEMMA RegisterKeeps ==
    ASSUME RegTypeOK, NoOrphanConn, LossAccounted, NEW c \in Conns,
           RegisterWithToken(c)
    PROVE  NoOrphanConn' /\ LossAccounted'
<1> DEFINE old == conns[Owner[c]]
<1> USE RegistryAssumption DEF RegTypeOK, ConnOrNone
<1>1. /\ handler[c] = "none" /\ handler' = [handler EXCEPT ![c] = "registered"]
      /\ closed' = closed \cup ({old} \ {NoConn})
      /\ replaced' = replaced \cup ({old} \ {NoConn})
      /\ conns' = [conns EXCEPT ![Owner[c]] = c]
      /\ UNCHANGED << health, fired >>
  BY DEF RegisterWithToken
<1>2. /\ c \notin closed /\ ~Bound(c) /\ c \notin replaced /\ ~SSEReports(c)
      /\ ~HealthReports(c) /\ fired[c] = 0
  BY <1>1 DEF NoOrphanConn, LossAccounted, One, Alive
<1>3. old # c
  BY <1>2 DEF Bound
<1>4. \A b \in Backends : conns'[b] # NoConn => Owner[conns'[b]] = b
  BY <1>1 DEF NoOrphanConn
<1> SUFFICES ASSUME NEW d \in Conns
             PROVE  /\ (Bound(d) <=> Alive(d) /\ d \notin closed)'
                    /\ (d \in closed => handler[d] # "none")'
                    /\ (One(Bound(d)) + One(d \in replaced) + One(SSEReports(d))
                         + One(HealthReports(d)) + fired[d]
                         = One(handler[d] # "none"))'
  BY <1>4 DEF NoOrphanConn, LossAccounted
<1>5. CASE d = c
  BY <1>1, <1>2, <1>3, <1>5
  DEF Bound, Alive, One, SSEReports, HealthReports
<1>6. CASE d # c /\ d = old
  <2>1. Owner[d] = Owner[c] /\ Bound(d)
    BY <1>6 DEF Bound, NoOrphanConn
  <2>2. /\ ~Bound(d)' /\ d \in closed' /\ d \in replaced' /\ d \notin replaced
        /\ handler'[d] = handler[d] /\ handler[d] # "none"
    <3>1. d \notin replaced /\ handler[d] # "none"
      BY <2>1, BoundFate
    <3>2. conns'[Owner[d]] = c
      BY <1>1, <2>1
    <3>3. d \in closed' /\ d \in replaced' /\ handler'[d] = handler[d]
      BY <1>1, <1>6
    <3> QED BY <1>6, <3>1, <3>2, <3>3 DEF Bound
  <2> QED BY SMTT(30), <1>1, <2>1, <2>2
          DEF Alive, One, SSEReports, HealthReports, NoOrphanConn, LossAccounted
<1>7. CASE d # c /\ d # old
  <2>1. /\ d \in closed' <=> d \in closed
        /\ d \in replaced' <=> d \in replaced
        /\ handler'[d] = handler[d]
    BY <1>1, <1>7
  <2>2. Bound(d)' <=> Bound(d)
    BY <1>1, <1>7 DEF Bound
  <2> QED BY <1>1, <2>1, <2>2
          DEF Alive, One, SSEReports, HealthReports, NoOrphanConn, LossAccounted
<1> QED BY <1>5, <1>6, <1>7

\* Removing the bound connection r of b, whose removal somebody then reports.
LEMMA RemovalKeeps ==
    ASSUME RegTypeOK, RegTypeOK', NoOrphanConn, LossAccounted,
           NEW b \in Backends, NEW r \in Conns, conns[b] = r,
           closed' = closed \cup {r},
           conns' = [conns EXCEPT ![b] = NoConn],
           UNCHANGED << replaced, fired >>,
           \A d \in Conns \ {r} :
               /\ handler'[d] = handler[d]
               /\ HealthReports(d)' <=> HealthReports(d),
           handler'[r] # "none",
           One(SSEReports(r))' + One(HealthReports(r))' = 1
    PROVE  NoOrphanConn' /\ LossAccounted'
<1> USE RegistryAssumption DEF RegTypeOK, ConnOrNone
<1>1. r \in Conns /\ Owner[r] = b /\ Bound(r)
  BY DEF NoOrphanConn, Bound
<1>2. \A a \in Backends : conns'[a] # NoConn => Owner[conns'[a]] = a
  BY DEF NoOrphanConn
<1> SUFFICES ASSUME NEW d \in Conns
             PROVE  /\ (Bound(d) <=> Alive(d) /\ d \notin closed)'
                    /\ (d \in closed => handler[d] # "none")'
                    /\ (One(Bound(d)) + One(d \in replaced) + One(SSEReports(d))
                         + One(HealthReports(d)) + fired[d]
                         = One(handler[d] # "none"))'
  BY <1>2 DEF NoOrphanConn, LossAccounted
<1>3. CASE d = r
  <2>1. d \notin replaced /\ fired[d] = 0
    BY <1>1, <1>3, BoundFate
  <2>2. ~Bound(d)' /\ d \in closed'
    BY <1>1, <1>3 DEF Bound
  <2>3. ~(d \in replaced)' /\ fired'[d] = 0
    BY <2>1
  <2>4. handler'[d] # "none" /\ One(SSEReports(d))' + One(HealthReports(d))' = 1
    BY <1>3
  <2> QED BY <2>2, <2>3, <2>4 DEF One
<1>4. CASE d # r
  <2>1. Bound(d)' <=> Bound(d)
    <3>1. CASE Owner[d] = b
      BY <1>1, <1>4, <3>1 DEF Bound
    <3>2. CASE Owner[d] # b
      BY <3>2 DEF Bound
    <3> QED BY <3>1, <3>2
  <2>2. d \in closed' <=> d \in closed
    BY <1>4
  <2>3. /\ handler'[d] = handler[d]
        /\ HealthReports(d)' <=> HealthReports(d)
    BY <1>4
  <2>4. SSEReports(d)' <=> SSEReports(d)
    BY <2>3 DEF SSEReports
  <2>5. Alive(d)' <=> Alive(d)
    BY <2>3 DEF Alive
  <2>6. (Bound(d) <=> Alive(d) /\ d \notin closed)'
    BY <2>1, <2>2, <2>5 DEF NoOrphanConn
  <2>7. (d \in closed => handler[d] # "none")'
    BY <2>2, <2>3 DEF NoOrphanConn
  <2>8. /\ One(Bound(d))' = One(Bound(d))
        /\ One(d \in replaced)' = One(d \in replaced)
        /\ One(SSEReports(d))' = One(SSEReports(d))
        /\ One(HealthReports(d))' = One(HealthReports(d))
        /\ One(handler[d] # "none")' = One(handler[d] # "none")
    BY <2>1, <2>3, <2>4 DEF One
  <2> QED BY <2>6, <2>7, <2>8 DEF LossAccounted
<1> QED BY <1>3, <1>4

\* The SSE handler's exit: remove the connection it still owns, or leave.
LEMMA UnregisterKeeps ==
    ASSUME RegTypeOK, RegTypeOK', NoOrphanConn, LossAccounted, NEW c \in Conns,
           UnregisterIfMatch(c)
    PROVE  NoOrphanConn' /\ LossAccounted'
<1>1. /\ handler[c] = "exiting" /\ handler \in [Conns -> HandlerState]
      /\ fired \in [Conns -> Nat] /\ Owner[c] \in Backends
      /\ UNCHANGED << health, replaced, fired >>
  BY RegistryAssumption DEF UnregisterIfMatch, RegTypeOK
<1>2. CASE Bound(c)
  <2>1. /\ conns' = [conns EXCEPT ![Owner[c]] = NoConn]
        /\ closed' = closed \cup {c}
        /\ handler' = [handler EXCEPT ![c] = "removed"]
    BY <1>2 DEF UnregisterIfMatch
  <2>2. \A d \in Conns \ {c} : /\ handler'[d] = handler[d]
                               /\ HealthReports(d)' <=> HealthReports(d)
    BY <1>1, <2>1 DEF HealthReports
  <2>3. ~HealthReports(c)
    BY <1>1, <1>2, BoundFate
  <2>4. handler'[c] = "removed" /\ ~HealthReports(c)'
    BY <1>1, <2>1, <2>3 DEF HealthReports
  <2>5. One(SSEReports(c))' + One(HealthReports(c))' = 1
    BY <2>4 DEF One, SSEReports
  <2>6. conns[Owner[c]] = c
    BY <1>2 DEF Bound
  <2> QED BY <1>1, <2>1, <2>2, <2>4, <2>5, <2>6, RemovalKeeps
<1>3. CASE ~Bound(c)
  <2>1. /\ handler' = [handler EXCEPT ![c] = "done"]
        /\ UNCHANGED << conns, closed >>
    BY <1>3 DEF UnregisterIfMatch
  <2>2. \A d \in Conns : /\ Alive(d)' <=> Alive(d) /\ d # c
                         /\ (handler[d] = "none")' <=> handler[d] = "none"
                         /\ SSEReports(d)' <=> SSEReports(d)
                         /\ HealthReports(d)' <=> HealthReports(d)
    BY <1>1, <2>1 DEF Alive, SSEReports, HealthReports
  <2>3. NoOrphanConn'
    BY <1>3, <2>1, <2>2 DEF NoOrphanConn, Bound
  <2>4. LossAccounted'
    BY <1>1, <2>1, <2>2 DEF LossAccounted, Bound, One
  <2> QED BY <2>3, <2>4
<1> QED BY <1>2, <1>3

\* The health checker's Unregister.
LEMMA EvictKeeps ==
    ASSUME RegTypeOK, RegTypeOK', NoOrphanConn, LossAccounted, NEW b \in Backends,
           HealthEvict(b)
    PROVE  NoOrphanConn' /\ LossAccounted'
<1>1. /\ health.at = "evict" /\ health \in HealthState /\ fired \in [Conns -> Nat]
      /\ UNCHANGED << handler, replaced, fired >>
  BY DEF HealthEvict, RegTypeOK
<1>2. CASE conns[b] = NoConn
  <2>1. health' = DropId(b) /\ UNCHANGED << conns, closed >>
    BY <1>2 DEF HealthEvict
  <2>2. health'.at # "report"
    BY <1>1, <2>1, DropIdType
  <2> QED BY <1>1, <2>1, <2>2, HealthMoves
<1>3. CASE conns[b] # NoConn
  <2>1. PICK r \in Conns : conns[b] = r
    BY <1>3 DEF RegTypeOK, ConnOrNone
  <2>2. /\ health' = [health EXCEPT !.at = "report", !.conn = r]
        /\ closed' = closed \cup {r}
        /\ conns' = [conns EXCEPT ![b] = NoConn]
    BY <1>3, <2>1 DEF HealthEvict
  <2>3. health'.at = "report" /\ health'.conn = r
    BY <1>1, <2>2 DEF HealthState
  <2>4. \A d \in Conns \ {r} : /\ handler'[d] = handler[d]
                               /\ HealthReports(d)' <=> HealthReports(d)
    BY <1>1, <2>3 DEF HealthReports
  <2>5. Bound(r)
    BY <1>3, <2>1 DEF NoOrphanConn, Bound
  <2>6. handler'[r] # "none" /\ ~SSEReports(r)' /\ HealthReports(r)'
    BY <1>1, <2>3, <2>5, BoundFate DEF SSEReports, HealthReports
  <2>7. One(SSEReports(r))' + One(HealthReports(r))' = 1
    BY <2>6 DEF One
  <2> QED BY <1>1, <2>1, <2>2, <2>4, <2>6, <2>7, RemovalKeeps
<1> QED BY <1>2, <1>3

\* A report: the removed connection's fate moves from "about to be reported"
\* to "reported once".
LEMMA ExitReportKeeps ==
    ASSUME RegTypeOK, NoOrphanConn, LossAccounted, NEW c \in Conns, ExitReport(c)
    PROVE  NoOrphanConn' /\ LossAccounted'
<1>1. /\ handler[c] = "removed" /\ handler' = [handler EXCEPT ![c] = "done"]
      /\ fired' = [fired EXCEPT ![c] = @ + 1]
      /\ handler \in [Conns -> HandlerState] /\ fired \in [Conns -> Nat]
      /\ UNCHANGED << conns, closed, health, replaced >>
  BY DEF ExitReport, RegTypeOK
<1>2. \A d \in Conns : /\ Alive(d)' <=> Alive(d)
                       /\ (handler[d] = "none")' <=> handler[d] = "none"
                       /\ SSEReports(d)' <=> SSEReports(d) /\ d # c
                       /\ HealthReports(d)' <=> HealthReports(d)
  BY <1>1 DEF Alive, SSEReports, HealthReports
<1>3. NoOrphanConn'
  BY <1>1, <1>2 DEF NoOrphanConn, Bound
<1>4. SSEReports(c)
  BY <1>1 DEF SSEReports
<1>5. LossAccounted'
  BY <1>1, <1>2, <1>4 DEF LossAccounted, Bound, One
<1> QED BY <1>3, <1>5

LEMMA HealthReportKeeps ==
    ASSUME RegTypeOK, NoOrphanConn, LossAccounted, NEW b \in Backends, HealthReport(b)
    PROVE  NoOrphanConn' /\ LossAccounted'
<1>1. /\ health.at = "report" /\ health' = DropId(b)
      /\ fired' = [fired EXCEPT ![health.conn] = @ + 1]
      /\ health \in HealthState /\ fired \in [Conns -> Nat]
      /\ UNCHANGED << conns, closed, handler, replaced >>
  BY DEF HealthReport, RegTypeOK
<1>2. health'.at # "report"
  BY <1>1, DropIdType
<1>3. \A d \in Conns : /\ Alive(d)' <=> Alive(d)
                       /\ (handler[d] = "none")' <=> handler[d] = "none"
                       /\ SSEReports(d)' <=> SSEReports(d)
                       /\ ~HealthReports(d)'
                       /\ HealthReports(d) <=> d = health.conn
                       /\ fired'[d] = IF d = health.conn THEN fired[d] + 1 ELSE fired[d]
  BY <1>1, <1>2 DEF Alive, SSEReports, HealthReports
<1>4. NoOrphanConn'
  BY <1>1, <1>3 DEF NoOrphanConn, Bound
<1>5. LossAccounted'
  <2> SUFFICES ASSUME NEW d \in Conns
               PROVE  (One(Bound(d)) + One(d \in replaced) + One(SSEReports(d))
                         + One(HealthReports(d)) + fired[d]
                         = One(handler[d] # "none"))'
    BY DEF LossAccounted
  <2>1. /\ One(Bound(d))' = One(Bound(d))
        /\ One(d \in replaced)' = One(d \in replaced)
        /\ One(SSEReports(d))' = One(SSEReports(d))
        /\ One(handler[d] # "none")' = One(handler[d] # "none")
    BY <1>1, <1>3 DEF One, Bound
  <2>2. One(HealthReports(d))' + fired'[d] = One(HealthReports(d)) + fired[d]
    BY <1>1, <1>3 DEF One
  <2>3. One(Bound(d)) \in Nat /\ One(d \in replaced) \in Nat /\ One(SSEReports(d)) \in Nat
        /\ One(HealthReports(d)) \in Nat /\ One(HealthReports(d))' \in Nat
        /\ fired[d] \in Nat /\ fired'[d] \in Nat
    BY <1>1 DEF One
  <2>4. One(Bound(d)) + One(d \in replaced) + One(SSEReports(d))
          + One(HealthReports(d)) + fired[d] = One(handler[d] # "none")
    BY DEF LossAccounted
  <2> HIDE DEF One
  <2>5. One(Bound(d))' + One(d \in replaced)' + One(SSEReports(d))'
          + One(HealthReports(d))' + fired'[d] = One(handler[d] # "none")'
    BY <2>1, <2>2, <2>3, <2>4
  <2> QED BY <2>5
<1> QED BY <1>4, <1>5

LEMMA RegInvStep ==
    ASSUME RegInv, [RegNext]_regVars
    PROVE  RegInv'
<1> USE DEF RegInv
<1>1. RegTypeOK'
  BY RegTypeStep
<1> SUFFICES NoOrphanConn' /\ LossAccounted'
  BY <1>1
<1> DEFINE Kept == NoOrphanConn' /\ LossAccounted'
           Types == /\ handler \in [Conns -> HandlerState]
                    /\ health \in HealthState
<1>2. Types
  BY DEF RegTypeOK
<1>3. ASSUME NEW c \in Conns, RegisterWithToken(c) PROVE Kept
  BY <1>3, RegisterKeeps
<1>4. ASSUME NEW c \in Conns, PeerGone(c) PROVE Kept
  BY <1>4, HandlerMoves DEF PeerGone, Alive
<1>5. ASSUME NEW c \in Conns, NoteOnline(c) PROVE Kept
  BY <1>5, HandlerMoves DEF NoteOnline, Alive
<1>6. ASSUME NEW c \in Conns, FlushFails(c) PROVE Kept
  BY <1>6, HandlerMoves DEF FlushFails, Alive
<1>7. ASSUME NEW c \in Conns, ChannelClosed(c) PROVE Kept
  BY <1>7, HandlerMoves DEF ChannelClosed, Alive
<1>8. ASSUME NEW c \in Conns, UnregisterIfMatch(c) PROVE Kept
  BY <1>1, <1>8, UnregisterKeeps
<1>9. ASSUME NEW c \in Conns, ExitReport(c) PROVE Kept
  BY <1>9, ExitReportKeeps
<1>10. ASSUME NEW b \in Backends, HealthEvict(b) PROVE Kept
  BY <1>1, <1>10, EvictKeeps
<1>11. ASSUME NEW b \in Backends, HealthReport(b) PROVE Kept
  BY <1>11, HealthReportKeeps
<1>21. ASSUME NEW b \in Backends, HealthLook(b) PROVE Kept
  <2>1. health.at # "report" /\ health'.at # "report"
    BY <1>2, <1>21 DEF HealthLook, NextPing, HealthState, Idle
  <2> QED BY <1>21, <2>1, HealthMoves DEF HealthLook
<1>12. ASSUME NEW b \in Backends, HealthPing(b) PROVE Kept
  <2>1. health.at # "report" /\ health'.at # "report"
    BY <1>2, <1>12 DEF HealthPing, NextPing, HealthState, Idle
  <2> QED BY <1>12, <2>1, HealthMoves DEF HealthPing
<1>13. ASSUME NEW b \in Backends, HealthBump(b) PROVE Kept
  <2>1. health.at # "report" /\ health'.at # "report"
    BY <1>13 DEF HealthBump, NextPing, Idle
  <2> QED BY <1>13, <2>1, HealthMoves DEF HealthBump
<1>14. ASSUME NEW b \in Backends, HealthJudge(b) PROVE Kept
  <2>1. health.at # "report" /\ health'.at # "report"
    BY <1>2, <1>14, DropIdType DEF HealthJudge, HealthState
  <2> QED BY <1>14, <2>1, HealthMoves DEF HealthJudge
<1>15. ASSUME HealthSnapshot PROVE Kept
  <2>1. health.at # "report" /\ health'.at # "report"
    BY <1>15 DEF HealthSnapshot, Idle
  <2> QED BY <1>15, <2>1, HealthMoves DEF HealthSnapshot
<1>16. ASSUME UNCHANGED << conns, closed, replaced, fired, handler, health >>
       PROVE  Kept
  BY <1>16, SameFates DEF Alive, SSEReports, HealthReports
<1>17. ASSUME NEW c \in Conns, GoSilent(c) \/ Flush(c) PROVE Kept
  BY <1>16, <1>17 DEF GoSilent, Flush
<1>18. ASSUME NEW b \in Backends, SendLookup(b) \/ ReceivePong(b) PROVE Kept
  BY <1>16, <1>18 DEF SendLookup, ReceivePong
<1>19. CASE SendPush \/ UNCHANGED regVars
  BY <1>16, <1>19 DEF SendPush, regVars
<1>20. ASSUME NEW kind \in {"offline", "online"}, NEW b \in Backends,
              TakeCallback(kind, b)
       PROVE  Kept
  BY <1>16, <1>20 DEF TakeCallback
<1> QED
  BY <1>3, <1>4, <1>5, <1>6, <1>7, <1>8, <1>9, <1>10, <1>11, <1>12, <1>13,
     <1>14, <1>15, <1>17, <1>18, <1>19, <1>20, <1>21
  DEF RegNext, RegStep, SSEStep, HealthStep

\* The inductive invariant of the registry.
THEOREM RegInvariant == RegSpec => []RegInv
<1>1. RegInit => RegInv
  BY RegInitType, RegInitInv DEF RegInv
<1>2. RegInv /\ [RegNext]_regVars => RegInv'
  BY RegInvStep
<1> QED BY <1>1, <1>2, PTL DEF RegSpec

\* A connection is reachable exactly while its handler lives and its channel is
\* open: no reconnect, handler exit or eviction, in any order, leaves an open
\* connection unreachable or a closed one in the map.
THEOREM ConnReachable == RegSpec => []NoOrphanConn
BY RegInvariant, PTL DEF RegInv

\* However the replacing Register, the exit of the handler and the health
\* checker race for a connection, its loss is reported once or it was replaced.
THEOREM EveryLossReportedOnce == RegSpec => []LossAccounted
BY RegInvariant, PTL DEF RegInv

-----------------------------------------------------------------------------
(* The registry implements ConnLife *)

\* By LossAccounted the tests of Fate exclude each other.
LEMMA FateFacts ==
    ASSUME LossAccounted, NEW c \in Conns, fired[c] \in Nat
    PROVE  /\ Bound(c) => Fate(c) = "bound"
           /\ SSEReports(c) \/ HealthReports(c) => Fate(c) = "lost" /\ fired[c] = 0
           /\ SSEReports(c) => ~HealthReports(c)
           /\ handler[c] = "none" => Fate(c) = "new" /\ fired[c] = 0 /\ c \notin replaced
           /\ c \in replaced => fired[c] = 0
<1>1. One(Bound(c)) + One(c \in replaced) + One(SSEReports(c))
        + One(HealthReports(c)) + fired[c] = One(handler[c] # "none")
  BY DEF LossAccounted
<1>2. One(handler[c] # "none") \in {0, 1}
  BY DEF One
<1>3. Bound(c) => /\ c \notin replaced /\ ~SSEReports(c) /\ ~HealthReports(c)
                  /\ fired[c] = 0
  BY BoundFate
<1>4. SSEReports(c) => ~HealthReports(c) /\ fired[c] = 0
  BY <1>1, <1>2 DEF One
<1>5. HealthReports(c) => fired[c] = 0
  BY <1>1, <1>2 DEF One
<1>6. c \in replaced => fired[c] = 0
  BY <1>1, <1>2 DEF One
<1>7. handler[c] = "none" => /\ ~Bound(c) /\ c \notin replaced /\ ~SSEReports(c)
                             /\ ~HealthReports(c) /\ fired[c] = 0
  BY <1>1 DEF One
<1> QED BY <1>3, <1>4, <1>5, <1>6, <1>7 DEF Fate

\* A fate is what the tests of Fate say, and stays while they do.
LEMMA FateKept ==
    ASSUME NEW d \in Conns,
           Bound(d)' <=> Bound(d),
           (d \in replaced)' <=> d \in replaced,
           (SSEReports(d) \/ HealthReports(d))' <=> SSEReports(d) \/ HealthReports(d),
           fired'[d] = fired[d]
    PROVE  Fate(d)' = Fate(d)
BY DEF Fate

\* A step that moves one connection on is a step of its life.
LEMMA LoseStep ==
    ASSUME NEW r \in Conns, Fate(r) = "bound", Fate(r)' = "lost",
           \A d \in Conns \ {r} : Fate(d)' = Fate(d)
    PROVE  Life!LifeNext
<1>1. Life!Lose(r)
  BY DEF Life!Lose
<1> QED BY <1>1 DEF Life!LifeNext

LEMMA ReportStep ==
    ASSUME NEW r \in Conns, Fate(r) = "lost", Fate(r)' = "reported",
           \A d \in Conns \ {r} : Fate(d)' = Fate(d)
    PROVE  Life!LifeNext
<1>1. Life!Report(r)
  BY DEF Life!Report
<1> QED BY <1>1 DEF Life!LifeNext

\* RegisterWithToken is Register: the bound connection becomes the replaced one.
LEMMA RegisterIsRegister ==
    ASSUME RegInv, NEW c \in Conns, RegisterWithToken(c)
    PROVE  Life!LifeNext
<1> DEFINE old == conns[Owner[c]]
<1>1. /\ handler[c] = "none" /\ handler' = [handler EXCEPT ![c] = "registered"]
      /\ replaced' = replaced \cup ({old} \ {NoConn})
      /\ conns' = [conns EXCEPT ![Owner[c]] = c]
      /\ UNCHANGED << health, fired >>
  BY DEF RegisterWithToken
<1>2. /\ handler \in [Conns -> HandlerState] /\ conns \in [Backends -> ConnOrNone]
      /\ fired \in [Conns -> Nat] /\ \A d \in Conns : Owner[d] \in Backends /\ d # NoConn
      /\ NoOrphanConn /\ LossAccounted
  BY RegistryAssumption DEF RegInv, RegTypeOK
<1>3. Fate(c) = "new" /\ fired[c] = 0 /\ c \notin replaced
  BY <1>1, <1>2, FateFacts
<1>4. ~Bound(c) /\ ~SSEReports(c) /\ ~HealthReports(c)
  BY <1>3 DEF Fate
<1>5. Fate(c)' = "bound"
  <2>1. Bound(c)'
    BY <1>1, <1>2 DEF Bound
  <2>2. c \notin replaced'
    BY <1>1, <1>3, <1>4 DEF Bound
  <2>3. ~SSEReports(c)' /\ ~HealthReports(c)' /\ fired'[c] # 1
    BY <1>1, <1>2, <1>3, <1>4 DEF SSEReports, HealthReports
  <2> QED BY <2>1, <2>2, <2>3 DEF Fate
<1>6. ASSUME NEW d \in Conns \ {c}
      PROVE  Fate(d)' = IF Owner[d] = Owner[c] /\ Fate(d) = "bound" THEN "replaced"
                        ELSE Fate(d)
  <2>1. /\ (SSEReports(d) \/ HealthReports(d))' <=> SSEReports(d) \/ HealthReports(d)
        /\ fired'[d] = fired[d]
    BY <1>1, <1>2 DEF SSEReports, HealthReports
  <2>2. CASE d = old
    <3>1. Owner[d] = Owner[c] /\ Bound(d)
      BY <1>2, <2>2 DEF Bound, NoOrphanConn
    <3>2. Fate(d) = "bound" /\ ~SSEReports(d) /\ ~HealthReports(d) /\ fired[d] = 0
      BY <1>2, <3>1, FateFacts, BoundFate
    <3>3. d \in replaced'
      BY <1>1, <1>2, <2>2
    <3> QED BY <2>1, <3>1, <3>2, <3>3 DEF Fate
  <2>3. CASE d # old
    <3>1. (d \in replaced)' <=> d \in replaced
      BY <1>1, <2>3
    <3>2. Bound(d)' <=> Bound(d)
      BY <1>1, <1>2, <2>3 DEF Bound
    <3>3. ~(Owner[d] = Owner[c] /\ Fate(d) = "bound")
      BY <2>3 DEF Fate, Bound
    <3> QED BY <2>1, <3>1, <3>2, <3>3, FateKept
  <2> QED BY <2>2, <2>3
<1>7. Life!Register(c)
  <2>1. [d \in Conns |-> Fate(d)]'
          = [d \in Conns |-> IF d = c THEN "bound"
                             ELSE IF Owner[d] = Owner[c] /\ Fate(d) = "bound" THEN "replaced"
                             ELSE Fate(d)]
    BY <1>5, <1>6
  <2> QED BY <1>3, <2>1 DEF Life!Register
<1> QED BY <1>7 DEF Life!LifeNext

\* Removing the bound connection r of b, to report it, is Lose.
LEMMA RemovalIsLose ==
    ASSUME RegInv, NEW b \in Backends, NEW r \in Conns, conns[b] = r,
           conns' = [conns EXCEPT ![b] = NoConn],
           UNCHANGED << replaced, fired >>,
           \A d \in Conns \ {r} : (SSEReports(d) \/ HealthReports(d))'
                                     <=> SSEReports(d) \/ HealthReports(d),
           (SSEReports(r) \/ HealthReports(r))'
    PROVE  Life!LifeNext
<1>1. /\ conns \in [Backends -> ConnOrNone] /\ fired \in [Conns -> Nat]
      /\ \A d \in Conns : Owner[d] \in Backends /\ d # NoConn
      /\ NoOrphanConn /\ LossAccounted
  BY RegistryAssumption DEF RegInv, RegTypeOK
<1>2. Owner[r] = b /\ Bound(r)
  BY <1>1 DEF NoOrphanConn, Bound
<1>3. Fate(r) = "bound" /\ fired[r] = 0
  BY <1>1, <1>2, FateFacts, BoundFate
<1>4. Fate(r)' = "lost"
  BY <1>3 DEF Fate
<1>5. ASSUME NEW d \in Conns \ {r} PROVE Fate(d)' = Fate(d)
  <2>1. Bound(d)' <=> Bound(d)
    BY <1>1, <1>2 DEF Bound
  <2> QED BY <2>1, FateKept
<1> QED BY <1>3, <1>4, <1>5, LoseStep

\* The callback for the removed connection r is Report.
LEMMA CallbackIsReport ==
    ASSUME RegInv, NEW r \in Conns, SSEReports(r) \/ HealthReports(r),
           fired' = [fired EXCEPT ![r] = @ + 1],
           UNCHANGED << conns, replaced >>,
           \A d \in Conns \ {r} : (SSEReports(d) \/ HealthReports(d))'
                                     <=> SSEReports(d) \/ HealthReports(d)
    PROVE  Life!LifeNext
<1>1. fired \in [Conns -> Nat] /\ LossAccounted
  BY DEF RegInv, RegTypeOK
<1>2. Fate(r) = "lost" /\ fired[r] = 0
  BY <1>1, FateFacts
<1>3. Fate(r)' = "reported"
  BY <1>1, <1>2 DEF Fate
<1>4. ASSUME NEW d \in Conns \ {r} PROVE Fate(d)' = Fate(d)
  BY <1>1, FateKept DEF Bound
<1> QED BY <1>2, <1>3, <1>4, ReportStep

LEMMA LifeStep ==
    ASSUME RegInv, [RegNext]_regVars
    PROVE  Life!LifeNext \/ UNCHANGED [c \in Conns |-> Fate(c)]
<1> DEFINE Goal == Life!LifeNext \/ UNCHANGED [c \in Conns |-> Fate(c)]
<1>1. /\ handler \in [Conns -> HandlerState] /\ health \in HealthState
      /\ conns \in [Backends -> ConnOrNone] /\ NoOrphanConn /\ LossAccounted
      /\ fired \in [Conns -> Nat]
  BY DEF RegInv, RegTypeOK
<1>2. ASSUME UNCHANGED << conns, replaced, fired >>,
             \A d \in Conns : (SSEReports(d) \/ HealthReports(d))'
                                 <=> SSEReports(d) \/ HealthReports(d)
      PROVE  Goal
  <2>1. \A d \in Conns : Fate(d)' = Fate(d)
    BY <1>2, FateKept DEF Bound
  <2> QED BY <2>1
<1>3. ASSUME NEW c \in Conns, RegisterWithToken(c) PROVE Goal
  BY <1>3, RegisterIsRegister
<1> HIDE DEF Goal
<1>4. ASSUME NEW c \in Conns, NEW to \in {"streaming", "exiting", "done"},
             handler[c] # "removed", handler' = [handler EXCEPT ![c] = to],
             UNCHANGED << conns, replaced, fired, health >>
      PROVE  Goal
  <2>1. \A d \in Conns : (SSEReports(d) \/ HealthReports(d))'
                            <=> SSEReports(d) \/ HealthReports(d)
    BY <1>1, <1>4 DEF SSEReports, HealthReports
  <2> QED BY <1>2, <1>4, <2>1
<1>5. ASSUME NEW c \in Conns,
             PeerGone(c) \/ NoteOnline(c) \/ FlushFails(c) \/ ChannelClosed(c)
      PROVE  Goal
  BY <1>4, <1>5 DEF PeerGone, NoteOnline, FlushFails, ChannelClosed
<1>6. ASSUME NEW c \in Conns, UnregisterIfMatch(c) PROVE Goal
  <2>1. /\ handler[c] = "exiting" /\ Owner[c] \in Backends
        /\ UNCHANGED << health, replaced, fired >>
    BY <1>6, RegistryAssumption DEF UnregisterIfMatch
  <2>2. CASE Bound(c)
    <3>1. /\ conns' = [conns EXCEPT ![Owner[c]] = NoConn]
          /\ handler' = [handler EXCEPT ![c] = "removed"]
          /\ conns[Owner[c]] = c
      BY <1>6, <2>2 DEF UnregisterIfMatch, Bound
    <3>2. \A d \in Conns \ {c} : (SSEReports(d) \/ HealthReports(d))'
                                    <=> SSEReports(d) \/ HealthReports(d)
      BY <1>1, <2>1, <3>1 DEF SSEReports, HealthReports
    <3>3. SSEReports(c)'
      BY <1>1, <3>1 DEF SSEReports
    <3> QED BY <2>1, <3>1, <3>2, <3>3, RemovalIsLose DEF Goal
  <2>3. CASE ~Bound(c)
    BY <1>4, <1>6, <2>1, <2>3 DEF UnregisterIfMatch
  <2> QED BY <2>2, <2>3
<1>7. ASSUME NEW c \in Conns, ExitReport(c) PROVE Goal
  <2>1. /\ handler[c] = "removed" /\ handler' = [handler EXCEPT ![c] = "done"]
        /\ fired' = [fired EXCEPT ![c] = @ + 1]
        /\ UNCHANGED << conns, replaced, health >>
    BY <1>7 DEF ExitReport
  <2>2. \A d \in Conns \ {c} : (SSEReports(d) \/ HealthReports(d))'
                                  <=> SSEReports(d) \/ HealthReports(d)
    BY <1>1, <2>1 DEF SSEReports, HealthReports
  <2>3. SSEReports(c)
    BY <2>1 DEF SSEReports
  <2> QED BY <2>1, <2>2, <2>3, CallbackIsReport DEF Goal
<1>8. ASSUME NEW b \in Backends, HealthReport(b) PROVE Goal
  <2>1. /\ health.at = "report" /\ health' = DropId(b)
        /\ fired' = [fired EXCEPT ![health.conn] = @ + 1]
        /\ UNCHANGED << conns, replaced, handler >>
    BY <1>8 DEF HealthReport
  <2>2. health'.at # "report"
    BY <1>1, <2>1, DropIdType
  <2>3. \A d \in Conns : d # health.conn => ((SSEReports(d) \/ HealthReports(d))'
                                               <=> SSEReports(d) \/ HealthReports(d))
    BY <2>1, <2>2 DEF SSEReports, HealthReports
  <2>4. CASE health.conn \in Conns
    <3>1. HealthReports(health.conn)
      BY <2>1 DEF HealthReports
    <3> QED BY <2>1, <2>3, <2>4, <3>1, CallbackIsReport DEF Goal
  <2>5. CASE health.conn \notin Conns
    <3>1. fired' = fired
      BY <1>1, <2>1, <2>5
    <3> QED BY <1>2, <2>1, <2>3, <2>5, <3>1
  <2> QED BY <2>4, <2>5
<1>9. ASSUME health.at # "report", health'.at # "report",
             UNCHANGED << conns, replaced, fired, handler >>
      PROVE  Goal
  BY <1>2, <1>9 DEF SSEReports, HealthReports
<1>10. ASSUME NEW b \in Backends, HealthEvict(b) PROVE Goal
  <2>1. health.at = "evict" /\ UNCHANGED << handler, replaced, fired >>
    BY <1>10 DEF HealthEvict
  <2>2. CASE conns[b] = NoConn
    <3>1. health' = DropId(b) /\ UNCHANGED conns
      BY <1>10, <2>2 DEF HealthEvict
    <3>2. health'.at # "report"
      BY <1>1, <3>1, DropIdType
    <3> QED BY <1>9, <2>1, <3>1, <3>2
  <2>3. CASE conns[b] # NoConn
    <3>1. PICK r \in Conns : conns[b] = r
      BY <1>1, <2>3 DEF ConnOrNone
    <3>2. /\ health' = [health EXCEPT !.at = "report", !.conn = r]
          /\ conns' = [conns EXCEPT ![b] = NoConn]
      BY <1>10, <2>3, <3>1 DEF HealthEvict
    <3>3. health'.at = "report" /\ health'.conn = r
      BY <1>1, <3>2 DEF HealthState
    <3>4. \A d \in Conns \ {r} : (SSEReports(d) \/ HealthReports(d))'
                                    <=> SSEReports(d) \/ HealthReports(d)
      BY <2>1, <3>3 DEF SSEReports, HealthReports
    <3>5. HealthReports(r)'
      BY <3>3 DEF HealthReports
    <3> QED BY <2>1, <3>1, <3>2, <3>4, <3>5, RemovalIsLose DEF Goal
  <2> QED BY <2>2, <2>3
<1>11. ASSUME NEW b \in Backends,
              HealthLook(b) \/ HealthPing(b) \/ HealthBump(b) \/ HealthJudge(b)
       PROVE  Goal
  <2>1. health.at # "report"
    BY <1>11 DEF HealthLook, HealthPing, HealthBump, HealthJudge
  <2>2. health'.at # "report"
    <3>1. CASE NextPing(b) \/ health' = DropId(b)
      BY <1>1, <3>1, DropIdType DEF NextPing, Idle
    <3>2. CASE \/ health' = [health EXCEPT !.at = "send", !.id = {b}, !.conn = conns[b]]
               \/ health' = [health EXCEPT !.at = "evict", !.id = {b}, !.conn = conns[b]]
      BY <1>1, <3>2 DEF HealthState
    <3>3. CASE health' = [health EXCEPT !.at = "bump"]
      BY <1>1, <3>3 DEF HealthState
    <3>4. CASE HealthLook(b)
      BY <3>1, <3>2, <3>4 DEF HealthLook
    <3>5. CASE HealthPing(b)
      BY <3>1, <3>3, <3>5 DEF HealthPing
    <3>6. CASE HealthBump(b)
      BY <3>1, <3>6 DEF HealthBump
    <3>7. CASE HealthJudge(b)
      BY <3>1, <3>2, <3>7 DEF HealthJudge
    <3> QED BY <1>11, <3>4, <3>5, <3>6, <3>7
  <2>3. UNCHANGED << conns, replaced, fired, handler >>
    BY <1>11 DEF HealthLook, HealthPing, HealthBump, HealthJudge
  <2> QED BY <1>9, <2>1, <2>2, <2>3
<1>12. ASSUME HealthSnapshot PROVE Goal
  BY <1>9, <1>12 DEF HealthSnapshot, Idle
<1>13. ASSUME UNCHANGED << conns, replaced, fired, handler, health >> PROVE Goal
  BY <1>2, <1>13 DEF SSEReports, HealthReports
<1>14. ASSUME NEW c \in Conns, GoSilent(c) \/ Flush(c) PROVE Goal
  BY <1>13, <1>14 DEF GoSilent, Flush
<1>15. ASSUME NEW b \in Backends, SendLookup(b) \/ ReceivePong(b) PROVE Goal
  BY <1>13, <1>15 DEF SendLookup, ReceivePong
<1>16. ASSUME SendPush \/ UNCHANGED regVars PROVE Goal
  BY <1>13, <1>16 DEF SendPush, regVars
<1>17. ASSUME NEW kind \in {"offline", "online"}, NEW b \in Backends,
              TakeCallback(kind, b)
       PROVE  Goal
  BY <1>13, <1>17 DEF TakeCallback
<1>18. Goal
  BY <1>3, <1>5, <1>6, <1>7, <1>8, <1>10, <1>11, <1>12, <1>14, <1>15, <1>16, <1>17
  DEF RegNext, RegStep, SSEStep, HealthStep
<1> QED BY <1>18 DEF Goal

\* The registry implements the life of a connection, for any number of backends
\* and of connections that race: every critical section of Register, of the SSE
\* exit and of the health checker is one step of one life, or none.
THEOREM ImplementsConnLifeCorrect == RegSpec => ImplementsConnLife
<1>1. RegInit => Life!LifeInit
  <2> SUFFICES ASSUME RegInit PROVE Life!LifeInit
    OBVIOUS
  <2>1. \A c \in Conns : Fate(c) = "new"
    BY RegistryAssumption DEF RegInit, Fate, Bound, SSEReports, HealthReports, Idle
  <2> QED BY <2>1 DEF Life!LifeInit
<1>2. RegInv /\ [RegNext]_regVars => [Life!LifeNext]_[c \in Conns |-> Fate(c)]
  BY LifeStep
<1> QED BY <1>1, <1>2, RegInvariant, PTL DEF RegSpec, ImplementsConnLife, Life!LifeSpec

-----------------------------------------------------------------------------
(* No send on a closed channel *)

LEMMA NoSendOnClosedStep ==
    ASSUME RegTypeOK, [RegNext]_regVars, NEW c \in Conns,
           Len(eventCh'[c]) > Len(eventCh[c])
    PROVE  c \notin closed
<1> USE DEF RegTypeOK, ConnOrNone
<1>1. eventCh'[c] # eventCh[c]
  OBVIOUS
<1>2. ASSUME NEW d \in Conns, Flush(d) \/ FlushFails(d) PROVE FALSE
  <2>1. eventCh[d] # << >> /\ eventCh' = [eventCh EXCEPT ![d] = Tail(@)]
    BY <1>2 DEF Flush, FlushFails
  <2>2. d = c
    BY <1>1, <2>1
  <2>3. eventCh[c] \in Seq(Event) /\ eventCh'[c] = Tail(eventCh[c])
    BY <2>1, <2>2
  <2>4. Len(Tail(eventCh[c])) = Len(eventCh[c]) - 1 /\ Len(eventCh[c]) \in Nat
    BY <2>1, <2>2, <2>3
  <2> QED BY <2>3, <2>4
<1>3. CASE SendPush
  BY <1>1, <1>3 DEF SendPush, CanSend
<1>4. ASSUME NEW b \in Backends, HealthPing(b) PROVE c \notin closed
  BY <1>1, <1>4 DEF HealthPing, CanSend
<1>5. ASSUME UNCHANGED eventCh PROVE FALSE
  BY <1>1, <1>5
<1> QED
  BY <1>2, <1>3, <1>4, <1>5
  DEF RegNext, RegStep, SSEStep, HealthStep, RegisterWithToken, PeerGone,
      GoSilent, NoteOnline, ChannelClosed, UnregisterIfMatch, ExitReport,
      SendLookup, ReceivePong, HealthSnapshot, HealthLook, HealthBump, HealthJudge,
      HealthEvict, HealthReport, TakeCallback, regVars

\* SendEvent never sends on a closed channel, between whichever two critical
\* sections the replacing Register or an Unregister closes it.
THEOREM SendsAreSafe == RegSpec => NoSendOnClosed
<1>1. RegTypeOK /\ [RegNext]_regVars =>
        [\A c \in Conns : Len(eventCh'[c]) > Len(eventCh[c]) => c \notin closed]_regVars
  BY NoSendOnClosedStep
<1> QED BY <1>1, RegTypeCorrect, PTL DEF RegSpec, NoSendOnClosed

-----------------------------------------------------------------------------
(* A reconnect after a reported loss runs the online callback *)

\* markOffline never finds its set full: fewer backends than maxWasOffline.
\* ("Steady state is 2-3 (typical fixed backend_id deployment)", the cap is 64.)
NeverFull == IsFiniteSet(Backends) /\ Cardinality(Backends) < MaxWasOffline

\* The handler of e has passed NoteOnline.
PastNote(e) == handler[e] \notin {"none", "registered"}
SomePast(b) == \E e \in Conns : Owner[e] = b /\ PastNote(e)

\* Only a connection whose handler has passed NoteOnline falls silent, owes a
\* pong, is pinged or is judged dead; a loss is reported for a backend that had
\* such a connection.
SuspectsPast == \A c \in Conns : c \in silent \/ missed[c] > 0 => PastNote(c)
HealthPast ==
    /\ health.at \in {"send", "bump", "evict"} =>
          /\ health.conn \in Conns /\ PastNote(health.conn)
          /\ health.id = {Owner[health.conn]}
    /\ health.at = "report" =>
          /\ health.conn \in Conns
          /\ health.id = {Owner[health.conn]}
          /\ SomePast(Owner[health.conn])
FiredPast == \A d \in Conns : fired[d] > 0 => SomePast(Owner[d])

\* c is the first connection of its backend after the reported loss of d, and
\* has not looked at wasOffline yet.
Returns(c, d) ==
    /\ Owner[c] = Owner[d] /\ c # d /\ fired[d] > 0
    /\ \A e \in Conns \ {c, d} : Owner[e] = Owner[c] => handler[e] = "none"
    /\ ~PastNote(c)

\* The loss is still noted when the backend returns.
LossNoted == \A c, d \in Conns : Returns(c, d) => Owner[c] \in wasOffline

OnlineInv == RegInv /\ SuspectsPast /\ HealthPast /\ FiredPast /\ LossNoted

\* Handlers go one way: from none to registered, and from there past NoteOnline.
LEMMA HandlersAdvance ==
    ASSUME RegTypeOK, [RegNext]_regVars, NEW e \in Conns
    PROVE  \/ handler'[e] = handler[e]
           \/ handler[e] = "none" /\ handler'[e] = "registered"
           \/ handler[e] # "none" /\ PastNote(e)'
<1> DEFINE Goal == \/ handler'[e] = handler[e]
                   \/ handler[e] = "none" /\ handler'[e] = "registered"
                   \/ handler[e] # "none" /\ PastNote(e)'
<1>1. handler \in [Conns -> HandlerState]
  BY DEF RegTypeOK
<1>2. ASSUME NEW c \in Conns, RegisterWithToken(c) PROVE Goal
  BY <1>1, <1>2 DEF RegisterWithToken
<1>3. ASSUME NEW c \in Conns, NEW to \in {"streaming", "exiting", "removed", "done"},
             handler[c] # "none", handler' = [handler EXCEPT ![c] = to]
      PROVE  Goal
  BY <1>1, <1>3 DEF PastNote
<1>4. ASSUME NEW c \in Conns,
             PeerGone(c) \/ NoteOnline(c) \/ FlushFails(c) \/ ChannelClosed(c) \/ ExitReport(c)
      PROVE  Goal
  BY <1>3, <1>4 DEF PeerGone, NoteOnline, FlushFails, ChannelClosed, ExitReport
<1>5. ASSUME NEW c \in Conns, UnregisterIfMatch(c) PROVE Goal
  BY <1>3, <1>5 DEF UnregisterIfMatch
<1>6. ASSUME UNCHANGED handler PROVE Goal
  BY <1>6
<1> HIDE DEF Goal
<1>7. Goal
  BY <1>2, <1>4, <1>5, <1>6
  DEF RegNext, RegStep, SSEStep, HealthStep, Flush, GoSilent, SendLookup,
      ReceivePong, SendPush, HealthSnapshot, HealthLook, HealthPing, HealthBump,
      HealthJudge, HealthEvict, HealthReport, TakeCallback, regVars
<1> QED BY <1>7 DEF Goal

\* ... so what is past NoteOnline stays so, and what is not was not.
LEMMA PastStays ==
    ASSUME RegTypeOK, [RegNext]_regVars
    PROVE  /\ \A e \in Conns : PastNote(e) => PastNote(e)'
           /\ \A e \in Conns : handler'[e] = "none" => handler[e] = "none"
           /\ \A b \in Backends : SomePast(b) => SomePast(b)'
<1>1. \A e \in Conns : PastNote(e) => PastNote(e)'
  BY HandlersAdvance DEF PastNote
<1>2. \A e \in Conns : handler'[e] = "none" => handler[e] = "none"
  BY HandlersAdvance DEF PastNote
<1>3. \A b \in Backends : SomePast(b) => SomePast(b)'
  BY <1>1 DEF SomePast
<1> QED BY <1>1, <1>2, <1>3

\* A connection in the map is its backend's, and one that is suspected there
\* has passed NoteOnline.
LEMMA SuspectedPast ==
    ASSUME RegInv, SuspectsPast, NEW b \in Backends, conns[b] # NoConn,
           conns[b] \in silent \/ missed[conns[b]] > 0
    PROVE  conns[b] \in Conns /\ Owner[conns[b]] = b /\ PastNote(conns[b])
BY DEF RegInv, RegTypeOK, ConnOrNone, NoOrphanConn, SuspectsPast

LEMMA SuspectsPastStep ==
    ASSUME RegInv, SuspectsPast, HealthPast, [RegNext]_regVars
    PROVE  SuspectsPast'
<1>1. RegTypeOK
  BY DEF RegInv
<1>2. SUFFICES ASSUME NEW c \in Conns, c \in silent' \/ missed'[c] > 0
               PROVE  PastNote(c) \/ PastNote(c)'
  BY <1>1, PastStays DEF SuspectsPast
<1>3. missed \in [Conns -> Nat]
  BY <1>1 DEF RegTypeOK
<1>4. CASE c \in silent \/ missed[c] > 0
  BY <1>4 DEF SuspectsPast
<1> SUFFICES ASSUME c \notin silent, ~(missed[c] > 0)
             PROVE  PastNote(c)
  BY <1>4
<1>5. ASSUME NEW d \in Conns, GoSilent(d) PROVE PastNote(c)
  <2>1. c = d /\ Bound(d) /\ handler[d] # "registered"
    BY <1>2, <1>5 DEF GoSilent
  <2>2. handler[d] # "none"
    BY <2>1 DEF RegInv, NoOrphanConn, Alive
  <2> QED BY <2>1, <2>2 DEF PastNote
<1>6. ASSUME NEW b \in Backends, HealthBump(b) PROVE PastNote(c)
  <2>1. /\ health.at = "bump" /\ missed' = [missed EXCEPT ![health.conn] = @ + 1]
        /\ silent' = silent
    BY <1>6 DEF HealthBump
  <2>2. health.conn \in Conns /\ PastNote(health.conn)
    BY <2>1 DEF HealthPast
  <2>3. c = health.conn
    BY <1>2, <1>3, <2>1, <2>2
  <2> QED BY <2>2, <2>3
<1>7. ASSUME NEW b \in Backends, ReceivePong(b) PROVE FALSE
  <2>1. silent' \subseteq silent
    BY <1>7 DEF ReceivePong
  <2>2. missed'[c] = missed[c] \/ missed'[c] = 0
    BY <1>3, <1>7 DEF ReceivePong
  <2> QED BY <1>2, <1>3, <2>1, <2>2
<1>8. ASSUME NEW d \in Conns, Flush(d) PROVE FALSE
  BY <1>2, <1>8 DEF Flush
<1>9. ASSUME UNCHANGED << silent, missed >> PROVE FALSE
  BY <1>2, <1>9
<1> QED
  BY <1>5, <1>6, <1>7, <1>8, <1>9
  DEF RegNext, RegStep, SSEStep, HealthStep, RegisterWithToken, PeerGone,
      NoteOnline, FlushFails, ChannelClosed, UnregisterIfMatch, ExitReport,
      SendLookup, SendPush, HealthSnapshot, HealthLook, HealthPing, HealthJudge,
      HealthEvict, HealthReport, TakeCallback, regVars

\* The health checker leaves its phases of suspicion.
LEMMA HealthLeaves ==
    ASSUME health \in HealthState, NEW b \in Backends,
           NextPing(b) \/ health' = DropId(b)
    PROVE  health'.at \notin {"send", "bump", "evict", "report"}
<1>1. CASE NextPing(b)
  BY <1>1 DEF NextPing, Idle
<1>2. CASE health' = DropId(b)
  <2>1. CASE health.todo = {b}
    BY <1>2, <2>1 DEF DropId, Idle
  <2>2. CASE health.todo # {b}
    <3>1. health' = [health EXCEPT !.at = "judge", !.todo = @ \ {b},
                                   !.id = {}, !.conn = NoConn]
      BY <1>2, <2>2 DEF DropId
    <3>2. health'.at = "judge"
      BY <3>1 DEF HealthState
    <3> QED BY <3>2
  <2> QED BY <2>1, <2>2
<1> QED BY <1>1, <1>2

\* What the health checker suspects stays past NoteOnline while it waits.
LEMMA HealthWaits ==
    ASSUME RegInv, HealthPast, [RegNext]_regVars, health' = health
    PROVE  HealthPast'
<1>1. RegTypeOK
  BY DEF RegInv
<1>2. health.conn \in Conns => Owner[health.conn] \in Backends
  BY RegistryAssumption
<1> QED BY <1>1, <1>2, PastStays DEF HealthPast

LEMMA HealthPastStep ==
    ASSUME RegInv, SuspectsPast, HealthPast, [RegNext]_regVars
    PROVE  HealthPast'
<1>1. RegTypeOK /\ health \in HealthState
  BY DEF RegInv, RegTypeOK
<1>2. ASSUME NEW b \in Backends, HealthLook(b) PROVE HealthPast'
  <2>1. CASE NextPing(b)
    BY <1>1, <2>1, HealthLeaves DEF HealthPast
  <2>2. CASE /\ conns[b] # NoConn /\ (conns[b] \in silent \/ missed[conns[b]] > 0)
             /\ health' = [health EXCEPT !.at = "send", !.id = {b}, !.conn = conns[b]]
    <3>1. conns[b] \in Conns /\ Owner[conns[b]] = b /\ PastNote(conns[b])
      BY <2>2, SuspectedPast
    <3>2. health'.at = "send" /\ health'.id = {b} /\ health'.conn = conns[b]
      BY <1>1, <2>2 DEF HealthState
    <3>3. PastNote(conns[b]) => PastNote(health.conn)'
      BY <1>2, <3>2 DEF PastNote, HealthLook
    <3> QED BY <3>1, <3>2, <3>3 DEF HealthPast
  <2> QED BY <1>2, <2>1, <2>2 DEF HealthLook
<1>3. ASSUME NEW b \in Backends, HealthPing(b) PROVE HealthPast'
  <2>1. CASE NextPing(b)
    BY <1>1, <2>1, HealthLeaves DEF HealthPast
  <2>2. CASE health' = [health EXCEPT !.at = "bump"]
    <3>1. health'.at = "bump" /\ health'.id = health.id /\ health'.conn = health.conn
      BY <1>1, <2>2 DEF HealthState
    <3>2. health.at = "send" /\ handler' = handler
      BY <1>3 DEF HealthPing
    <3> QED BY <3>1, <3>2 DEF HealthPast, PastNote
  <2> QED BY <1>3, <2>1, <2>2 DEF HealthPing
<1>4. ASSUME NEW b \in Backends, HealthJudge(b) PROVE HealthPast'
  <2>1. CASE health' = DropId(b)
    BY <1>1, <2>1, HealthLeaves DEF HealthPast
  <2>2. CASE /\ conns[b] # NoConn /\ Unhealthy(conns[b])
             /\ health' = [health EXCEPT !.at = "evict", !.id = {b}, !.conn = conns[b]]
    <3>1. conns[b] \in Conns /\ missed[conns[b]] \in Nat
      BY <1>1, <2>2 DEF RegTypeOK, ConnOrNone
    <3>2. conns[b] \in silent \/ missed[conns[b]] > 0
      BY <2>2, <3>1, RegistryAssumption DEF Unhealthy
    <3>3. Owner[conns[b]] = b /\ PastNote(conns[b])
      BY <2>2, <3>2, SuspectedPast
    <3>4. health'.at = "evict" /\ health'.id = {b} /\ health'.conn = conns[b]
      BY <1>1, <2>2 DEF HealthState
    <3>5. PastNote(conns[b]) => PastNote(health.conn)'
      BY <1>4, <3>4 DEF PastNote, HealthJudge
    <3> QED BY <3>1, <3>3, <3>4, <3>5 DEF HealthPast
  <2> QED BY <1>4, <2>1, <2>2 DEF HealthJudge
<1>5. ASSUME NEW b \in Backends, HealthEvict(b) PROVE HealthPast'
  <2>1. CASE health' = DropId(b)
    BY <1>1, <2>1, HealthLeaves DEF HealthPast
  <2>2. CASE /\ conns[b] # NoConn
             /\ health' = [health EXCEPT !.at = "report", !.conn = conns[b]]
    <3>1. conns[b] \in Conns /\ Owner[conns[b]] = b
      BY <1>1, <2>2 DEF RegInv, RegTypeOK, ConnOrNone, NoOrphanConn
    <3>2. /\ health'.at = "report" /\ health'.id = health.id
          /\ health'.conn = conns[b]
      BY <1>1, <2>2 DEF HealthState
    <3>3. /\ health.at = "evict" /\ health.id = {b} /\ handler' = handler
      BY <1>5 DEF HealthEvict
    <3>4. /\ health.conn \in Conns /\ PastNote(health.conn)
          /\ health.id = {Owner[health.conn]}
      BY <3>3 DEF HealthPast
    <3>5. Owner[health.conn] = b
      BY <3>3, <3>4
    <3>6. SomePast(b)'
      BY <3>3, <3>4, <3>5 DEF SomePast, PastNote
    <3> QED BY <3>1, <3>2, <3>3, <3>6 DEF HealthPast, SomePast
  <2> QED BY <1>5, <2>1, <2>2 DEF HealthEvict
<1>6. ASSUME NEW b \in Backends, HealthBump(b) \/ HealthReport(b) PROVE HealthPast'
  BY <1>1, <1>6, HealthLeaves DEF HealthPast, HealthBump, HealthReport
<1>7. ASSUME HealthSnapshot PROVE HealthPast'
  BY <1>7 DEF HealthPast, HealthSnapshot, Idle
<1>8. ASSUME health' = health PROVE HealthPast'
  BY <1>8, HealthWaits
<1> QED
  BY <1>2, <1>3, <1>4, <1>5, <1>6, <1>7, <1>8
  DEF RegNext, RegStep, SSEStep, HealthStep, RegisterWithToken, PeerGone,
      GoSilent, NoteOnline, Flush, FlushFails, ChannelClosed, UnregisterIfMatch,
      ExitReport, SendLookup, ReceivePong, SendPush, TakeCallback, regVars

\* A loss is counted by its report, which marks the backend offline and which
\* only a connection past NoteOnline brings about.
LEMMA FiresWhenPast ==
    ASSUME NeverFull, RegInv, HealthPast, [RegNext]_regVars, NEW d \in Conns,
           fired'[d] # fired[d]
    PROVE  /\ SomePast(Owner[d])
           /\ wasOffline' = wasOffline \cup {Owner[d]}
           /\ handler'[d] = "done" \/ UNCHANGED handler
<1>1. /\ RegTypeOK /\ wasOffline \subseteq Backends /\ fired \in [Conns -> Nat]
      /\ handler \in [Conns -> HandlerState]
  BY DEF RegInv, RegTypeOK
<1>2. ~(Cardinality(wasOffline) >= MaxWasOffline)
  <2>1. /\ Cardinality(wasOffline) <= Cardinality(Backends)
        /\ Cardinality(wasOffline) \in Nat /\ Cardinality(Backends) \in Nat
    BY <1>1, FS_Subset, FS_CardinalityType DEF NeverFull
  <2> QED BY <2>1, RegistryAssumption DEF NeverFull
<1>3. \A b \in Backends : ReportOffline(b) => wasOffline' = wasOffline \cup {b}
  BY <1>2 DEF ReportOffline
<1>4. ASSUME NEW c \in Conns, ExitReport(c)
      PROVE  /\ SomePast(Owner[d]) /\ wasOffline' = wasOffline \cup {Owner[d]}
             /\ handler'[d] = "done"
  <2>1. /\ handler[c] = "removed" /\ handler' = [handler EXCEPT ![c] = "done"]
        /\ ReportOffline(Owner[c]) /\ fired' = [fired EXCEPT ![c] = @ + 1]
    BY <1>4 DEF ExitReport
  <2>2. c = d
    BY <1>1, <2>1
  <2>3. Owner[d] \in Backends
    BY RegistryAssumption
  <2>4. SomePast(Owner[d])
    BY <2>1, <2>2 DEF SomePast, PastNote
  <2>5. handler'[d] = "done"
    BY <1>1, <2>1, <2>2
  <2> QED BY <1>3, <2>1, <2>2, <2>3, <2>4, <2>5
<1>5. ASSUME NEW b \in Backends, HealthReport(b)
      PROVE  /\ SomePast(Owner[d]) /\ wasOffline' = wasOffline \cup {Owner[d]}
             /\ UNCHANGED handler
  <2>1. /\ health.at = "report" /\ health.id = {b} /\ ReportOffline(b)
        /\ fired' = [fired EXCEPT ![health.conn] = @ + 1] /\ UNCHANGED handler
    BY <1>5 DEF HealthReport
  <2>2. health.conn = d
    BY <1>1, <2>1
  <2>3. health.id = {Owner[d]} /\ SomePast(Owner[d])
    BY <2>1, <2>2 DEF HealthPast
  <2>4. Owner[d] = b
    BY <2>1, <2>3
  <2> QED BY <1>3, <2>1, <2>3, <2>4
<1>6. ASSUME UNCHANGED fired PROVE FALSE
  BY <1>6
<1> QED
  BY <1>4, <1>5, <1>6
  DEF RegNext, RegStep, SSEStep, HealthStep, RegisterWithToken, PeerGone,
      GoSilent, NoteOnline, Flush, FlushFails, ChannelClosed, UnregisterIfMatch,
      SendLookup, ReceivePong, SendPush, HealthSnapshot, HealthLook, HealthPing,
      HealthBump, HealthJudge, HealthEvict, TakeCallback, regVars

LEMMA FiredPastStep ==
    ASSUME NeverFull, RegInv, HealthPast, FiredPast, [RegNext]_regVars
    PROVE  FiredPast'
<1> SUFFICES ASSUME NEW d \in Conns, fired'[d] > 0
             PROVE  SomePast(Owner[d])'
  BY DEF FiredPast
<1>1. Owner[d] \in Backends
  BY RegistryAssumption
<1>2. SomePast(Owner[d])
  BY FiresWhenPast DEF FiredPast
<1> QED BY <1>1, <1>2, PastStays DEF RegInv

\* The set of lost backends loses one only to a NoteOnline of that backend.
LEMMA OfflineShrinks ==
    ASSUME NeverFull, RegInv, [RegNext]_regVars,
           NEW b \in Backends, b \in wasOffline, b \notin wasOffline'
    PROVE  \E e \in Conns : Owner[e] = b /\ NoteOnline(e)
<1>1. wasOffline \subseteq Backends
  BY DEF RegInv, RegTypeOK
<1>2. ~(Cardinality(wasOffline) >= MaxWasOffline)
  <2>1. /\ Cardinality(wasOffline) <= Cardinality(Backends)
        /\ Cardinality(wasOffline) \in Nat /\ Cardinality(Backends) \in Nat
    BY <1>1, FS_Subset, FS_CardinalityType DEF NeverFull
  <2> QED BY <2>1, RegistryAssumption DEF NeverFull
<1>3. \A a \in Backends : ~ReportOffline(a)
  BY <1>2 DEF ReportOffline
<1>4. ASSUME NEW c \in Conns, ExitReport(c) PROVE FALSE
  BY <1>3, <1>4, RegistryAssumption DEF ExitReport
<1>5. ASSUME NEW a \in Backends, HealthReport(a) PROVE FALSE
  BY <1>3, <1>5 DEF HealthReport
<1>6. ASSUME NEW c \in Conns, NoteOnline(c) PROVE Owner[c] = b
  BY <1>6 DEF NoteOnline
<1>7. ASSUME UNCHANGED wasOffline PROVE FALSE
  BY <1>7
<1> QED
  BY <1>4, <1>5, <1>6, <1>7
  DEF RegNext, RegStep, SSEStep, HealthStep, RegisterWithToken, PeerGone,
      GoSilent, Flush, FlushFails, ChannelClosed, UnregisterIfMatch,
      SendLookup, ReceivePong, SendPush, HealthSnapshot, HealthLook, HealthPing,
      HealthBump, HealthJudge, HealthEvict, TakeCallback, regVars

LEMMA LossNotedStep ==
    ASSUME NeverFull, RegInv, HealthPast, FiredPast, LossNoted, [RegNext]_regVars
    PROVE  LossNoted'
<1>1. RegTypeOK
  BY DEF RegInv
<1> SUFFICES ASSUME NEW c \in Conns, NEW d \in Conns, Returns(c, d)'
             PROVE  Owner[c] \in wasOffline'
  BY DEF LossNoted
<1>2. /\ Owner[c] = Owner[d] /\ c # d /\ fired'[d] > 0 /\ ~PastNote(c)'
      /\ \A e \in Conns \ {c, d} : Owner[e] = Owner[c] => handler'[e] = "none"
  BY DEF Returns
<1>3. /\ ~PastNote(c)
      /\ \A e \in Conns \ {c, d} : Owner[e] = Owner[c] => handler[e] = "none"
  BY <1>1, <1>2, PastStays
<1>4. Owner[c] \in Backends
  BY RegistryAssumption
<1>5. CASE fired'[d] # fired[d]
  BY <1>2, <1>5, FiresWhenPast
<1>6. CASE fired'[d] = fired[d]
  <2>1. Returns(c, d) /\ SomePast(Owner[d])
    BY <1>2, <1>3, <1>6 DEF Returns, FiredPast
  <2>2. PastNote(d)
    BY <1>2, <1>3, <2>1 DEF SomePast, PastNote
  <2>3. Owner[c] \in wasOffline
    BY <2>1 DEF LossNoted
  <2>4. ASSUME NEW e \in Conns, Owner[e] = Owner[c], NoteOnline(e) PROVE FALSE
    <3>1. handler[e] = "registered" /\ handler'[e] = "streaming"
      BY <1>1, <2>4 DEF NoteOnline, RegTypeOK
    <3>2. e = c
      BY <1>3, <2>2, <2>4, <3>1 DEF PastNote
    <3> QED BY <1>2, <3>1, <3>2 DEF PastNote
  <2> QED BY <1>4, <2>3, <2>4, OfflineShrinks
<1> QED BY <1>5, <1>6

LEMMA OnlineInvInit == RegInit => OnlineInv
<1> SUFFICES ASSUME RegInit PROVE OnlineInv
  OBVIOUS
<1>1. RegInv
  BY RegInitType, RegInitInv DEF RegInv
<1>2. SuspectsPast /\ FiredPast /\ LossNoted
  BY DEF RegInit, SuspectsPast, FiredPast, LossNoted, Returns
<1>3. HealthPast
  BY DEF RegInit, HealthPast, Idle
<1> QED BY <1>1, <1>2, <1>3 DEF OnlineInv

LEMMA OnlineInvStep ==
    ASSUME NeverFull, OnlineInv, [RegNext]_regVars
    PROVE  OnlineInv'
BY RegInvStep, SuspectsPastStep, HealthPastStep, FiredPastStep, LossNotedStep
DEF OnlineInv

\* Leaving "registered" for "streaming" is NoteOnline, which finds the loss.
LEMMA ReconnectStep ==
    ASSUME OnlineInv, [RegNext]_regVars, NEW c \in Conns, NEW d \in Conns,
           Owner[c] = Owner[d], c # d, fired[d] > 0,
           \A e \in Conns \ {c, d} : Owner[e] = Owner[c] => handler[e] = "none",
           handler[c] = "registered", handler'[c] = "streaming"
    PROVE  cb'["online"][Owner[c]] > cb["online"][Owner[c]]
<1>1. /\ handler \in [Conns -> HandlerState]
      /\ cb \in [{"offline", "online"} -> [Backends -> Nat]]
  BY DEF OnlineInv, RegInv, RegTypeOK
<1>2. Owner[c] \in wasOffline /\ Owner[c] \in Backends
  BY RegistryAssumption DEF OnlineInv, LossNoted, Returns, PastNote
<1>3. ASSUME NEW e \in Conns, NoteOnline(e)
      PROVE  cb'["online"][Owner[c]] > cb["online"][Owner[c]]
  <2>1. e = c
    BY <1>1, <1>3 DEF NoteOnline
  <2>2. cb' = [cb EXCEPT !["online"][Owner[c]] = @ + 1]
    BY <1>2, <1>3, <2>1 DEF NoteOnline, FireCallback
  <2>3. cb'["online"][Owner[c]] = cb["online"][Owner[c]] + 1
    BY <1>1, <1>2, <2>2
  <2>4. cb["online"][Owner[c]] \in Nat
    BY <1>1, <1>2
  <2> QED BY <2>3, <2>4
<1>4. ASSUME NEW e \in Conns, RegisterWithToken(e) PROVE FALSE
  BY <1>1, <1>4 DEF RegisterWithToken
<1>5. ASSUME NEW e \in Conns,
             PeerGone(e) \/ FlushFails(e) \/ ChannelClosed(e)
               \/ UnregisterIfMatch(e) \/ ExitReport(e)
      PROVE  FALSE
  BY <1>1, <1>5 DEF PeerGone, FlushFails, ChannelClosed, UnregisterIfMatch, ExitReport
<1>6. ASSUME UNCHANGED handler PROVE FALSE
  BY <1>6
<1> QED
  BY <1>3, <1>4, <1>5, <1>6
  DEF RegNext, RegStep, SSEStep, HealthStep, Flush, GoSilent, SendLookup,
      ReceivePong, SendPush, HealthSnapshot, HealthLook, HealthPing, HealthBump,
      HealthJudge, HealthEvict, HealthReport, TakeCallback, regVars

\* With fewer backends than maxWasOffline, so that markOffline never empties
\* its set, a backend that comes back after a reported loss always runs the
\* online callback: between the report and NoteOnline nobody else takes the
\* backend out of the set, because only a connection past NoteOnline can have
\* been lost.
THEOREM ReconnectsAreNoticed ==
    ASSUME NeverFull
    PROVE  RegSpec => ReconnectFiresOnline
<1>1. RegInit => OnlineInv
  BY OnlineInvInit
<1>2. OnlineInv /\ [RegNext]_regVars => OnlineInv'
  BY OnlineInvStep
<1>3. OnlineInv /\ [RegNext]_regVars =>
        [\A c, d \in Conns :
          /\ Owner[c] = Owner[d] /\ c # d /\ fired[d] > 0
          /\ \A e \in Conns \ {c, d} : Owner[e] = Owner[c] => handler[e] = "none"
          /\ handler[c] = "registered" /\ handler'[c] = "streaming"
          => cb'["online"][Owner[c]] > cb["online"][Owner[c]]]_regVars
  BY ReconnectStep
<1> QED BY <1>1, <1>2, <1>3, PTL DEF RegSpec, ReconnectFiresOnline

-----------------------------------------------------------------------------
(*************************************************************************)
(* OfflineFlap: its bookkeeping of timers and notices is right whatever  *)
(* the order in which offline and online callbacks run.                  *)
(*************************************************************************)

FlapInv == FlapTypeOK /\ EntryTimerLive /\ RecoveryOwed

\* Facts about single timers and entries.
LEMMA FreeType == Free \in [st: TimerState, b: FlapBackends, gen: Nat] /\ Free.st = "free"
BY FlapAssumption DEF Free, TimerState

LEMMA FreshType == FreeTimers # {} => Fresh \in Timers /\ timers[Fresh].st = "free"
BY DEF FreeTimers, Fresh

LEMMA StoppedType ==
    ASSUME FlapTypeOK, NEW t \in Timers
    PROVE  Stopped(t) \in [st: TimerState, b: FlapBackends, gen: Nat]
BY FreeType DEF FlapTypeOK, Stopped, TimerState

LEMMA EntryType ==
    ASSUME FlapTypeOK, NEW b \in FlapBackends
    PROVE  EntryOf(b) \in FlapEntry
BY DEF FlapTypeOK, EntryOf, FlapEntry

LEMMA NoFlapApart == NoFlap \notin FlapEntry
BY FlapAssumption DEF FlapEntry

\* Arming gives an entry a timer and the next generation.
LEMMA ArmedEntry ==
    ASSUME NEW st \in FlapEntry, ~st.notified, NEW t \in Timers
    PROVE  LET new == [st EXCEPT !.timer = t, !.gen = @ + 1] IN
           /\ new \in FlapEntry /\ new.timer = t /\ ~new.notified
           /\ new.gen = st.gen + 1
<1> DEFINE timed == [st EXCEPT !.timer = t]
           new == [st EXCEPT !.timer = t, !.gen = @ + 1]
<1>1. timed \in FlapEntry /\ timed.timer = t /\ timed.gen = st.gen
      /\ timed.notified = st.notified
  BY DEF FlapEntry
<1>2. new = [timed EXCEPT !.gen = @ + 1]
  BY DEF FlapEntry
<1> HIDE DEF timed, new
<1>3. new \in FlapEntry
  BY <1>1, <1>2 DEF FlapEntry
<1>4. new.timer = t /\ new.notified = st.notified /\ new.gen = st.gen + 1
  BY <1>1, <1>2 DEF FlapEntry
<1> QED BY <1>3, <1>4 DEF new

LEMMA FlapInitInv == FlapInit => FlapInv
BY FreeType DEF FlapInit, FlapInv, FlapTypeOK, EntryTimerLive, RecoveryOwed

\* OnBackendOffline arms a timer of the new generation for b's entry and
\* touches only the timer that entry referred to.
LEMMA OfflineKeeps ==
    ASSUME FlapInv, NEW b \in FlapBackends, OnBackendOffline(b)
    PROVE  FlapInv'
<1> DEFINE st == EntryOf(b)
<1> USE DEF FlapInv, FlapTypeOK
<1>1. CASE st.notified
  BY <1>1 DEF OnBackendOffline, EntryTimerLive, RecoveryOwed
<1>2. CASE ~st.notified
  <2> DEFINE new == [st EXCEPT !.timer = Fresh, !.gen = @ + 1]
  <2>1. /\ Fresh \in Timers /\ timers[Fresh].st = "free"
        /\ flap' = [flap EXCEPT ![b] = new]
        /\ timers' = [t \in Timers |->
               IF t = Fresh THEN [st |-> "armed", b |-> b, gen |-> st.gen + 1]
               ELSE IF t = st.timer THEN Stopped(t) ELSE timers[t]]
        /\ notices' = notices
    BY <1>2, FreshType DEF OnBackendOffline
  <2>2. /\ st \in FlapEntry /\ new \in FlapEntry /\ new # NoFlap
        /\ new.timer = Fresh /\ ~new.notified /\ new.gen = st.gen + 1
    <3>1. st \in FlapEntry
      BY EntryType
    <3>2. Fresh \in Timers /\ ~st.notified
      BY <1>2, <2>1
    <3> HIDE DEF st
    <3>3. /\ new \in FlapEntry
          /\ new.timer = Fresh /\ ~new.notified /\ new.gen = st.gen + 1
      BY <3>1, <3>2, ArmedEntry, Zenon
    <3> HIDE DEF new
    <3> QED BY <3>1, <3>3, NoFlapApart
  <2>3. FlapTypeOK'
    <3>1. flap' \in [FlapBackends -> FlapEntry \cup {NoFlap}]
      BY <2>1, <2>2
    <3>2. [st |-> "armed", b |-> b, gen |-> st.gen + 1]
            \in [st: TimerState, b: FlapBackends, gen: Nat]
      BY <2>2 DEF FlapEntry, TimerState
    <3>3. timers' \in [Timers -> [st: TimerState, b: FlapBackends, gen: Nat]]
      BY <2>1, <3>2, StoppedType
    <3> QED BY <2>1, <3>1, <3>3
  <2>4. EntryTimerLive'
    <3> SUFFICES ASSUME NEW a \in FlapBackends,
                        flap'[a] # NoFlap /\ flap'[a].timer # NoTimer
                 PROVE  LET t == timers'[flap'[a].timer] IN
                        /\ ~flap'[a].notified
                        /\ t.st \in {"armed", "waiting"}
                        /\ t.b = a
                        /\ t.gen = flap'[a].gen
      BY DEF EntryTimerLive
    <3>1. CASE a = b
      <4>1. flap'[a] = new
        BY <2>1, <3>1
      <4>2. timers'[Fresh] = [st |-> "armed", b |-> b, gen |-> st.gen + 1]
        BY <2>1
      <4> HIDE DEF new, st
      <4> QED BY <2>2, <3>1, <4>1, <4>2
    <3>2. CASE a # b
      <4>1. flap'[a] = flap[a]
        BY <2>1, <3>2
      <4>2. PICK t \in Timers : t = flap[a].timer
        BY <4>1 DEF FlapEntry
      <4>3. timers[t].st \in {"armed", "waiting"} /\ timers[t].b = a
            /\ ~flap[a].notified /\ timers[t].gen = flap[a].gen
        BY <4>1, <4>2 DEF EntryTimerLive
      <4>4. t # Fresh
        BY <2>1, <4>3
      <4>5. t # st.timer
        <5>1. CASE flap[b] = NoFlap
          BY <5>1, FlapAssumption DEF EntryOf
        <5>2. CASE flap[b] # NoFlap /\ st.timer # NoTimer
          BY <3>2, <4>3, <5>2 DEF EntryOf, EntryTimerLive
        <5>3. CASE st.timer = NoTimer
          BY <5>3, FlapAssumption
        <5> QED BY <5>1, <5>2, <5>3
      <4>6. timers'[t] = timers[t]
        BY <2>1, <4>4, <4>5
      <4> QED BY <4>1, <4>2, <4>3, <4>6
    <3> QED BY <3>1, <3>2
  <2>5. RecoveryOwed'
    <3> SUFFICES ASSUME NEW a \in FlapBackends
                 PROVE  (notices[a].on + (IF flap[a] # NoFlap /\ flap[a].notified
                                          THEN 1 ELSE 0) <= notices[a].off)'
      BY DEF RecoveryOwed
    <3>1. CASE a = b
      BY <2>1, <2>2, <3>1 DEF RecoveryOwed
    <3>2. CASE a # b
      BY <2>1, <3>2 DEF RecoveryOwed
    <3> QED BY <3>1, <3>2
  <2> QED BY <2>3, <2>4, <2>5
<1> QED BY <1>1, <1>2

\* The timer an entry refers to, if any, is in Timers and belongs to that
\* entry; no two entries share one.
LEMMA EntryTimer ==
    ASSUME FlapInv, NEW a \in FlapBackends, flap[a] # NoFlap, flap[a].timer # NoTimer
    PROVE  /\ flap[a].timer \in Timers
           /\ timers[flap[a].timer].b = a
           /\ timers[flap[a].timer].st \in {"armed", "waiting"}
           /\ timers[flap[a].timer].gen = flap[a].gen
           /\ ~flap[a].notified
BY DEF FlapInv, FlapTypeOK, FlapEntry, EntryTimerLive

\* A step that leaves the entries alone and changes only a timer no entry
\* refers to, or turns an armed timer into a waiting one.
LEMMA TimersMove ==
    ASSUME FlapInv, UNCHANGED << flap, notices >>, NEW t \in Timers,
           NEW v \in [st: TimerState, b: FlapBackends, gen: Nat],
           timers' = [timers EXCEPT ![t] = v],
           \/ \A a \in FlapBackends : flap[a] # NoFlap => flap[a].timer # t
           \/ v.st = "waiting" /\ v.b = timers[t].b /\ v.gen = timers[t].gen
    PROVE  FlapInv'
<1>1. FlapTypeOK'
  BY DEF FlapInv, FlapTypeOK
<1>2. RecoveryOwed'
  BY DEF FlapInv, RecoveryOwed
<1>3. EntryTimerLive'
  <2> SUFFICES ASSUME NEW a \in FlapBackends,
                      flap[a] # NoFlap, flap[a].timer # NoTimer
               PROVE  /\ timers'[flap[a].timer].st \in {"armed", "waiting"}
                      /\ timers'[flap[a].timer].b = a
                      /\ timers'[flap[a].timer].gen = flap[a].gen
                      /\ ~flap[a].notified
    BY DEF EntryTimerLive
  <2>1. CASE flap[a].timer = t
    BY <2>1, EntryTimer DEF FlapInv, FlapTypeOK
  <2>2. CASE flap[a].timer # t
    BY <2>2, EntryTimer DEF FlapInv, FlapTypeOK
  <2> QED BY <2>1, <2>2
<1> QED BY <1>1, <1>2, <1>3 DEF FlapInv

LEMMA TimerStepKeeps ==
    ASSUME FlapInv, NEW t \in Timers, TimerFires(t) \/ PostOffline(t)
    PROVE  FlapInv'
<1>1. timers[t] \in [st: TimerState, b: FlapBackends, gen: Nat]
  BY DEF FlapInv, FlapTypeOK
<1>2. CASE TimerFires(t)
  <2> DEFINE v == [timers[t] EXCEPT !.st = "waiting"]
  <2>1. /\ v \in [st: TimerState, b: FlapBackends, gen: Nat]
        /\ v.st = "waiting" /\ v.b = timers[t].b /\ v.gen = timers[t].gen
    BY <1>1 DEF TimerState
  <2>2. timers' = [timers EXCEPT ![t] = v] /\ UNCHANGED << flap, notices >>
    BY <1>2 DEF TimerFires
  <2> HIDE DEF v
  <2> QED BY <2>1, <2>2, TimersMove
<1>3. CASE PostOffline(t)
  <2>1. \A a \in FlapBackends : flap[a] # NoFlap => flap[a].timer # t
    BY <1>3, EntryTimer, FlapAssumption DEF PostOffline
  <2>2. timers' = [timers EXCEPT ![t] = Free] /\ UNCHANGED << flap, notices >>
    BY <1>3 DEF PostOffline
  <2> QED BY <2>1, <2>2, FreeType, TimersMove
<1> QED BY <1>2, <1>3

\* fireOfflineNotice suppresses only callbacks no entry waits for.
LEMMA FireKeeps ==
    ASSUME FlapInv, NEW t \in Timers, FireOfflineNotice(t)
    PROVE  FlapInv'
<1> DEFINE b == timers[t].b
           outdated == flap[b] = NoFlap \/ flap[b].gen # timers[t].gen
<1>1. /\ timers[t] \in [st: TimerState, b: FlapBackends, gen: Nat]
      /\ b \in FlapBackends /\ flap[b] \in FlapEntry \cup {NoFlap}
  BY DEF FlapInv, FlapTypeOK
<1>2. CASE outdated
  <2>1. timers' = [timers EXCEPT ![t] = Free] /\ UNCHANGED << flap, notices >>
    BY <1>2 DEF FireOfflineNotice
  <2>2. \A a \in FlapBackends : flap[a] # NoFlap => flap[a].timer # t
    BY <1>2, EntryTimer, FlapAssumption
  <2> QED BY <2>1, <2>2, FreeType, TimersMove
<1>3. CASE ~outdated
  <2>1. /\ timers' = [timers EXCEPT ![t].st = "posting"]
        /\ flap' = [flap EXCEPT ![b] =
                       [timer |-> NoTimer, notified |-> TRUE, gen |-> @.gen]]
        /\ notices' = [notices EXCEPT ![b].off = @ + 1]
    BY <1>3 DEF FireOfflineNotice
  <2>2. flap[b] \in FlapEntry
    BY <1>1, <1>3
  <2> HIDE DEF b
  <2>3. /\ flap'[b].timer = NoTimer /\ flap'[b].notified
        /\ flap'[b] \in FlapEntry /\ flap'[b] # NoFlap
        /\ \A a \in FlapBackends : a # b => flap'[a] = flap[a]
    <3>1. flap'[b] = [timer |-> NoTimer, notified |-> TRUE, gen |-> flap[b].gen]
      BY <1>1, <2>1 DEF FlapInv, FlapTypeOK
    <3>2. flap[b].gen \in Nat
      BY <2>2 DEF FlapEntry
    <3>3. flap'[b] \in FlapEntry
      BY <3>1, <3>2 DEF FlapEntry
    <3>4. flap'[b].timer = NoTimer /\ flap'[b].notified
      <4>1. flap'[b].timer = NoTimer /\ flap'[b].notified = TRUE
        BY <3>1
      <4> QED BY <4>1, Zenon
    <3>5. \A a \in FlapBackends : a # b => flap'[a] = flap[a]
      BY <2>1 DEF FlapInv, FlapTypeOK
    <3> QED BY <3>3, <3>4, <3>5, NoFlapApart
  <2>4. /\ notices'[b].off = notices[b].off + 1 /\ notices'[b].on = notices[b].on
        /\ notices'[b] \in [off: Nat, on: Nat]
        /\ \A a \in FlapBackends : a # b => notices'[a] = notices[a]
    <3>1. notices[b] \in [off: Nat, on: Nat] /\ notices \in [FlapBackends -> [off: Nat, on: Nat]]
      BY <1>1 DEF FlapInv, FlapTypeOK
    <3>2. notices'[b] = [notices[b] EXCEPT !.off = @ + 1]
      BY <1>1, <2>1, <3>1
    <3>3. \A a \in FlapBackends : a # b => notices'[a] = notices[a]
      BY <2>1, <3>1
    <3> QED BY <3>1, <3>2, <3>3
  <2>5. FlapTypeOK'
    <3>1. timers' \in [Timers -> [st: TimerState, b: FlapBackends, gen: Nat]]
      BY <1>1, <2>1 DEF FlapInv, FlapTypeOK, TimerState
    <3>2. flap' \in [FlapBackends -> FlapEntry \cup {NoFlap}]
      BY <1>1, <2>1, <2>3 DEF FlapInv, FlapTypeOK
    <3>3. notices' \in [FlapBackends -> [off: Nat, on: Nat]]
      BY <1>1, <2>1, <2>4 DEF FlapInv, FlapTypeOK
    <3> QED BY <3>1, <3>2, <3>3 DEF FlapTypeOK
  <2>6. EntryTimerLive'
    <3> SUFFICES ASSUME NEW a \in FlapBackends,
                        flap'[a] # NoFlap, flap'[a].timer # NoTimer
                 PROVE  /\ timers'[flap'[a].timer].st \in {"armed", "waiting"}
                        /\ timers'[flap'[a].timer].b = a
                        /\ timers'[flap'[a].timer].gen = flap'[a].gen
                        /\ ~flap'[a].notified
      BY DEF EntryTimerLive
    <3>1. a # b /\ flap'[a] = flap[a]
      BY <2>3
    <3>2. flap[a].timer # t /\ flap[a].timer \in Timers
      BY <3>1, EntryTimer DEF b
    <3>3. timers'[flap[a].timer] = timers[flap[a].timer]
      BY <2>1, <3>2 DEF FlapInv, FlapTypeOK
    <3> QED BY <3>1, <3>3, EntryTimer
  <2>7. RecoveryOwed'
    <3> SUFFICES ASSUME NEW a \in FlapBackends
                 PROVE  (notices[a].on + (IF flap[a] # NoFlap /\ flap[a].notified
                                          THEN 1 ELSE 0) <= notices[a].off)'
      BY DEF RecoveryOwed
    <3>1. notices[a].on + (IF flap[a] # NoFlap /\ flap[a].notified THEN 1 ELSE 0)
            <= notices[a].off /\ notices[a] \in [off: Nat, on: Nat]
      BY DEF FlapInv, RecoveryOwed, FlapTypeOK
    <3>2. CASE a = b
      BY <2>3, <2>4, <3>1, <3>2
    <3>3. CASE a # b
      BY <2>3, <2>4, <3>1, <3>3
    <3> QED BY <3>2, <3>3
  <2> QED BY <2>5, <2>6, <2>7 DEF FlapInv
<1> QED BY <1>2, <1>3

\* OnBackendOnline removes b's entry and stops only that entry's timer.
LEMMA OnlineKeeps ==
    ASSUME FlapInv, NEW b \in FlapBackends, OnBackendOnline(b)
    PROVE  FlapInv'
<1>1. /\ flap' = [flap EXCEPT ![b] = NoFlap] /\ flap'[b] = NoFlap
      /\ \A a \in FlapBackends : a # b => flap'[a] = flap[a]
      /\ flap' \in [FlapBackends -> FlapEntry \cup {NoFlap}]
  BY DEF OnBackendOnline, FlapInv, FlapTypeOK
<1>2. /\ timers' \in [Timers -> [st: TimerState, b: FlapBackends, gen: Nat]]
      /\ \A a \in FlapBackends : a # b /\ flap[a] # NoFlap /\ flap[a].timer # NoTimer
             => timers'[flap[a].timer] = timers[flap[a].timer]
  <2>1. CASE flap[b] # NoFlap /\ flap[b].timer # NoTimer
    <3>1. PICK t \in Timers : t = flap[b].timer
      BY <2>1, EntryTimer
    <3>2. timers' = [timers EXCEPT ![t] = Stopped(t)]
      BY <2>1, <3>1 DEF OnBackendOnline
    <3>3. Stopped(t) \in [st: TimerState, b: FlapBackends, gen: Nat]
      BY StoppedType DEF FlapInv
    <3>4. \A a \in FlapBackends : a # b /\ flap[a] # NoFlap /\ flap[a].timer # NoTimer
             => flap[a].timer \in Timers /\ flap[a].timer # t
      BY <2>1, <3>1, EntryTimer
    <3> QED BY <3>2, <3>3, <3>4 DEF FlapInv, FlapTypeOK
  <2>2. CASE ~(flap[b] # NoFlap /\ flap[b].timer # NoTimer)
    BY <2>2 DEF OnBackendOnline, FlapInv, FlapTypeOK
  <2> QED BY <2>1, <2>2
<1>3. EntryTimerLive'
  <2> SUFFICES ASSUME NEW a \in FlapBackends,
                      flap'[a] # NoFlap, flap'[a].timer # NoTimer
               PROVE  /\ timers'[flap'[a].timer].st \in {"armed", "waiting"}
                      /\ timers'[flap'[a].timer].b = a
                      /\ timers'[flap'[a].timer].gen = flap'[a].gen
                      /\ ~flap'[a].notified
    BY DEF EntryTimerLive
  <2>1. a # b /\ flap'[a] = flap[a]
    BY <1>1
  <2>2. timers'[flap[a].timer] = timers[flap[a].timer]
    BY <1>2, <2>1
  <2> QED BY <2>1, <2>2, EntryTimer
<1> DEFINE owed == flap[b] # NoFlap /\ flap[b].timer = NoTimer /\ flap[b].notified
           Sum(a) == notices[a].on + (IF flap[a] # NoFlap /\ flap[a].notified
                                      THEN 1 ELSE 0)
<1>4. /\ notices \in [FlapBackends -> [off: Nat, on: Nat]]
      /\ \A a \in FlapBackends : Sum(a) <= notices[a].off
  BY DEF FlapInv, FlapTypeOK, RecoveryOwed
<1>5. /\ notices' \in [FlapBackends -> [off: Nat, on: Nat]]
      /\ \A a \in FlapBackends : a # b => notices'[a] = notices[a]
      /\ notices'[b].off = notices[b].off
      /\ notices'[b].on <= Sum(b)
  <2>1. CASE owed
    <3>1. notices' = [notices EXCEPT ![b].on = @ + 1]
      BY <2>1 DEF OnBackendOnline
    <3>2. notices'[b] = [notices[b] EXCEPT !.on = @ + 1]
      BY <1>4, <3>1
    <3>3. Sum(b) = notices[b].on + 1
      BY <2>1
    <3>4. notices[b] \in [off: Nat, on: Nat]
      BY <1>4
    <3>5. notices'[b].off = notices[b].off /\ notices'[b].on = notices[b].on + 1
          /\ notices'[b] \in [off: Nat, on: Nat]
      BY <3>2, <3>4
    <3>6. notices[b].on \in Nat
      BY <3>4
    <3> HIDE DEF owed, Sum
    <3>7. notices'[b].on <= Sum(b)
      BY <3>3, <3>5, <3>6
    <3> QED BY <1>4, <3>1, <3>5, <3>7
  <2>2. CASE ~owed
    <3>1. notices' = notices
      BY <2>2 DEF OnBackendOnline
    <3> QED BY <1>4, <3>1
  <2> QED BY <2>1, <2>2
<1>6. RecoveryOwed'
  <2> SUFFICES ASSUME NEW a \in FlapBackends
               PROVE  (notices[a].on + (IF flap[a] # NoFlap /\ flap[a].notified
                                        THEN 1 ELSE 0) <= notices[a].off)'
    BY DEF RecoveryOwed
  <2>1. CASE a = b
    <3>1. Sum(b) <= notices[b].off /\ Sum(b) \in Nat
      BY <1>4
    <3>2. notices'[b].on \in Nat /\ notices[b].off \in Nat
      BY <1>4, <1>5
    <3> HIDE DEF Sum
    <3>3. notices'[b].on + 0 <= notices'[b].off
      BY <1>5, <3>1, <3>2
    <3> QED BY <1>1, <2>1, <3>3
  <2>2. CASE a # b
    <3>1. Sum(a) <= notices[a].off
      BY <1>4
    <3> QED BY <1>1, <1>5, <2>2, <3>1
  <2> QED BY <2>1, <2>2
<1>7. FlapTypeOK'
  BY <1>1, <1>2, <1>5 DEF FlapTypeOK
<1> QED BY <1>3, <1>6, <1>7 DEF FlapInv

LEMMA FlapInvStep ==
    ASSUME FlapInv, [FlapNext]_flapVars
    PROVE  FlapInv'
<1>1. CASE UNCHANGED flapVars
  BY <1>1 DEF flapVars, FlapInv, FlapTypeOK, EntryTimerLive, RecoveryOwed
<1>2. ASSUME NEW t \in Timers, TimerStep(t) PROVE FlapInv'
  BY <1>2, TimerStepKeeps, FireKeeps DEF TimerStep
<1>3. ASSUME NEW b \in FlapBackends, OnBackendOffline(b) \/ OnBackendOnline(b)
      PROVE  FlapInv'
  BY <1>3, OfflineKeeps, OnlineKeeps
<1> QED BY <1>1, <1>2, <1>3 DEF FlapNext, FlapStep

\* In every reachable state of the debounce: its types, the entry's timer is
\* its own live one, and recovered notices are owed by offline notices.
THEOREM FlapInvariant == FlapSpec => []FlapInv
BY FlapInitInv, FlapInvStep, PTL DEF FlapSpec

\* An entry never waits for a timer that was stopped, fired or belongs to
\* another generation, however many callbacks are caught between their timer
\* and flapMu.
THEOREM EntriesHaveLiveTimers == FlapSpec => []EntryTimerLive
BY FlapInvariant, PTL DEF FlapInv

-----------------------------------------------------------------------------
(*************************************************************************)
(* Presence is a behaviour of the registry and of the debounce at once,  *)
(* so what is proved of each part holds of the whole; and the notices of *)
(* one are covered by the losses of the other.                           *)
(*************************************************************************)

LEMMA PresenceInitParts == PresenceInit => RegInit /\ FlapInit
BY DEF PresenceInit

\* A step of the composition is a step, or a stutter, of each part.
LEMMA PresenceStepParts ==
    [PresenceNext]_presenceVars => [RegNext]_regVars /\ [FlapNext]_flapVars
<1> USE PresenceAssumption
<1>1. ASSUME NEW b \in Backends, RunOffline(b) PROVE RegNext /\ FlapNext
  BY <1>1 DEF RunOffline, RegNext, FlapNext
<1>2. ASSUME NEW b \in Backends, RunOnline(b) PROVE RegNext /\ FlapNext
  BY <1>2 DEF RunOnline, RegNext, FlapNext
<1> QED BY <1>1, <1>2 DEF PresenceNext, presenceVars, RegNext, FlapNext

\* The composition implements the registry and the debounce.
THEOREM PresenceImplementsParts == PresenceSpec => RegSpec /\ FlapSpec
BY PresenceInitParts, PresenceStepParts, PTL DEF PresenceSpec, RegSpec, FlapSpec

\* Both parts keep their types when callbacks run in any order.
THEOREM PresenceTypeCorrect == PresenceSpec => []PresenceTypeOK
<1>1. RegTypeOK /\ FlapInv => PresenceTypeOK
  BY DEF PresenceTypeOK, FlapInv
<1> QED BY <1>1, PresenceImplementsParts, RegTypeCorrect, FlapInvariant, PTL

-----------------------------------------------------------------------------
(* Notices never outnumber losses *)

\* The connections of b whose loss was reported.
Lost(b) == {c \in Conns : Owner[c] = b /\ fired[c] = 1}

\* The health checker reports a connection of the backend it names.
ReportKnown ==
    health.at = "report" =>
        health.conn \in Conns /\ health.id = {Owner[health.conn]}

\* Losses, timers and callbacks of a backend are finitely many, and the account
\* of NoticeAccounting holds.
NoticesCovered ==
    \A b \in Backends :
        /\ IsFiniteSet(Pending(b)) /\ IsFiniteSet(Lost(b))
        /\ notices[b].off + Cardinality(Pending(b)) + cb["offline"][b]
             <= Cardinality(Lost(b))

PresenceInv == RegInv /\ FlapInv /\ ReportKnown /\ NoticesCovered

\* Only the eviction of a bound connection leads to a report.
LEMMA ReportKept ==
    ASSUME RegInv, ReportKnown, [RegNext]_regVars
    PROVE  ReportKnown'
<1> SUFFICES ASSUME health'.at = "report" PROVE ReportKnown'
  BY DEF ReportKnown
<1>1. CASE UNCHANGED health
  BY <1>1 DEF ReportKnown
<1>2. ASSUME NEW b \in Backends, HealthEvict(b) PROVE ReportKnown'
  <2>1. conns[b] # NoConn
    BY <1>2, DropIdType DEF HealthEvict, RegInv, RegTypeOK
  <2>2. /\ health' = [health EXCEPT !.at = "report", !.conn = conns[b]]
        /\ health.id = {b} /\ health \in HealthState
        /\ conns[b] \in Conns /\ Owner[conns[b]] = b
    BY <1>2, <2>1 DEF HealthEvict, RegInv, RegTypeOK, ConnOrNone, NoOrphanConn
  <2> QED BY <2>2 DEF ReportKnown, HealthState
<1>3. ASSUME NEW b \in Backends, HealthReport(b) PROVE FALSE
  BY <1>3, DropIdType DEF HealthReport, RegInv, RegTypeOK
<1>4. ASSUME NEW b \in Backends, HealthLook(b) \/ HealthPing(b) \/ HealthBump(b)
      PROVE  FALSE
  BY <1>4 DEF HealthLook, HealthPing, HealthBump, NextPing, Idle, HealthState, RegInv, RegTypeOK
<1>5. ASSUME NEW b \in Backends, HealthJudge(b) PROVE FALSE
  BY <1>5, DropIdType DEF HealthJudge, HealthState, RegInv, RegTypeOK
<1>6. CASE HealthSnapshot
  BY <1>6 DEF HealthSnapshot, Idle
<1>7. ASSUME NEW c \in Conns,
             RegisterWithToken(c) \/ PeerGone(c) \/ GoSilent(c) \/ SSEStep(c)
      PROVE  UNCHANGED health
  BY <1>7 DEF RegisterWithToken, PeerGone, GoSilent, SSEStep, NoteOnline, Flush,
              FlushFails, ChannelClosed, UnregisterIfMatch, ExitReport
<1>8. ASSUME NEW b \in Backends, SendLookup(b) \/ ReceivePong(b) PROVE UNCHANGED health
  BY <1>8 DEF SendLookup, ReceivePong
<1>9. CASE SendPush \/ UNCHANGED regVars
  BY <1>1, <1>9 DEF SendPush, regVars
<1>10. ASSUME NEW kind \in {"offline", "online"}, NEW b \in Backends,
              TakeCallback(kind, b)
       PROVE  UNCHANGED health
  BY <1>10 DEF TakeCallback
<1> QED
  BY <1>1, <1>2, <1>3, <1>4, <1>5, <1>6, <1>7, <1>8, <1>9, <1>10
  DEF RegNext, RegStep, HealthStep

\* The first report of a connection.
Reports(c) ==
    /\ fired[c] = 0 /\ fired' = [fired EXCEPT ![c] = @ + 1]
    /\ FireCallback("offline", Owner[c])

\* Who is about to report a connection is the first to do so.
LEMMA ReporterFate ==
    ASSUME LossAccounted, fired \in [Conns -> Nat], NEW c \in Conns,
           SSEReports(c) \/ HealthReports(c)
    PROVE  fired[c] = 0
<1>1. One(SSEReports(c)) + One(HealthReports(c)) \in {1, 2}
  BY DEF One
<1>2. One(Bound(c)) + One(c \in replaced) + One(SSEReports(c)) + One(HealthReports(c))
        + fired[c] = One(handler[c] # "none")
  BY DEF LossAccounted
<1>3. /\ One(Bound(c)) \in {0, 1} /\ One(c \in replaced) \in {0, 1}
      /\ One(SSEReports(c)) \in {0, 1} /\ One(HealthReports(c)) \in {0, 1}
      /\ One(handler[c] # "none") \in {0, 1}
  BY DEF One
<1>4. \A p, q, r, t, h \in {0, 1}, f \in Nat :
          r + t \in {1, 2} /\ p + q + r + t + f = h => f = 0
  OBVIOUS
<1> QED BY <1>1, <1>2, <1>3, <1>4

\* A step of the registry fires no offline callback, or one for a connection
\* that was not reported before.
LEMMA OneReport ==
    ASSUME RegInv, ReportKnown, RegStep
    PROVE  \/ UNCHANGED << fired, cb["offline"] >>
           \/ \E c \in Conns : Reports(c)
<1> USE DEF RegInv, RegTypeOK
<1>1. ASSUME NEW c \in Conns, ExitReport(c) PROVE Reports(c)
  <2>1. SSEReports(c) /\ FireCallback("offline", Owner[c])
        /\ fired' = [fired EXCEPT ![c] = @ + 1]
    BY <1>1 DEF ExitReport, SSEReports, ReportOffline
  <2>2. fired[c] = 0
    BY <2>1, ReporterFate
  <2> QED BY <2>1, <2>2 DEF Reports
<1>2. ASSUME NEW b \in Backends, HealthReport(b) PROVE \E c \in Conns : Reports(c)
  <2>1. /\ health.conn \in Conns /\ Owner[health.conn] = b
        /\ HealthReports(health.conn) /\ FireCallback("offline", b)
        /\ fired' = [fired EXCEPT ![health.conn] = @ + 1]
    BY <1>2 DEF HealthReport, HealthReports, ReportOffline, ReportKnown
  <2>2. fired[health.conn] = 0
    BY <2>1, ReporterFate
  <2> QED BY <2>1, <2>2 DEF Reports
<1>3. ASSUME NEW c \in Conns, NoteOnline(c) PROVE UNCHANGED << fired, cb["offline"] >>
  BY <1>3 DEF NoteOnline, FireCallback
<1>4. ASSUME UNCHANGED << fired, cb >> PROVE UNCHANGED << fired, cb["offline"] >>
  BY <1>4
<1>5. ASSUME NEW c \in Conns,
             \/ RegisterWithToken(c) \/ PeerGone(c) \/ GoSilent(c) \/ Flush(c)
             \/ FlushFails(c) \/ ChannelClosed(c) \/ UnregisterIfMatch(c)
      PROVE  UNCHANGED << fired, cb >>
  BY <1>5 DEF RegisterWithToken, PeerGone, GoSilent, Flush, FlushFails,
              ChannelClosed, UnregisterIfMatch
<1>6. ASSUME NEW b \in Backends,
             \/ SendLookup(b) \/ ReceivePong(b) \/ HealthLook(b) \/ HealthPing(b)
             \/ HealthBump(b) \/ HealthJudge(b) \/ HealthEvict(b)
      PROVE  UNCHANGED << fired, cb >>
  BY <1>6 DEF SendLookup, ReceivePong, HealthLook, HealthPing, HealthBump,
              HealthJudge, HealthEvict
<1>7. ASSUME SendPush \/ HealthSnapshot PROVE UNCHANGED << fired, cb >>
  BY <1>7 DEF SendPush, HealthSnapshot
<1> QED
  BY <1>1, <1>2, <1>3, <1>4, <1>5, <1>6, <1>7 DEF RegStep, SSEStep, HealthStep

\* A loss is one more to account for, and pays for the callback it fires.
LEMMA LossCovered ==
    ASSUME PresenceInv, RegStep, UNCHANGED flapVars
    PROVE  NoticesCovered'
<1> SUFFICES ASSUME NEW b \in Backends
             PROVE  /\ IsFiniteSet(Pending(b))' /\ IsFiniteSet(Lost(b))'
                    /\ (notices[b].off + Cardinality(Pending(b)) + cb["offline"][b]
                          <= Cardinality(Lost(b)))'
  BY DEF NoticesCovered
<1>1. /\ IsFiniteSet(Pending(b)) /\ IsFiniteSet(Lost(b))
      /\ notices[b].off + Cardinality(Pending(b)) + cb["offline"][b] <= Cardinality(Lost(b))
      /\ RegInv /\ ReportKnown
      /\ fired \in [Conns -> Nat]
      /\ cb \in [{"offline", "online"} -> [Backends -> Nat]]
      /\ notices[b].off \in Nat
  BY PresenceAssumption DEF PresenceInv, NoticesCovered, RegInv, RegTypeOK, FlapInv, FlapTypeOK
<1>2. Pending(b)' = Pending(b) /\ notices' = notices
  BY DEF flapVars, Pending
<1>3. CASE UNCHANGED << fired, cb["offline"] >>
  <2>1. Lost(b)' = Lost(b) /\ cb'["offline"][b] = cb["offline"][b]
    BY <1>3 DEF Lost
  <2> QED BY <1>1, <1>2, <2>1
<1>4. ASSUME NEW c \in Conns, Reports(c), Owner[c] # b
      PROVE  Lost(b)' = Lost(b) /\ cb'["offline"][b] = cb["offline"][b]
  BY <1>1, <1>4, RegistryAssumption DEF Reports, Lost, FireCallback
<1>5. ASSUME NEW c \in Conns, Reports(c), Owner[c] = b
      PROVE  /\ Lost(b)' = Lost(b) \cup {c} /\ c \notin Lost(b)
             /\ cb'["offline"][b] = cb["offline"][b] + 1
  BY <1>1, <1>5 DEF Reports, Lost, FireCallback
<1>6. ASSUME NEW c \in Conns, Lost(b)' = Lost(b) \cup {c}, c \notin Lost(b)
      PROVE  IsFiniteSet(Lost(b))' /\ Cardinality(Lost(b))' = Cardinality(Lost(b)) + 1
  BY <1>1, <1>6, FS_AddElement
<1>7. Cardinality(Pending(b)) \in Nat /\ Cardinality(Lost(b)) \in Nat
      /\ cb["offline"][b] \in Nat
  BY <1>1, FS_CardinalityType
<1> QED BY <1>1, <1>2, <1>3, <1>4, <1>5, <1>6, <1>7, OneReport

\* The timers of b after a step that arms none.
LEMMA FewerPending ==
    ASSUME NEW b \in Backends, IsFiniteSet(Pending(b)), Pending(b)' \subseteq Pending(b)
    PROVE  /\ IsFiniteSet(Pending(b))'
           /\ Cardinality(Pending(b))' <= Cardinality(Pending(b))
           /\ Cardinality(Pending(b)) \in Nat /\ Cardinality(Pending(b))' \in Nat
BY FS_Subset, FS_CardinalityType

\* The timer a reconnect or a new arm stops leaves the pending ones or stays.
LEMMA StoppedPending ==
    ASSUME FlapTypeOK, NEW t \in Timers
    PROVE  \/ Stopped(t) = Free
           \/ Stopped(t).b = timers[t].b /\ Stopped(t).st = "stopped" /\ timers[t].st # "armed"
BY DEF FlapTypeOK, Stopped

\* The callback that ran pays for the timer it arms.
LEMMA OfflineCovered ==
    ASSUME PresenceInv, NEW a \in Backends, RunOffline(a)
    PROVE  NoticesCovered'
<1> SUFFICES ASSUME NEW b \in Backends
             PROVE  /\ IsFiniteSet(Pending(b))' /\ IsFiniteSet(Lost(b))'
                    /\ (notices[b].off + Cardinality(Pending(b)) + cb["offline"][b]
                          <= Cardinality(Lost(b)))'
  BY DEF NoticesCovered
<1>1. /\ IsFiniteSet(Pending(b)) /\ IsFiniteSet(Lost(b))
      /\ notices[b].off + Cardinality(Pending(b)) + cb["offline"][b] <= Cardinality(Lost(b))
      /\ FlapInv /\ FlapTypeOK
      /\ cb \in [{"offline", "online"} -> [Backends -> Nat]]
      /\ notices[b].off \in Nat
  BY PresenceAssumption DEF PresenceInv, NoticesCovered, RegInv, RegTypeOK, FlapInv, FlapTypeOK
<1>2. /\ Lost(b)' = Lost(b) /\ notices' = notices
      /\ cb["offline"][a] > 0 /\ cb' = [cb EXCEPT !["offline"][a] = @ - 1]
      /\ OnBackendOffline(a)
  BY DEF RunOffline, TakeCallback, OnBackendOffline, Lost
<1>3. cb'["offline"][b] = IF b = a THEN cb["offline"][b] - 1 ELSE cb["offline"][b]
  BY <1>1, <1>2
<1>4. CASE UNCHANGED timers
  <2>1. Pending(b)' = Pending(b)
    BY <1>4 DEF Pending
  <2> QED BY SMTT(30), <1>1, <1>2, <1>3, <2>1, FS_CardinalityType
<1>5. CASE ~UNCHANGED timers
  <2> DEFINE st == EntryOf(a)
  <2>1. /\ FreeTimers # {}
        /\ timers' = [t \in Timers |->
              IF t = Fresh THEN [st |-> "armed", b |-> a, gen |-> st.gen + 1]
              ELSE IF t = st.timer THEN Stopped(t) ELSE timers[t]]
    BY <1>2, <1>5 DEF OnBackendOffline
  <2>2. Fresh \in Timers /\ timers[Fresh].st = "free" /\ Free.st = "free"
    BY <2>1, FreshType, FreeType
  <2>3. \A t \in Timers \ {Fresh} : t \in Pending(b)' => t \in Pending(b)
    <3> SUFFICES ASSUME NEW t \in Timers, t # Fresh, timers'[t].b = b,
                        timers'[t].st \in {"armed", "waiting", "stopped"}
                 PROVE  t \in Pending(b)
      BY DEF Pending
    <3>1. CASE t = st.timer
      <4>1. timers'[t] = Stopped(t)
        BY <2>1, <3>1
      <4>2. timers[t].b = b /\ timers[t].st \notin {"armed"} /\ timers'[t].st = "stopped"
        BY <1>1, <2>2, <4>1, StoppedPending
      <4>3. flap[a] # NoFlap /\ flap[a].timer = t /\ t # NoTimer
        BY <3>1, FlapAssumption DEF EntryOf
      <4>4. timers[t].st \in {"armed", "waiting"}
        BY <1>1, <4>3, PresenceAssumption, EntryTimer
      <4> QED BY <4>2, <4>4 DEF Pending
    <3>2. CASE t # st.timer
      BY <2>1, <3>2 DEF Pending
    <3> QED BY <3>1, <3>2
  <2>4. CASE b # a
    <3>1. Pending(b)' \subseteq Pending(b)
      <4>1. timers'[Fresh].b = a
        BY <2>1, <2>2
      <4>2. Fresh \notin Pending(b)'
        BY <2>4, <4>1 DEF Pending
      <4>3. Pending(b)' \subseteq Timers
        BY DEF Pending
      <4> QED BY <2>3, <4>2, <4>3
    <3>2. /\ IsFiniteSet(Pending(b))'
          /\ Cardinality(Pending(b))' <= Cardinality(Pending(b))
          /\ Cardinality(Pending(b)) \in Nat /\ Cardinality(Pending(b))' \in Nat
          /\ Cardinality(Lost(b)) \in Nat /\ cb["offline"][b] \in Nat
      BY <1>1, <3>1, PresenceAssumption, FewerPending, FS_CardinalityType
    <3> QED BY <1>1, <1>2, <1>3, <2>4, <3>2
  <2>5. CASE b = a
    <3>1. Pending(b)' \subseteq Pending(b) \cup {Fresh}
      BY <2>3 DEF Pending
    <3>2. Fresh \notin Pending(b)
      BY <2>2 DEF Pending
    <3>3. /\ IsFiniteSet(Pending(b) \cup {Fresh})
          /\ Cardinality(Pending(b) \cup {Fresh}) = Cardinality(Pending(b)) + 1
      BY <1>1, <3>2, FS_AddElement
    <3>4. /\ IsFiniteSet(Pending(b))'
          /\ Cardinality(Pending(b))' <= Cardinality(Pending(b)) + 1
      BY <3>1, <3>3, FS_Subset
    <3> QED BY SMTT(30), <1>1, <1>2, <1>3, <2>5, <3>4, FS_CardinalityType
  <2> QED BY <2>4, <2>5
<1> QED BY <1>4, <1>5

\* OnBackendOnline arms no timer and decides no offline notice.
LEMMA OnlineCovered ==
    ASSUME PresenceInv, NEW a \in Backends, RunOnline(a)
    PROVE  NoticesCovered'
<1> SUFFICES ASSUME NEW b \in Backends
             PROVE  /\ IsFiniteSet(Pending(b))' /\ IsFiniteSet(Lost(b))'
                    /\ (notices[b].off + Cardinality(Pending(b)) + cb["offline"][b]
                          <= Cardinality(Lost(b)))'
  BY DEF NoticesCovered
<1>1. /\ IsFiniteSet(Pending(b)) /\ IsFiniteSet(Lost(b))
      /\ notices[b].off + Cardinality(Pending(b)) + cb["offline"][b] <= Cardinality(Lost(b))
      /\ FlapInv /\ FlapTypeOK
      /\ cb \in [{"offline", "online"} -> [Backends -> Nat]]
      /\ notices \in [Backends -> [off: Nat, on: Nat]]
  BY PresenceAssumption DEF PresenceInv, NoticesCovered, RegInv, RegTypeOK, FlapInv, FlapTypeOK
<1>2. /\ Lost(b)' = Lost(b) /\ OnBackendOnline(a)
      /\ cb' = [cb EXCEPT !["online"][a] = @ - 1]
  BY DEF RunOnline, TakeCallback, Lost
<1>3. cb'["offline"][b] = cb["offline"][b]
  BY <1>1, <1>2
<1>4. notices'[b].off = notices[b].off
  BY <1>1, <1>2, PresenceAssumption DEF OnBackendOnline
<1>5. Pending(b)' \subseteq Pending(b)
  <2>1. CASE UNCHANGED timers
    BY <2>1 DEF Pending
  <2>2. CASE ~UNCHANGED timers
    <3>1. /\ flap[a] # NoFlap /\ flap[a].timer # NoTimer
          /\ timers' = [timers EXCEPT ![flap[a].timer] = Stopped(flap[a].timer)]
      BY <1>2, <2>2 DEF OnBackendOnline
    <3>2. flap[a].timer \in Timers
      BY <1>1, <3>1, PresenceAssumption, EntryTimer
    <3> DEFINE u == flap[a].timer
    <3> SUFFICES ASSUME NEW t \in Timers, timers'[t].b = b,
                        timers'[t].st \in {"armed", "waiting", "stopped"}
                 PROVE  t \in Pending(b)
      BY DEF Pending
    <3>3. timers \in [Timers -> [st: TimerState, b: Backends, gen: Nat]] /\ Free.st = "free"
      BY <1>1, PresenceAssumption, FreeType DEF FlapTypeOK
    <3>4. CASE t = u
      <4>1. timers'[t] = Stopped(t)
        BY <3>1, <3>3, <3>4
      <4>2. timers[t].b = b /\ timers[t].st # "armed" /\ timers'[t].st = "stopped"
        BY <1>1, <3>3, <4>1, StoppedPending
      <4>3. timers[t].st \in {"armed", "waiting"}
        BY <1>1, <3>1, <3>4, PresenceAssumption, EntryTimer
      <4> QED BY <4>2, <4>3 DEF Pending
    <3>5. CASE t # u
      BY <3>1, <3>3, <3>5 DEF Pending
    <3> QED BY <3>4, <3>5
  <2> QED BY <2>1, <2>2
<1> QED BY SMTT(30), <1>1, <1>2, <1>3, <1>4, <1>5, FewerPending, FS_CardinalityType

\* A timer that decides a notice is no longer pending; the others stay as they
\* were or leave.
LEMMA TimerCovered ==
    ASSUME PresenceInv, NEW t \in Timers, TimerStep(t), UNCHANGED regVars
    PROVE  NoticesCovered'
<1> SUFFICES ASSUME NEW b \in Backends
             PROVE  /\ IsFiniteSet(Pending(b))' /\ IsFiniteSet(Lost(b))'
                    /\ (notices[b].off + Cardinality(Pending(b)) + cb["offline"][b]
                          <= Cardinality(Lost(b)))'
  BY DEF NoticesCovered
<1>1. /\ IsFiniteSet(Pending(b)) /\ IsFiniteSet(Lost(b))
      /\ notices[b].off + Cardinality(Pending(b)) + cb["offline"][b] <= Cardinality(Lost(b))
      /\ FlapInv /\ FlapTypeOK
      /\ cb \in [{"offline", "online"} -> [Backends -> Nat]]
      /\ notices \in [Backends -> [off: Nat, on: Nat]]
      /\ cb["offline"][b] \in Nat
  BY PresenceAssumption DEF PresenceInv, NoticesCovered, RegInv, RegTypeOK, FlapInv, FlapTypeOK
<1>2. Lost(b)' = Lost(b) /\ cb' = cb
  BY DEF regVars, Lost
<1>3. /\ timers \in [Timers -> [st: TimerState, b: Backends, gen: Nat]]
      /\ Free.st = "free"
  BY <1>1, PresenceAssumption, FreeType DEF FlapTypeOK
<1>4. Pending(b)' \subseteq Pending(b)
  BY <1>3 DEF TimerStep, TimerFires, FireOfflineNotice, PostOffline, Pending
<1>5. CASE notices'[b].off = notices[b].off
  BY <1>1, <1>2, <1>4, <1>5, FewerPending, FS_CardinalityType
<1>6. CASE notices'[b].off # notices[b].off
  <2>1. /\ timers[t].b = b /\ timers[t].st \in {"waiting", "stopped"}
        /\ timers'[t].st = "posting" /\ notices'[b].off = notices[b].off + 1
    BY <1>1, <1>3, <1>6 DEF TimerStep, TimerFires, FireOfflineNotice, PostOffline
  <2>2. Pending(b)' \subseteq Pending(b) \ {t} /\ t \in Pending(b)
    BY <1>4, <2>1 DEF Pending
  <2>3. /\ IsFiniteSet(Pending(b) \ {t})
        /\ Cardinality(Pending(b) \ {t}) = Cardinality(Pending(b)) - 1
    BY <1>1, <2>2, FS_RemoveElement
  <2>4. /\ IsFiniteSet(Pending(b))'
        /\ Cardinality(Pending(b))' <= Cardinality(Pending(b)) - 1
    BY <2>2, <2>3, FS_Subset
  <2>5. /\ Cardinality(Pending(b)) \in Nat /\ Cardinality(Pending(b))' \in Nat
        /\ Cardinality(Lost(b)) \in Nat
    BY <1>1, <2>4, FS_CardinalityType
  <2> QED BY <1>1, <1>2, <2>1, <2>4, <2>5
<1> QED BY <1>5, <1>6

\* The invariant of the composition holds at the start.
LEMMA PresenceInvInit == PresenceInit => PresenceInv
<1> SUFFICES ASSUME PresenceInit PROVE PresenceInv
  OBVIOUS
<1>1. RegInv /\ FlapInv
  BY RegInitType, RegInitInv, FlapInitInv DEF PresenceInit, RegInv
<1>2. ReportKnown
  BY DEF PresenceInit, RegInit, Idle, ReportKnown
<1>3. ASSUME NEW b \in Backends
      PROVE  Pending(b) = {} /\ Lost(b) = {} /\ notices[b].off = 0 /\ cb["offline"][b] = 0
  <2>1. Pending(b) = {}
    BY FreeType DEF PresenceInit, FlapInit, Pending
  <2>2. Lost(b) = {}
    BY DEF PresenceInit, RegInit, Lost
  <2>3. notices[b].off = 0 /\ cb["offline"][b] = 0
    BY PresenceAssumption DEF PresenceInit, RegInit, FlapInit
  <2> QED BY <2>1, <2>2, <2>3
<1>4. NoticesCovered
  <2> SUFFICES ASSUME NEW b \in Backends
               PROVE  /\ IsFiniteSet(Pending(b)) /\ IsFiniteSet(Lost(b))
                      /\ notices[b].off + Cardinality(Pending(b)) + cb["offline"][b]
                           <= Cardinality(Lost(b))
    BY DEF NoticesCovered
  <2>1. IsFiniteSet({}) /\ Cardinality({}) = 0
    BY FS_EmptySet
  <2>2. /\ IsFiniteSet(Pending(b)) /\ Cardinality(Pending(b)) = 0
        /\ IsFiniteSet(Lost(b)) /\ Cardinality(Lost(b)) = 0
    BY <1>3, <2>1
  <2> QED BY <1>3, <2>2
<1> QED BY <1>1, <1>2, <1>4 DEF PresenceInv

\* Every step of the composition keeps it.
LEMMA PresenceInvNext == PresenceInv /\ [PresenceNext]_presenceVars => PresenceInv'
<1> SUFFICES ASSUME PresenceInv, [PresenceNext]_presenceVars PROVE PresenceInv'
  OBVIOUS
<1>1. RegInv' /\ FlapInv' /\ ReportKnown'
  BY PresenceStepParts, RegInvStep, FlapInvStep, ReportKept DEF PresenceInv
<1>2. CASE UNCHANGED presenceVars
  <2>1. UNCHANGED << notices, timers, fired, cb >>
    BY <1>2 DEF presenceVars, regVars, flapVars
  <2>2. \A b : Pending(b)' = Pending(b) /\ Lost(b)' = Lost(b)
    BY <2>1 DEF Pending, Lost
  <2>3. NoticesCovered'
    BY <2>1, <2>2 DEF PresenceInv, NoticesCovered
  <2> QED BY <1>1, <2>3 DEF PresenceInv
<1>3. CASE PresenceNext
  <2>1. ASSUME RegStep, UNCHANGED flapVars PROVE NoticesCovered'
    BY <2>1, LossCovered
  <2>2. ASSUME FlapStep, UNCHANGED regVars PROVE NoticesCovered'
    BY <2>2, TimerCovered DEF FlapStep
  <2>3. ASSUME NEW b \in Backends, RunOffline(b) PROVE NoticesCovered'
    BY <2>3, OfflineCovered
  <2>4. ASSUME NEW b \in Backends, RunOnline(b) PROVE NoticesCovered'
    BY <2>4, OnlineCovered
  <2>5. NoticesCovered'
    BY <1>3, <2>1, <2>2, <2>3, <2>4 DEF PresenceNext
  <2> QED BY <1>1, <2>5 DEF PresenceInv
<1> QED BY <1>1, <1>2, <1>3 DEF PresenceInv

\* Offline notices never outnumber the losses that the registry reported, nor
\* recovered notices the offline ones, for any number of connections and timers
\* and any order of the callbacks (fireCallback, ipcserver.go; flapMu,
\* dispatcher_backend.go).
THEOREM NoticesMatchLosses == PresenceSpec => []NoticeAccounting
<1>1. PresenceInv => NoticeAccounting
  <2> SUFFICES ASSUME PresenceInv, NEW b \in Backends
               PROVE  /\ notices[b].on <= notices[b].off
                      /\ notices[b].off + Cardinality(Pending(b)) + cb["offline"][b]
                           <= Cardinality({c \in Conns : Owner[c] = b /\ fired[c] = 1})
    BY DEF NoticeAccounting
  <2>1. notices \in [Backends -> [off: Nat, on: Nat]]
    BY PresenceAssumption DEF PresenceInv, FlapInv, FlapTypeOK
  <2>2. notices[b].on <= notices[b].off
    BY <2>1, PresenceAssumption DEF PresenceInv, FlapInv, RecoveryOwed
  <2> QED BY <2>2 DEF PresenceInv, NoticesCovered, Lost
<1> QED BY <1>1, PresenceInvInit, PresenceInvNext, PTL DEF PresenceSpec

=============================================================================
