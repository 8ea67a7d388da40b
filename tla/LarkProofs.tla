------------------------------ MODULE LarkProofs ------------------------------
(*************************************************************************)
(* Proofs about the two ways to Lark: the websocket with its two locks,  *)
(* and the REST calls of the bot with its token and its card.            *)
(*************************************************************************)
EXTENDS WsConn, FeishuBot, SequenceTheorems, TLAPS

-----------------------------------------------------------------------------
(*************************************************************************)
(* WsConn, for any goroutines and any number of frames: the pieces of    *)
(* two frames never mix, and what the reader delivers is what the server *)
(* sent.                                                                 *)
(*************************************************************************)

(* The connection: its two locks and the pieces on the wire.               *)

Kinds == {"none", "data", "pong", "close"}
Pieces == {"locking", "header", "payload", "unlocking"}
Piece == Goroutines \X Kinds \X {"header", "payload"}
DataFrame == [first : BOOLEAN, fin : BOOLEAN]

ConnTypeOK ==
    /\ nc \in {"none", "handshake", "open", "closed"}
    /\ closeMu \in Goroutines \cup {NoHolder} /\ writeMu \in Goroutines \cup {NoHolder}
    /\ closeSent \in BOOLEAN /\ writeDead \in BOOLEAN /\ reading \in BOOLEAN
    /\ at \in [Goroutines -> Pieces \cup {"none", "idle", "closing", "over"}]
    /\ writing \in [Goroutines -> Kinds]
    /\ onWire \in Seq(Piece)
    /\ written \in Nat /\ frameCount \in Nat
    /\ arrived \in Seq(DataFrame)
    /\ frameBuf \in Seq(Nat)
    /\ messages \in Seq(Seq(Nat))

(* No goroutine runs before the handshake, and one writes a frame exactly  *)
(* while it is between taking and releasing its locks.                     *)
NoneBeforeOpen == nc \in {"none", "handshake"} => \A g \in Goroutines : at[g] = "none"
WritingIsBusy == \A g \in Goroutines : writing[g] # "none" <=> at[g] \in Pieces

(* The mutexes: writeMu for every frame, closeMu for all but a pong.       *)
WriteMuHeld ==
    \A g \in Goroutines : at[g] \in {"header", "payload", "unlocking"} => writeMu = g
CloseMuHeld ==
    \A g \in Goroutines : writing[g] \in {"data", "close"} => closeMu = g

(* After closeSent no data frame is under way; a close frame is the work   *)
(* of one goroutine.                                                       *)
ClosedToData == closeSent => \A g \in Goroutines : writing[g] # "data"
ClosePiece(i) == onWire[i][2] = "close"
OneClose ==
    \A g \in Goroutines : writing[g] = "close" =>
        \A i \in DOMAIN onWire : ClosePiece(i) =>
            onWire[i][1] = g /\ at[g] \notin {"locking", "header"}

(* As long as every write succeeded, the wire ends within a frame only     *)
(* while its writer is about to write the payload.                         *)
InFrame(n) == n % 2 = 1
HeaderWritten(g) ==
    InFrame(Len(onWire)) /\ onWire[Len(onWire)] = << g, writing[g], "header" >>
FrameOpen ==
    ~writeDead =>
        /\ \A g \in Goroutines : at[g] = "payload" => HeaderWritten(g)
        /\ InFrame(Len(onWire)) => \E g \in Goroutines : at[g] = "payload"

(* The joined frames are consecutive, the last ones that arrived, and a    *)
(* message is open exactly when there are some.                            *)
Joined(s, i) == s[i] \in DOMAIN arrived /\ (arrived[s[i]].first <=> i = 1)
BufIsOpenMessage ==
    /\ reading <=> frameBuf # << >>
    /\ \A i \in DOMAIN frameBuf : Joined(frameBuf, i) /\ ~arrived[frameBuf[i]].fin
BufIsLatest ==
    at[ReadLoop] # "over" =>
        \A i \in DOMAIN frameBuf : frameBuf[i] = (Len(arrived) - Len(frameBuf)) + i
Whole(m) ==
    \A i \in DOMAIN m : /\ m[i] = m[1] + (i - 1) /\ Joined(m, i)
                        /\ arrived[m[i]].fin <=> i = Len(m)
AllWhole == \A k \in DOMAIN messages : Whole(messages[k])

LEMMA ConnTypeInit == ConnInit => ConnTypeOK
<1> SUFFICES ASSUME ConnInit PROVE ConnTypeOK
  OBVIOUS
<1>1. /\ at \in [Goroutines -> Pieces \cup {"none", "idle", "closing", "over"}]
      /\ writing \in [Goroutines -> Kinds]
  BY DEF ConnInit, Kinds
<1>2. closeSent \in BOOLEAN /\ writeDead \in BOOLEAN /\ reading \in BOOLEAN
  BY Zenon DEF ConnInit
<1>3. onWire \in Seq(Piece) /\ arrived \in Seq(DataFrame) /\ frameBuf \in Seq(Nat)
  BY DEF ConnInit
<1>4. messages \in Seq(Seq(Nat))
  BY DEF ConnInit
<1> QED BY <1>1, <1>2, <1>3, <1>4 DEF ConnInit, ConnTypeOK

LEMMA ConnTypeStep == ConnTypeOK /\ [ConnNext]_connVars => ConnTypeOK'
<1> SUFFICES ASSUME ConnTypeOK, [ConnNext]_connVars PROVE ConnTypeOK'
  OBVIOUS
<1> USE DEF ConnTypeOK, lockVars, readVars
<1>1. CASE UNCHANGED connVars
  BY <1>1 DEF connVars
<1>2. CASE DialTCP \/ HandshakeFails \/ WriteRefused
  BY <1>2 DEF DialTCP, HandshakeFails, WriteRefused, Goroutines
<1>3. CASE HandshakeOk
  BY <1>3 DEF HandshakeOk
<1>4. ASSUME NEW g \in Goroutines, WriteMessage(g) \/ LoopEnds(g) PROVE ConnTypeOK'
  <2>1. CASE WriteMessage(g)
    BY <2>1 DEF WriteMessage, Pieces, Kinds
  <2>2. CASE LoopEnds(g)
    BY <2>2 DEF LoopEnds
  <2> QED BY <1>4, <2>1, <2>2
<1>5. ASSUME NEW g \in Goroutines, LockWrite(g) PROVE ConnTypeOK'
  BY <1>5 DEF LockWrite, Pieces
<1>6. ASSUME NEW g \in Goroutines, WritePiece(g) PROVE ConnTypeOK'
  <2>1. at[g] \in {"header", "payload"} /\ << g, writing[g], at[g] >> \in Piece
    BY <1>6 DEF WritePiece, Piece
  <2>2. onWire' \in Seq(Piece)
    BY <1>6, <2>1, AppendProperties DEF WritePiece
  <2>3. at' \in [Goroutines -> Pieces \cup {"none", "idle", "closing", "over"}]
    BY <1>6 DEF WritePiece, Pieces
  <2> QED BY <1>6, <2>2, <2>3 DEF WritePiece
<1>7. ASSUME NEW g \in Goroutines, WriteFails(g) PROVE ConnTypeOK'
  BY <1>7 DEF WriteFails, Pieces
<1>8. ASSUME NEW g \in Goroutines, Unlock(g) PROVE ConnTypeOK'
  <2>1. at' \in [Goroutines -> Pieces \cup {"none", "idle", "closing", "over"}]
    BY <1>8 DEF Unlock, Pieces
  <2>2. writing' \in [Goroutines -> Kinds]
    BY <1>8 DEF Unlock, Kinds
  <2> QED BY <1>8, <2>1, <2>2 DEF Unlock
<1>9. ASSUME NEW first \in BOOLEAN, NEW fin \in BOOLEAN, ReadDataFrame(first, fin)
      PROVE ConnTypeOK'
  <2> DEFINE f == [first |-> first, fin |-> fin]
             joined == Append(frameBuf, Len(arrived) + 1)
  <2>1. f \in DataFrame
    BY DEF DataFrame
  <2>2. arrived' \in Seq(DataFrame)
    BY <1>9, <2>1, AppendProperties DEF ReadDataFrame
  <2>3. joined \in Seq(Nat)
    BY AppendProperties, LenProperties
  <2>4. \/ ReadError
        \/ /\ reading' = ~fin /\ UNCHANGED at
           /\ frameBuf' = IF fin THEN << >> ELSE joined
           /\ messages' = IF fin THEN Append(messages, joined) ELSE messages
    BY Zenon, <1>9 DEF ReadDataFrame, JoinFrame
  <2>5. at' \in [Goroutines -> Pieces \cup {"none", "idle", "closing", "over"}]
    BY <2>4 DEF ReadError, Goroutines
  <2>6. frameBuf' \in Seq(Nat) /\ messages' \in Seq(Seq(Nat))
    <3> HIDE DEF joined
    <3>1. Append(messages, joined) \in Seq(Seq(Nat))
      BY <2>3, AppendProperties
    <3>2. frameBuf' = frameBuf \/ frameBuf' = << >> \/ frameBuf' = joined
      BY <2>4 DEF ReadError
    <3>3. messages' = messages \/ messages' = Append(messages, joined)
      BY <2>4 DEF ReadError
    <3>4. frameBuf' \in Seq(Nat)
      BY <2>3, <3>2, EmptySeq
    <3>5. messages' \in Seq(Seq(Nat))
      BY <3>1, <3>3
    <3> QED BY <3>4, <3>5
  <2>7. reading' \in BOOLEAN
    BY Zenon, <2>4 DEF ReadError
  <2> QED BY <1>9, <2>2, <2>5, <2>6, <2>7 DEF ReadDataFrame
<1>10. CASE ReadPing
  BY <1>10 DEF ReadPing, Pieces, Kinds, Goroutines
<1>11. CASE ReadClose
  <2>1. CloseFrame(ReadLoop, "over") /\ ReadLoop \in Goroutines
    BY <1>11 DEF ReadClose, Goroutines
  <2>2. /\ closeMu' \in Goroutines \cup {NoHolder}
        /\ at' \in [Goroutines -> Pieces \cup {"none", "idle", "closing", "over"}]
        /\ writing' \in [Goroutines -> Kinds]
    BY <2>1 DEF CloseFrame, Pieces, Kinds
  <2>3. closeSent' \in BOOLEAN
    BY Zenon, <2>1 DEF CloseFrame
  <2> QED BY <1>11, <2>2, <2>3 DEF ReadClose
<1>12. CASE ReadFails
  BY <1>12 DEF ReadFails, ReadError, Goroutines
<1>13. CASE Close
  <2>1. CloseFrame(Session, "closing") /\ Session \in Goroutines
    BY <1>13 DEF Close, Goroutines
  <2>2. /\ closeMu' \in Goroutines \cup {NoHolder}
        /\ at' \in [Goroutines -> Pieces \cup {"none", "idle", "closing", "over"}]
        /\ writing' \in [Goroutines -> Kinds]
    BY <2>1 DEF CloseFrame, Pieces, Kinds
  <2>3. closeSent' \in BOOLEAN
    BY Zenon, <2>1 DEF CloseFrame
  <2> QED BY <1>13, <2>2, <2>3 DEF Close
<1>14. CASE CloseSocket
  BY <1>14 DEF CloseSocket, Goroutines
<1> QED
  BY <1>1, <1>2, <1>3, <1>4, <1>5, <1>6, <1>7, <1>8, <1>9, <1>10, <1>11, <1>12,
     <1>13, <1>14 DEF ConnNext, WriteStep

-----------------------------------------------------------------------------
(* What a step does to the positions of the goroutines: one of them moves. *)
Locks == NoneBeforeOpen /\ WritingIsBusy /\ WriteMuHeld /\ CloseMuHeld
         /\ ClosedToData /\ (\A g \in Goroutines : writing[g] = "close" => closeSent)

(* g goes from one place to the next, writing a frame of kind k there.     *)
Moves(g, from, to, k) ==
    /\ at[g] \in from /\ at'[g] \in to /\ writing'[g] = k
    /\ \A h \in Goroutines \ {g} : at'[h] = at[h] /\ writing'[h] = writing[h]

LEMMA AtMoves ==
  ASSUME ConnTypeOK, NEW g \in Goroutines, NEW v, at' = [at EXCEPT ![g] = v]
  PROVE  at'[g] = v /\ \A h \in Goroutines \ {g} : at'[h] = at[h]
BY DEF ConnTypeOK

LEMMA WritingMoves ==
  ASSUME ConnTypeOK, NEW g \in Goroutines, NEW v, writing' = [writing EXCEPT ![g] = v]
  PROVE  writing'[g] = v /\ \A h \in Goroutines \ {g} : writing'[h] = writing[h]
BY DEF ConnTypeOK

(* Whoever finds closeSent unset takes closeMu and starts a close frame.   *)
LEMMA CloseFrameMoves ==
  ASSUME ConnTypeOK, NEW g \in Goroutines, NEW v \in {"closing", "over"},
         CloseFrame(g, v), at[g] = "idle", writing[g] = "none"
  PROVE  \/ /\ closeSent /\ UNCHANGED << closeMu, closeSent, writing >>
            /\ Moves(g, {"idle"}, {"closing", "over"}, "none")
         \/ /\ ~closeSent /\ closeSent' /\ closeMu = NoHolder /\ closeMu' = g
            /\ Moves(g, {"idle"}, {"locking"}, "close")
<1>1. CASE closeSent
  <2>1. at' = [at EXCEPT ![g] = v] /\ UNCHANGED << closeMu, closeSent, writing >>
    BY <1>1 DEF CloseFrame
  <2> QED BY <1>1, <2>1, AtMoves DEF Moves
<1>2. CASE ~closeSent
  <2>1. /\ closeMu = NoHolder /\ closeMu' = g /\ closeSent' = TRUE
        /\ at' = [at EXCEPT ![g] = "locking"] /\ writing' = [writing EXCEPT ![g] = "close"]
    BY <1>2 DEF CloseFrame
  <2> QED BY <1>2, <2>1, AtMoves, WritingMoves DEF Moves
<1> QED BY <1>1, <1>2

(* A goroutine outside a frame ends, goes back to reading or closes.       *)
LEMMA OutsideLocks ==
  ASSUME ConnTypeOK, Locks, NEW g \in Goroutines,
         Moves(g, {"idle", "closing"}, {"idle", "closing", "over"}, "none"),
         UNCHANGED << closeMu, writeMu, closeSent >>, nc \in {"open", "closed"},
         nc' \in {"open", "closed"}
  PROVE  Locks'
BY DEF Locks, Moves, NoneBeforeOpen, WritingIsBusy, WriteMuHeld, CloseMuHeld, ClosedToData,
       Pieces

(* It starts a frame of kind k, and takes closeMu unless that is a pong.   *)
LEMMA StartLocks ==
  ASSUME ConnTypeOK, Locks, NEW g \in Goroutines, NEW k \in {"data", "pong", "close"},
         Moves(g, {"idle"}, {"locking"}, k), UNCHANGED << writeMu, nc >>,
         nc \in {"open", "closed"},
         k = "pong" => UNCHANGED << closeMu, closeSent >>,
         k # "pong" => closeMu = NoHolder /\ closeMu' = g,
         k = "data" => ~closeSent /\ UNCHANGED closeSent, k = "close" => closeSent'
  PROVE  Locks'
<1>1. g # NoHolder
  BY ConnAssumption
<1>2. \A h \in Goroutines : writing[h] \in {"data", "close"} => closeMu = h
  BY DEF Locks, CloseMuHeld
<1>3. NoneBeforeOpen' /\ WritingIsBusy' /\ WriteMuHeld'
  BY DEF Locks, Moves, NoneBeforeOpen, WritingIsBusy, WriteMuHeld, Pieces
<1>4. CloseMuHeld'
  <2> SUFFICES ASSUME NEW h \in Goroutines, writing'[h] \in {"data", "close"}
               PROVE  closeMu' = h
    BY DEF CloseMuHeld
  <2>1. CASE h = g
    BY <2>1 DEF Moves
  <2>2. CASE h # g
    <3>1. closeMu = h /\ closeMu # NoHolder
      BY <1>2, <2>2, ConnAssumption DEF Moves
    <3>2. k = "pong"
      BY <3>1
    <3> QED BY <3>1, <3>2
  <2> QED BY <2>1, <2>2
<1>5. ClosedToData'
  <2>1. CASE k = "close"
    <3>1. \A h \in Goroutines : closeMu # h
      BY <2>1, ConnAssumption
    <3>2. \A h \in Goroutines : writing[h] # "data"
      BY <1>2, <3>1
    <3> QED BY <2>1, <3>2 DEF Moves, ClosedToData
  <2>2. CASE k # "close"
    BY <2>2 DEF Locks, Moves, ClosedToData
  <2> QED BY <2>1, <2>2
<1>6. \A h \in Goroutines : writing'[h] = "close" => closeSent'
  <2>1. CASE k = "close"
    BY <2>1
  <2>2. CASE k # "close"
    BY <2>2 DEF Locks, Moves
  <2> QED BY <2>1, <2>2
<1> QED BY <1>3, <1>4, <1>5, <1>6 DEF Locks

(* It takes writeMu for the frame, and holds it until it gives up both.    *)
LEMMA WriteLocks ==
  ASSUME ConnTypeOK, Locks, NEW g \in Goroutines,
         Moves(g, Pieces, {"header", "payload", "unlocking"}, writing[g]),
         UNCHANGED << closeMu, closeSent, nc >>, writeMu' = g, writeMu \in {g, NoHolder}
  PROVE  Locks'
<1>1. \A h \in Goroutines : h # NoHolder
  BY ConnAssumption
<1>2. \A h \in Goroutines : writing'[h] = writing[h]
  BY DEF Moves
<1> QED
  BY <1>1, <1>2 DEF Locks, Moves, NoneBeforeOpen, WritingIsBusy, WriteMuHeld, CloseMuHeld,
                    ClosedToData, Pieces

LEMMA UnlockLocks ==
  ASSUME ConnTypeOK, Locks, NEW g \in Goroutines,
         Moves(g, {"unlocking"}, {"idle", "closing", "over"}, "none"),
         writeMu' = NoHolder, closeMu' = IF closeMu = g THEN NoHolder ELSE closeMu,
         UNCHANGED << closeSent, nc >>
  PROVE  Locks'
<1>1. writeMu = g
  BY DEF Locks, Moves, WriteMuHeld
<1>2. WriteMuHeld'
  BY <1>1 DEF Locks, Moves, WriteMuHeld
<1>3. CloseMuHeld'
  BY DEF Locks, Moves, CloseMuHeld
<1> QED
  BY <1>2, <1>3 DEF Locks, Moves, NoneBeforeOpen, WritingIsBusy, ClosedToData, Pieces

(* Which of those a step is.                                               *)
Outside(g) ==
    /\ Moves(g, {"idle", "closing"}, {"idle", "closing", "over"}, "none")
    /\ UNCHANGED << closeMu, writeMu, closeSent, onWire, writeDead >>
    /\ nc \in {"open", "closed"} /\ nc' \in {"open", "closed"}
Starts(g, k) ==
    /\ Moves(g, {"idle"}, {"locking"}, k)
    /\ UNCHANGED << writeMu, nc, onWire, writeDead >> /\ nc \in {"open", "closed"}
    /\ k = "pong" => UNCHANGED << closeMu, closeSent >>
    /\ k # "pong" => closeMu = NoHolder /\ closeMu' = g /\ ~closeSent
    /\ k = "data" => UNCHANGED closeSent
    /\ k = "close" => closeSent'
Writes(g) ==
    /\ Moves(g, Pieces, {"header", "payload", "unlocking"}, writing[g])
    /\ UNCHANGED << closeMu, closeSent, nc >>
    /\ writeMu' = g /\ writeMu \in {g, NoHolder}
Unlocks(g) ==
    /\ Moves(g, {"unlocking"}, {"idle", "closing", "over"}, "none")
    /\ writeMu' = NoHolder /\ closeMu' = IF closeMu = g THEN NoHolder ELSE closeMu
    /\ UNCHANGED << closeSent, nc, onWire, writeDead >>
Opens ==
    /\ nc \in {"none", "handshake"}
    /\ UNCHANGED << lockVars, readVars, writing, onWire, writeDead, written >>
    /\ \A g \in Goroutines : at'[g] \in {"none", "idle"}
    /\ at' # at => nc' = "open"
    /\ nc' = "handshake" => at' = at
    /\ nc' \in {"handshake", "open", "closed"}

LEMMA OpenIsUp ==
  ASSUME ConnTypeOK, NoneBeforeOpen, NEW g \in Goroutines, at[g] # "none"
  PROVE  nc \in {"open", "closed"}
BY DEF ConnTypeOK, NoneBeforeOpen

LEMMA IdleIsQuiet ==
  ASSUME ConnTypeOK, Locks, NEW g \in Goroutines, at[g] \in {"idle", "closing"}
  PROVE  writing[g] = "none" /\ nc \in {"open", "closed"}
BY OpenIsUp DEF Locks, WritingIsBusy, Pieces

LEMMA ReadDataMoves ==
  ASSUME ConnTypeOK, Locks, NEW first \in BOOLEAN, NEW fin \in BOOLEAN,
         ReadDataFrame(first, fin)
  PROVE  Outside(ReadLoop)
<1>1. /\ at[ReadLoop] = "idle" /\ nc = "open" /\ ReadLoop \in Goroutines
      /\ UNCHANGED << nc, lockVars, writing, onWire, writeDead >>
  BY DEF ReadDataFrame, CanRead, Goroutines
<1>2. at' = at \/ at' = [at EXCEPT ![ReadLoop] = "over"]
  BY Zenon DEF ReadDataFrame, JoinFrame, ReadError
<1> QED BY <1>1, <1>2, AtMoves, IdleIsQuiet DEF Outside, Moves, lockVars

LEMMA WriteStepMoves ==
  ASSUME ConnTypeOK, Locks, NEW g \in Goroutines, WriteStep(g)
  PROVE  \/ Writes(g) /\ ~WritePiece(g) /\ UNCHANGED onWire
            /\ \/ writeDead' /\ at'[g] = "unlocking"
               \/ at[g] = "locking" /\ at'[g] = "header" /\ UNCHANGED writeDead
         \/ Writes(g) /\ WritePiece(g)
         \/ Unlocks(g)
<1>1. CASE LockWrite(g)
  <2>1. /\ at[g] = "locking" /\ writeMu = NoHolder /\ writeMu' = g
        /\ at' = [at EXCEPT ![g] = "header"]
        /\ UNCHANGED << nc, closeMu, closeSent, writing, onWire, writeDead >>
    BY <1>1 DEF LockWrite
  <2>2. at'[g] = "header" /\ (\A h \in Goroutines \ {g} : at'[h] = at[h])
    BY <2>1, AtMoves
  <2>3. Writes(g)
    BY <2>1, <2>2 DEF Writes, Moves, Pieces
  <2>4. ~WritePiece(g)
    BY <2>1 DEF WritePiece
  <2> QED BY <2>1, <2>2, <2>3, <2>4
<1>2. CASE WritePiece(g)
  <2>1. /\ at[g] \in {"header", "payload"}
        /\ at' = [at EXCEPT ![g] = IF at[g] = "header" THEN "payload" ELSE "unlocking"]
        /\ UNCHANGED << nc, closeMu, writeMu, closeSent, writing >>
    BY <1>2 DEF WritePiece, lockVars
  <2>2. /\ at'[g] \in {"payload", "unlocking"}
        /\ \A h \in Goroutines \ {g} : at'[h] = at[h]
    BY <2>1, AtMoves
  <2>3. writeMu = g
    BY <2>1 DEF Locks, WriteMuHeld
  <2> QED BY <1>2, <2>1, <2>2, <2>3 DEF Writes, Moves, Pieces
<1>3. CASE WriteFails(g)
  <2>1. /\ at[g] \in {"header", "payload"} /\ writeDead' = TRUE
        /\ at' = [at EXCEPT ![g] = "unlocking"]
        /\ UNCHANGED << nc, closeMu, writeMu, closeSent, writing, onWire >>
    BY <1>3 DEF WriteFails, lockVars
  <2>2. at'[g] = "unlocking" /\ (\A h \in Goroutines \ {g} : at'[h] = at[h])
    BY <2>1, AtMoves
  <2>3. writeMu = g
    BY <2>1 DEF Locks, WriteMuHeld
  <2>4. Writes(g)
    BY <2>1, <2>2, <2>3 DEF Writes, Moves, Pieces
  <2>5. CASE WritePiece(g)
    BY <2>4, <2>5
  <2>6. CASE ~WritePiece(g)
    BY <2>1, <2>2, <2>4, <2>6
  <2> QED BY <2>5, <2>6
<1>4. CASE Unlock(g)
  <2>1. /\ at[g] = "unlocking" /\ writeMu' = NoHolder
        /\ closeMu' = IF closeMu = g THEN NoHolder ELSE closeMu
        /\ writing' = [writing EXCEPT ![g] = "none"]
        /\ UNCHANGED << nc, closeSent, onWire, writeDead >>
    BY <1>4 DEF Unlock
  <2>2. \E v \in {"idle", "closing", "over"} : at' = [at EXCEPT ![g] = v]
    BY <1>4 DEF Unlock
  <2>3. at'[g] \in {"idle", "closing", "over"} /\ \A h \in Goroutines \ {g} : at'[h] = at[h]
    BY <2>2, AtMoves
  <2>4. writing'[g] = "none" /\ \A h \in Goroutines \ {g} : writing'[h] = writing[h]
    BY <2>1, WritingMoves
  <2> QED BY <2>1, <2>3, <2>4 DEF Unlocks, Moves
<1> QED BY <1>1, <1>2, <1>3, <1>4 DEF WriteStep

LEMMA StepShape ==
  ASSUME ConnTypeOK, Locks, ConnNext
  PROVE  \/ Opens
         \/ \E g \in Goroutines :
               Outside(g) \/ WriteStep(g) \/ \E k \in {"data", "pong", "close"} : Starts(g, k)
<1> DEFINE Shaped == \E g \in Goroutines :
               Outside(g) \/ WriteStep(g) \/ \E k \in {"data", "pong", "close"} : Starts(g, k)
<1>0. ReadLoop \in Goroutines /\ PingLoop \in Goroutines /\ Session \in Goroutines
  BY DEF Goroutines
<1>1. CASE DialTCP \/ HandshakeFails
  BY <1>1, ConnAssumption DEF DialTCP, HandshakeFails, Opens, Locks, NoneBeforeOpen
<1>2. CASE HandshakeOk
  BY <1>2 DEF HandshakeOk, Opens, Locks, NoneBeforeOpen
<1>3. ASSUME NEW g \in Goroutines, WriteMessage(g) PROVE Starts(g, "data")
  <2>1. /\ at[g] = "idle" /\ closeMu = NoHolder /\ ~closeSent /\ closeMu' = g
        /\ at' = [at EXCEPT ![g] = "locking"] /\ writing' = [writing EXCEPT ![g] = "data"]
        /\ UNCHANGED << nc, writeMu, closeSent, onWire, writeDead >>
    BY <1>3 DEF WriteMessage
  <2>2. writing[g] = "none" /\ nc \in {"open", "closed"}
    BY <2>1, IdleIsQuiet
  <2>3. Moves(g, {"idle"}, {"locking"}, "data")
    BY <2>1, AtMoves, WritingMoves DEF Moves
  <2> QED BY <2>1, <2>2, <2>3 DEF Starts
<1>4. CASE ReadPing
  <2>1. /\ at[ReadLoop] = "idle"
        /\ at' = [at EXCEPT ![ReadLoop] = "locking"]
        /\ writing' = [writing EXCEPT ![ReadLoop] = "pong"]
        /\ UNCHANGED << nc, closeMu, writeMu, closeSent, onWire, writeDead >>
    BY <1>4 DEF ReadPing, CanRead, lockVars
  <2>2. nc \in {"open", "closed"}
    BY <1>0, <2>1, IdleIsQuiet
  <2>3. Moves(ReadLoop, {"idle"}, {"locking"}, "pong")
    BY <1>0, <2>1, AtMoves, WritingMoves DEF Moves
  <2>4. Starts(ReadLoop, "pong")
    BY <2>1, <2>2, <2>3 DEF Starts
  <2> QED BY <1>0, <2>4
<1>5. ASSUME NEW g \in Goroutines, NEW v \in {"closing", "over"}, at[g] = "idle",
             CloseFrame(g, v), UNCHANGED << nc, writeMu, onWire, writeDead >>
      PROVE  Outside(g) \/ Starts(g, "close")
  <2>1. writing[g] = "none" /\ nc \in {"open", "closed"}
    BY <1>5, IdleIsQuiet
  <2>2. \/ /\ closeSent /\ UNCHANGED << closeMu, closeSent, writing >>
           /\ Moves(g, {"idle"}, {"closing", "over"}, "none")
        \/ /\ ~closeSent /\ closeSent' /\ closeMu = NoHolder /\ closeMu' = g
           /\ Moves(g, {"idle"}, {"locking"}, "close")
    BY <1>5, <2>1, CloseFrameMoves
  <2>3. CASE Moves(g, {"idle"}, {"closing", "over"}, "none")
             /\ UNCHANGED << closeMu, closeSent >>
    BY <1>5, <2>1, <2>3 DEF Outside, Moves
  <2>4. CASE /\ ~closeSent /\ closeSent' /\ closeMu = NoHolder /\ closeMu' = g
             /\ Moves(g, {"idle"}, {"locking"}, "close")
    BY <1>5, <2>1, <2>4 DEF Starts
  <2> QED BY <2>2, <2>3, <2>4
<1>6. CASE Close \/ ReadClose
  <2>1. CASE Close
    BY <1>0, <1>5, <2>1 DEF Close
  <2>2. CASE ReadClose
    BY <1>0, <1>5, <2>2 DEF ReadClose, CanRead
  <2> QED BY <1>6, <2>1, <2>2
<1>7. ASSUME NEW g \in Goroutines, NEW v \in {"idle", "closing", "over"},
             at[g] \in {"idle", "closing"}, at' = [at EXCEPT ![g] = v],
             UNCHANGED << closeMu, writeMu, closeSent, writing, onWire, writeDead >>,
             nc' = nc \/ nc' = "closed"
      PROVE  Outside(g)
  BY <1>7, AtMoves, IdleIsQuiet DEF Outside, Moves
<1>8. CASE WriteRefused
  <2>1. Outside(PingLoop)
    BY <1>0, <1>7, <1>8 DEF WriteRefused, lockVars
  <2> QED BY <1>0, <2>1
<1>9. CASE ReadFails
  <2>1. Outside(ReadLoop)
    BY <1>0, <1>7, <1>9 DEF ReadFails, ReadError, lockVars
  <2> QED BY <1>0, <2>1
<1>10. CASE CloseSocket
  <2>1. Outside(Session)
    BY <1>0, <1>7, <1>10 DEF CloseSocket, lockVars
  <2> QED BY <1>0, <2>1
<1>11. ASSUME NEW g \in Goroutines, LoopEnds(g) PROVE Outside(g)
  BY <1>7, <1>11 DEF LoopEnds, lockVars
<1>12. ASSUME NEW first \in BOOLEAN, NEW fin \in BOOLEAN, ReadDataFrame(first, fin)
       PROVE  Shaped
  BY <1>0, <1>12, ReadDataMoves
<1> HIDE DEF Shaped
<1>13. ASSUME NEW g \in Goroutines, WriteMessage(g) \/ WriteStep(g) \/ LoopEnds(g)
       PROVE  Shaped
  BY <1>3, <1>11, <1>13 DEF Shaped
<1> QED
  BY <1>1, <1>2, <1>4, <1>6, <1>8, <1>9, <1>10, <1>12, <1>13 DEF ConnNext, Shaped

LEMMA LocksStep == ConnTypeOK /\ Locks /\ [ConnNext]_connVars => Locks'
<1> SUFFICES ASSUME ConnTypeOK, Locks, [ConnNext]_connVars PROVE Locks'
  OBVIOUS
<1>1. CASE UNCHANGED connVars
  BY <1>1 DEF connVars, Locks, NoneBeforeOpen, WritingIsBusy, WriteMuHeld, CloseMuHeld,
              ClosedToData
<1>2. CASE Opens
  <2>1. \A g \in Goroutines : at[g] = "none" /\ at'[g] \in {"none", "idle"}
    BY <1>2 DEF Opens, Locks, NoneBeforeOpen
  <2>2. NoneBeforeOpen'
    BY <1>2, <2>1 DEF Opens, Locks, NoneBeforeOpen
  <2> QED
    BY <1>2, <2>1, <2>2
       DEF Opens, lockVars, Locks, WritingIsBusy, WriteMuHeld, CloseMuHeld, ClosedToData, Pieces
<1>3. ASSUME NEW g \in Goroutines, Outside(g) PROVE Locks'
  BY <1>3, OutsideLocks DEF Outside
<1>4. ASSUME NEW g \in Goroutines, NEW k \in {"data", "pong", "close"}, Starts(g, k)
      PROVE  Locks'
  BY <1>4, StartLocks DEF Starts
<1>5. ASSUME NEW g \in Goroutines, WriteStep(g) PROVE Locks'
  <2>1. Writes(g) \/ Unlocks(g)
    BY <1>5, WriteStepMoves
  <2>2. CASE Writes(g)
    BY <2>2, WriteLocks DEF Writes
  <2>3. CASE Unlocks(g)
    BY <2>3, UnlockLocks DEF Unlocks
  <2> QED BY <2>1, <2>2, <2>3
<1> QED BY <1>1, <1>2, <1>3, <1>4, <1>5, StepShape

-----------------------------------------------------------------------------
(* The wire                                                                *)
CloseOnWire == \A i \in DOMAIN onWire : ClosePiece(i) => closeSent
WireInv == CloseOnWire /\ OneClose /\ FrameOpen /\ WireInOrder

LEMMA Parity ==
  ASSUME NEW n \in Nat
  PROVE  /\ n % 2 \in {0, 1}
         /\ InFrame(n) => (n + 1) % 2 = 0
         /\ ~InFrame(n) => (n + 1) % 2 = 1
BY DEF InFrame

LEMMA WireGrows ==
  ASSUME ConnTypeOK, NEW p \in Piece, onWire' = Append(onWire, p)
  PROVE  /\ Len(onWire) \in Nat /\ Len(onWire') = Len(onWire) + 1
         /\ DOMAIN onWire = 1 .. Len(onWire) /\ DOMAIN onWire' = 1 .. Len(onWire) + 1
         /\ onWire'[Len(onWire) + 1] = p
         /\ \A i \in 1 .. Len(onWire) : onWire'[i] = onWire[i]
BY AppendProperties, LenProperties DEF ConnTypeOK

(* A step that writes nothing.                                             *)
LEMMA SameWire ==
  ASSUME UNCHANGED onWire
  PROVE  /\ WireInOrder => WireInOrder'
         /\ \A i : ClosePiece(i)' <=> ClosePiece(i)
         /\ InFrame(Len(onWire))' <=> InFrame(Len(onWire))
BY DEF WireInOrder, ClosePiece, InFrame

LEMMA OutsideWire ==
  ASSUME ConnTypeOK, Locks, WireInv, NEW g \in Goroutines, Outside(g) \/ Unlocks(g)
  PROVE  WireInv'
<1>1. /\ UNCHANGED << onWire, writeDead, closeSent >>
      /\ at[g] # "payload" /\ at'[g] \notin Pieces /\ writing'[g] = "none"
      /\ \A h \in Goroutines \ {g} : at'[h] = at[h] /\ writing'[h] = writing[h]
  BY DEF Outside, Unlocks, Moves, Pieces
<1>2. CloseOnWire' /\ WireInOrder'
  BY <1>1, SameWire DEF WireInv, CloseOnWire
<1>3. OneClose'
  BY <1>1, SameWire DEF WireInv, OneClose
<1>4. FrameOpen'
  BY <1>1, SameWire DEF WireInv, FrameOpen, HeaderWritten, Pieces
<1> QED BY <1>2, <1>3, <1>4 DEF WireInv

LEMMA StartWire ==
  ASSUME ConnTypeOK, Locks, WireInv, NEW g \in Goroutines,
         NEW k \in {"data", "pong", "close"}, Starts(g, k)
  PROVE  WireInv'
<1>1. /\ UNCHANGED << onWire, writeDead >>
      /\ at[g] = "idle" /\ at'[g] = "locking" /\ writing'[g] = k
      /\ \A h \in Goroutines \ {g} : at'[h] = at[h] /\ writing'[h] = writing[h]
  BY DEF Starts, Moves
<1>2. closeSent => closeSent'
  BY DEF Starts
<1>3. CloseOnWire' /\ WireInOrder'
  BY <1>1, <1>2, SameWire DEF WireInv, CloseOnWire
<1>4. k = "close" => \A i \in DOMAIN onWire : ~ClosePiece(i)
  BY DEF Starts, WireInv, CloseOnWire
<1>5. OneClose'
  BY <1>1, <1>4, SameWire DEF WireInv, OneClose
<1>6. FrameOpen'
  BY <1>1, SameWire DEF WireInv, FrameOpen, HeaderWritten
<1> QED BY <1>3, <1>5, <1>6 DEF WireInv

(* A goroutine that takes writeMu finds the wire between two frames.       *)
LEMMA LockWire ==
  ASSUME ConnTypeOK, Locks, WireInv, NEW g \in Goroutines, Writes(g), UNCHANGED onWire,
         \/ writeDead' /\ at'[g] = "unlocking"
         \/ at[g] = "locking" /\ at'[g] = "header" /\ UNCHANGED writeDead
  PROVE  WireInv'
<1>1. /\ at[g] \in Pieces /\ at'[g] \in {"header", "payload", "unlocking"}
      /\ \A h \in Goroutines : writing'[h] = writing[h]
      /\ \A h \in Goroutines \ {g} : at'[h] = at[h]
      /\ closeSent' = closeSent
  BY DEF Writes, Moves
<1>2. CloseOnWire' /\ WireInOrder'
  BY <1>1, SameWire DEF WireInv, CloseOnWire
<1>3. OneClose'
  <2>1. at'[g] = "header" => at[g] = "locking"
    BY <1>1 DEF Writes, Moves, Locks, WriteMuHeld
  <2> QED BY <1>1, <2>1, SameWire DEF WireInv, OneClose
<1>4. FrameOpen'
  <2>1. CASE writeDead'
    BY <2>1 DEF FrameOpen
  <2>2. CASE at[g] = "locking" /\ at'[g] = "header" /\ UNCHANGED writeDead
    BY <1>1, <2>2, SameWire DEF WireInv, FrameOpen, HeaderWritten
  <2> QED BY <2>1, <2>2
<1> QED BY <1>2, <1>3, <1>4 DEF WireInv

(* The one step that writes: the pieces alternate, and what comes after a  *)
(* close frame is a pong.                                                  *)
LEMMA PieceWire ==
  ASSUME ConnTypeOK, Locks, WireInv, NEW g \in Goroutines, Writes(g), WritePiece(g)
  PROVE  WireInv'
<1> DEFINE p == << g, writing[g], at[g] >>
<1>0. PICK n \in Nat : n = Len(onWire)
  BY LenProperties DEF ConnTypeOK
<1>1. /\ at[g] \in {"header", "payload"} /\ ~writeDead /\ onWire' = Append(onWire, p)
      /\ writeDead' = writeDead
      /\ at'[g] = IF at[g] = "header" THEN "payload" ELSE "unlocking"
      /\ writeMu = g
  BY AtMoves DEF WritePiece, Locks, WriteMuHeld
<1>2. /\ \A h \in Goroutines : writing'[h] = writing[h]
      /\ \A h \in Goroutines \ {g} : at'[h] = at[h]
      /\ closeSent' = closeSent
  BY DEF Writes, Moves
<1>3. p \in Piece /\ writing[g] \in {"data", "pong", "close"}
  BY <1>1 DEF Piece, ConnTypeOK, Kinds, Locks, WritingIsBusy, Pieces
<1>4. p[1] = g /\ p[2] = writing[g] /\ p[3] = at[g]
  OBVIOUS
<1> HIDE DEF p
<1>5. /\ n \in Nat /\ Len(onWire') = n + 1
      /\ DOMAIN onWire = 1 .. n /\ DOMAIN onWire' = 1 .. n + 1
      /\ onWire'[n + 1] = p
      /\ \A i \in 1 .. n : onWire'[i] = onWire[i]
  BY <1>0, <1>1, <1>3, WireGrows
<1>6. /\ \A i \in 1 .. n : ClosePiece(i)' <=> ClosePiece(i)
      /\ ClosePiece(n + 1)' <=> writing[g] = "close"
  BY <1>4, <1>5 DEF ClosePiece
<1>7. CloseOnWire'
  BY <1>2, <1>5, <1>6 DEF WireInv, CloseOnWire, Locks
<1>8. OneClose'
  <2> SUFFICES ASSUME NEW h \in Goroutines, writing'[h] = "close",
                      NEW i \in DOMAIN onWire', ClosePiece(i)'
               PROVE  onWire'[i][1] = h /\ at'[h] \notin {"locking", "header"}
    BY DEF OneClose
  <2>1. CASE h = g
    <3>1. i \in 1 .. n => onWire'[i][1] = g
      BY <1>2, <1>5, <1>6, <2>1 DEF WireInv, OneClose
    <3> QED BY <1>1, <1>4, <1>5, <2>1, <3>1
  <2>2. CASE h # g
    <3>1. closeMu = h /\ writing[g] # "close"
      BY <1>2, <2>2 DEF Locks, CloseMuHeld
    <3>2. i \in 1 .. n
      BY <1>5, <1>6, <3>1
    <3> QED BY <1>2, <1>5, <1>6, <2>2, <3>2 DEF WireInv, OneClose
  <2> QED BY <2>1, <2>2
<1>9. InFrame(n) <=> at[g] = "payload"
  <2>1. \A h \in Goroutines : at[h] = "payload" => h = g
    BY <1>1 DEF Locks, WriteMuHeld
  <2> QED BY <1>0, <1>1, <2>1 DEF WireInv, FrameOpen, HeaderWritten
<1>10. at[g] = "payload" => onWire[n] = << g, writing[g], "header" >> /\ n \in 1 .. n
  <2>1. at[g] = "payload" => onWire[n] = << g, writing[g], "header" >>
    BY <1>0, <1>1 DEF WireInv, FrameOpen, HeaderWritten
  <2>2. InFrame(n) => n # 0
    BY DEF InFrame
  <2> QED BY <1>5, <1>9, <2>1, <2>2
<1>11. FrameOpen'
  <2>1. \A h \in Goroutines : at'[h] = "payload" => h = g /\ at[g] = "header"
    BY <1>1, <1>2 DEF Locks, WriteMuHeld
  <2>2. at[g] = "header" =>
          InFrame(n + 1) /\ onWire'[n + 1] = << g, writing'[g], "header" >>
    <3>1. at[g] = "header" => (n + 1) % 2 = 1
      BY <1>5, <1>9, Parity
    <3> QED BY <1>2, <1>5, <3>1 DEF InFrame, p
  <2>3. InFrame(n + 1) => at'[g] = "payload"
    BY <1>1, <1>5, <1>9, Parity DEF InFrame
  <2> QED BY <1>5, <2>1, <2>2, <2>3 DEF FrameOpen, HeaderWritten
<1>12. WireInOrder'
  <2>1. ASSUME NEW i \in 1 .. n + 1, i % 2 = 1 PROVE onWire'[i][3] = "header"
    <3>1. CASE i \in 1 .. n
      BY <1>0, <1>5, <2>1, <3>1 DEF WireInv, WireInOrder
    <3>2. CASE i = n + 1
      <4>1. ~InFrame(n)
        BY <1>5, <2>1, <3>2, Parity
      <4>2. p[3] = "header"
        BY <1>1, <1>4, <1>9, <4>1
      <4> QED BY <1>5, <3>2, <4>2
    <3> QED BY <1>5, <3>1, <3>2
  <2>2. ASSUME NEW i \in 1 .. n + 1, i % 2 = 0
        PROVE  onWire'[i] = << onWire'[i-1][1], onWire'[i-1][2], "payload" >>
    <3>1. i - 1 \in 1 .. n
      BY <1>5, <2>2
    <3>2. CASE i \in 1 .. n
      BY <1>0, <1>5, <2>2, <3>1, <3>2 DEF WireInv, WireInOrder
    <3>3. CASE i = n + 1
      <4>1. at[g] = "payload" /\ i - 1 = n
        BY <1>1, <1>5, <1>9, <2>2, <3>3, Parity
      <4>2. onWire'[n] = << g, writing[g], "header" >>
        BY <1>5, <1>10, <4>1
      <4>3. onWire'[i] = << g, writing[g], "payload" >>
        BY <1>5, <3>3, <4>1 DEF p
      <4>4. onWire'[i-1][1] = g /\ onWire'[i-1][2] = writing[g]
        BY <4>1, <4>2
      <4> QED BY <4>3, <4>4
    <3> QED BY <1>5, <3>2, <3>3
  <2>3. ASSUME NEW i \in 1 .. n + 1, NEW j \in 1 .. n + 1, ClosePiece(i)', i < j
        PROVE  \/ onWire'[j] = << onWire'[i][1], "close", "payload" >>
               \/ onWire'[j][2] = "pong"
    <3>1. i \in 1 .. n /\ onWire'[i] = onWire[i] /\ ClosePiece(i)
      BY <1>5, <1>6, <2>3
    <3>2. CASE j \in 1 .. n
      BY <1>0, <1>5, <2>3, <3>1, <3>2 DEF WireInv, WireInOrder, ClosePiece
    <3>3. CASE j = n + 1
      <4>1. writing[g] # "data"
        BY <1>5, <3>1 DEF WireInv, CloseOnWire, Locks, ClosedToData
      <4>2. CASE writing[g] = "pong"
        BY <1>4, <1>5, <3>3, <4>2
      <4>3. CASE writing[g] = "close"
        <5>1. onWire[i][1] = g /\ at[g] = "payload"
          BY <1>1, <1>5, <3>1, <4>3 DEF WireInv, OneClose
        <5> QED BY <1>5, <3>1, <3>3, <4>3, <5>1 DEF p
      <4> QED BY <1>3, <4>1, <4>2, <4>3
    <3> QED BY <1>5, <3>2, <3>3
  <2> QED BY <1>5, <2>1, <2>2, <2>3 DEF WireInOrder, ClosePiece
<1> QED BY <1>7, <1>8, <1>11, <1>12 DEF WireInv

LEMMA WireStep ==
  ConnTypeOK /\ Locks /\ WireInv /\ [ConnNext]_connVars => WireInv'
<1> SUFFICES ASSUME ConnTypeOK, Locks, WireInv, [ConnNext]_connVars PROVE WireInv'
  OBVIOUS
<1>1. CASE UNCHANGED connVars
  BY <1>1, SameWire DEF connVars, WireInv, CloseOnWire, OneClose, FrameOpen, HeaderWritten
<1>2. CASE Opens
  <2>1. \A g \in Goroutines : at[g] = "none" /\ at'[g] \notin Pieces
    BY <1>2 DEF Opens, Locks, NoneBeforeOpen, Pieces
  <2>2. UNCHANGED << onWire, closeSent, writing, writeDead >>
    BY <1>2 DEF Opens, lockVars
  <2>3. CloseOnWire' /\ WireInOrder'
    BY <2>2, SameWire DEF WireInv, CloseOnWire
  <2>4. OneClose'
    BY <2>1, <2>2, SameWire DEF WireInv, OneClose, Pieces
  <2>5. FrameOpen'
    BY <2>1, <2>2, SameWire DEF WireInv, FrameOpen, Pieces
  <2> QED BY <2>3, <2>4, <2>5 DEF WireInv
<1>3. ASSUME NEW g \in Goroutines, WriteStep(g) PROVE WireInv'
  BY <1>3, WriteStepMoves, LockWire, PieceWire, OutsideWire
<1> QED BY <1>1, <1>2, <1>3, StepShape, StartWire, OutsideWire

-----------------------------------------------------------------------------
(* Reading                                                                 *)
BufInv == BufIsOpenMessage /\ BufIsLatest /\ AllWhole

(* A read loop that is over stays so, and no one else reads.               *)
LEMMA OverStays ==
  ASSUME ConnTypeOK, Locks, ConnNext, at[ReadLoop] = "over"
  PROVE  at'[ReadLoop] = "over"
<1>0. ReadLoop \in Goroutines /\ ~Opens
  BY DEF Goroutines, Opens, Locks, NoneBeforeOpen
<1>1. PICK g \in Goroutines :
         Outside(g) \/ WriteStep(g) \/ \E k \in {"data", "pong", "close"} : Starts(g, k)
  BY <1>0, StepShape
<1>2. \E from \in {{"idle", "closing"}, {"idle"}, Pieces, {"unlocking"}} :
         \E to, k : Moves(g, from, to, k)
  BY <1>1, WriteStepMoves DEF Outside, Starts, Writes, Unlocks
<1>3. g # ReadLoop
  BY <1>2 DEF Moves, Pieces
<1> QED BY <1>0, <1>2, <1>3 DEF Moves

LEMMA OnlyReadsRead ==
  ASSUME ConnNext
  PROVE  \/ \E first, fin \in BOOLEAN : ReadDataFrame(first, fin)
         \/ UNCHANGED << arrived, reading, frameBuf, messages >>
BY DEF ConnNext, DialTCP, HandshakeFails, HandshakeOk, WriteMessage, WriteStep, LoopEnds,
       LockWrite, WritePiece, WriteFails, Unlock, WriteRefused, ReadPing, ReadClose, ReadFails,
       ReadError, Close, CloseSocket, readVars

LEMMA SameBuf ==
  ASSUME BufInv, UNCHANGED << arrived, reading, frameBuf, messages >>,
         at[ReadLoop] = "over" => at'[ReadLoop] = "over"
  PROVE  BufInv'
BY DEF BufInv, BufIsOpenMessage, BufIsLatest, AllWhole, Whole, Joined

LEMMA ReadBuf ==
  ASSUME ConnTypeOK, BufInv, NEW first \in BOOLEAN, NEW fin \in BOOLEAN,
         ReadDataFrame(first, fin)
  PROVE  BufInv'
<1>0. PICK n \in Nat : n = Len(arrived)
  BY LenProperties DEF ConnTypeOK
<1>1. PICK f \in DataFrame : f = [first |-> first, fin |-> fin]
  BY DEF DataFrame
<1>2. /\ arrived' = Append(arrived, f) /\ arrived \in Seq(DataFrame)
      /\ at[ReadLoop] = "idle" /\ at \in [Goroutines -> Pieces \cup {"none", "idle", "closing", "over"}]
      /\ ReadLoop \in Goroutines
  BY <1>1 DEF ReadDataFrame, CanRead, ConnTypeOK, Goroutines
<1>3. /\ DOMAIN arrived = 1 .. n /\ DOMAIN arrived' = 1 .. n + 1 /\ Len(arrived') = n + 1
      /\ arrived'[n + 1] = f /\ \A i \in 1 .. n : arrived'[i] = arrived[i]
  BY <1>0, <1>2, AppendProperties, LenProperties
<1>4. \A s, i : Joined(s, i) => Joined(s, i)' /\ arrived'[s[i]] = arrived[s[i]]
  BY <1>3 DEF Joined
<1>5. \A s : Whole(s) => Whole(s)'
  BY <1>4 DEF Whole
<1>6. PICK s \in Seq(Nat) : s = Append(frameBuf, n + 1)
  <2>1. frameBuf \in Seq(Nat) /\ n + 1 \in Nat
    BY DEF ConnTypeOK
  <2>2. Append(frameBuf, n + 1) \in Seq(Nat)
    BY <2>1, AppendProperties
  <2> QED BY <2>2
<1>7. \/ ReadError
      \/ /\ ~(first = reading) /\ reading' = ~fin /\ UNCHANGED at
         /\ frameBuf' = IF fin THEN << >> ELSE s
         /\ messages' = IF fin THEN Append(messages, s) ELSE messages
  BY Zenon, <1>0, <1>6 DEF ReadDataFrame, JoinFrame
<1>8. CASE ReadError
  <2>1. at'[ReadLoop] = "over" /\ UNCHANGED << reading, frameBuf, messages >>
    BY <1>2, <1>8 DEF ReadError
  <2>2. BufIsLatest'
    BY <2>1 DEF BufIsLatest
  <2>3. AllWhole'
    BY <1>5, <2>1 DEF BufInv, AllWhole
  <2>4. BufIsOpenMessage'
    BY <1>4, <2>1 DEF BufInv, BufIsOpenMessage
  <2> QED BY <2>2, <2>3, <2>4 DEF BufInv
<1>9. ASSUME ~(first = reading), reading' = ~fin, UNCHANGED at,
             frameBuf' = IF fin THEN << >> ELSE s,
             messages' = IF fin THEN Append(messages, s) ELSE messages
      PROVE  BufInv'
  <2>0. PICK m \in Nat : m = Len(frameBuf)
    BY LenProperties DEF ConnTypeOK
  <2>1. /\ Len(s) = m + 1 /\ DOMAIN s = 1 .. m + 1 /\ DOMAIN frameBuf = 1 .. m
        /\ s[m + 1] = n + 1 /\ \A i \in 1 .. m : s[i] = frameBuf[i]
    BY <1>0, <1>6, <2>0, AppendProperties, LenProperties DEF ConnTypeOK
  <2>2. first <=> m = 0
    <3>1. frameBuf = << >> <=> m = 0
      BY <2>0 DEF ConnTypeOK
    <3>2. first <=> ~reading
      BY Zenon, <1>9 DEF ConnTypeOK
    <3>3. reading <=> frameBuf # << >>
      BY Zenon DEF BufInv, BufIsOpenMessage
    <3> QED BY <3>1, <3>2, <3>3
  <2>3. \A i \in 1 .. m + 1 : s[i] = n - m + i
    <3>1. \A i \in 1 .. m : frameBuf[i] = (n - m) + i
      BY <1>0, <1>2, <2>0, <2>1 DEF BufInv, BufIsLatest
    <3>2. ASSUME NEW i \in 1 .. m + 1 PROVE s[i] = n - m + i
      <4>1. CASE i \in 1 .. m
        BY <2>1, <3>1, <4>1
      <4>2. CASE i = m + 1
        BY <2>1, <4>2
      <4> QED BY <4>1, <4>2
    <3> QED BY <3>2
  <2>4. \A i \in 1 .. m + 1 : Joined(s, i)' /\ (arrived'[s[i]].fin <=> i = m + 1 /\ fin)
    <3> SUFFICES ASSUME NEW i \in 1 .. m + 1
                 PROVE  Joined(s, i)' /\ (arrived'[s[i]].fin <=> i = m + 1 /\ fin)
      OBVIOUS
    <3>1. CASE i \in 1 .. m
      <4>1. Joined(frameBuf, i) /\ ~arrived[frameBuf[i]].fin /\ s[i] = frameBuf[i]
        BY <2>1, <3>1 DEF BufInv, BufIsOpenMessage
      <4>2. Joined(s, i)
        BY <4>1 DEF Joined
      <4> QED BY <1>4, <3>1, <4>1, <4>2
    <3>2. CASE i = m + 1
      <4>1. arrived'[s[i]] = f /\ s[i] \in DOMAIN arrived'
        BY <1>3, <2>1, <3>2
      <4>2. f.first = first /\ f.fin = fin
        BY <1>1
      <4> QED BY <2>2, <3>2, <4>1, <4>2 DEF Joined
    <3> QED BY <3>1, <3>2
  <2>5. CASE fin
    <3>1. frameBuf' = << >> /\ messages' = Append(messages, s)
      BY <1>9, <2>5
    <3>2. ~reading'
      BY Zenon, <1>9, <2>5
    <3>3. Whole(s)'
      BY <2>1, <2>3, <2>4, <2>5 DEF Whole
    <3>4. AllWhole'
      BY <1>5, <3>1, <3>3, AppendProperties DEF BufInv, AllWhole, ConnTypeOK
    <3>5. BufIsOpenMessage' /\ BufIsLatest'
      BY <3>1, <3>2 DEF BufIsOpenMessage, BufIsLatest
    <3> QED BY <3>4, <3>5 DEF BufInv
  <2>6. CASE ~fin
    <3>1. frameBuf' = s /\ messages' = messages
      BY <1>9, <2>6
    <3>2. reading'
      BY Zenon, <1>9, <2>6
    <3>3. AllWhole'
      BY <1>5, <3>1 DEF BufInv, AllWhole
    <3>4. BufIsOpenMessage'
      BY <2>1, <2>4, <2>6, <3>1, <3>2 DEF BufIsOpenMessage
    <3>5. BufIsLatest'
      <4>1. Len(arrived') = n + 1 /\ Len(frameBuf') = m + 1 /\ DOMAIN frameBuf' = 1 .. m + 1
        BY <1>3, <2>1, <3>1
      <4>2. \A i \in 1 .. m + 1 : frameBuf'[i] = n - m + i
        BY <2>3, <3>1
      <4>3. (n + 1) - (m + 1) = n - m
        OBVIOUS
      <4> QED BY <4>1, <4>2, <4>3 DEF BufIsLatest
    <3> QED BY <3>3, <3>4, <3>5 DEF BufInv
  <2> QED BY <2>5, <2>6
<1> QED BY Zenon, <1>7, <1>8, <1>9

LEMMA BufStep ==
  ConnTypeOK /\ Locks /\ BufInv /\ [ConnNext]_connVars => BufInv'
<1> SUFFICES ASSUME ConnTypeOK, Locks, BufInv, [ConnNext]_connVars PROVE BufInv'
  OBVIOUS
<1>1. CASE UNCHANGED connVars
  BY <1>1, SameBuf DEF connVars
<1>2. CASE ConnNext
  BY <1>2, OnlyReadsRead, OverStays, SameBuf, ReadBuf
<1> QED BY <1>1, <1>2

-----------------------------------------------------------------------------
LEMMA ConnInvInit == ConnInit => ConnTypeOK /\ Locks /\ WireInv /\ BufInv
<1> SUFFICES ASSUME ConnInit PROVE ConnTypeOK /\ Locks /\ WireInv /\ BufInv
  OBVIOUS
<1>0. /\ closeMu = NoHolder /\ writeMu = NoHolder /\ ~closeSent /\ ~reading
      /\ at = [g \in Goroutines |-> "none"] /\ writing = [g \in Goroutines |-> "none"]
      /\ onWire = << >> /\ arrived = << >> /\ frameBuf = << >> /\ messages = << >>
  BY Zenon DEF ConnInit
<1>1. Locks
  BY <1>0 DEF Locks, NoneBeforeOpen, WritingIsBusy, WriteMuHeld, CloseMuHeld, ClosedToData,
              Pieces
<1>2. WireInv
  <2>1. ~InFrame(Len(onWire))
    BY <1>0 DEF InFrame
  <2> QED BY <1>0, <2>1 DEF WireInv, CloseOnWire, OneClose, FrameOpen, WireInOrder
<1>3. BufInv
  BY <1>0 DEF BufInv, BufIsOpenMessage, BufIsLatest, AllWhole
<1> QED BY <1>1, <1>2, <1>3, ConnTypeInit

(* The inductive invariant of a connection.                                *)
THEOREM ConnInvariant == ConnSpec => [](ConnTypeOK /\ Locks /\ WireInv /\ BufInv)
BY ConnInvInit, ConnTypeStep, LocksStep, WireStep, BufStep, PTL DEF ConnSpec

(* Frames are whole on the wire, and so are the messages that are read,    *)
(* however the goroutines that share the connection interleave.            *)
THEOREM FramesIntactHolds == ConnSpec => []FramesIntact
<1>1. ConnTypeOK /\ WireInv /\ BufInv => FramesIntact
  <2> SUFFICES ASSUME ConnTypeOK, WireInv, BufInv PROVE MessagesWhole
    BY DEF FramesIntact, WireInv
  <2> SUFFICES ASSUME NEW k \in 1 .. Len(messages), NEW i \in 1 .. Len(messages[k])
               PROVE  /\ messages[k][i] = messages[k][1] + i - 1
                      /\ arrived[messages[k][i]].first = (i = 1)
                      /\ arrived[messages[k][i]].fin = (i = Len(messages[k]))
    BY DEF MessagesWhole
  <2>1. messages[k] \in Seq(Nat) /\ i \in DOMAIN messages[k] /\ 1 \in DOMAIN messages[k]
    BY DEF ConnTypeOK
  <2>2. Whole(messages[k])
    BY DEF BufInv, AllWhole, ConnTypeOK
  <2>3. messages[k][i] = messages[k][1] + i - 1
    BY <2>1, <2>2 DEF Whole
  <2>4. arrived[messages[k][i]] \in DataFrame
    BY <2>1, <2>2 DEF Whole, Joined, ConnTypeOK
  <2>5. /\ arrived[messages[k][i]].first \in BOOLEAN
        /\ arrived[messages[k][i]].fin \in BOOLEAN
    BY <2>4 DEF DataFrame
  <2>6. /\ arrived[messages[k][i]].first <=> i = 1
        /\ arrived[messages[k][i]].fin <=> i = Len(messages[k])
    BY <2>1, <2>2 DEF Whole, Joined
  <2> QED BY <2>3, <2>5, <2>6
<1> QED BY <1>1, ConnInvariant, PTL

-----------------------------------------------------------------------------
(*************************************************************************)
(* FeishuBot, for any callers and updates: no call goes out without a    *)
(* token, and the card shows the newest update that reached it.          *)
(*************************************************************************)

(* The bot: a call of a goroutine, and the card on the server.             *)
Ops == {"none", "create", "send", "put", "fallback"}
CallPos == {"idle", "token", "fetch", "wait", "http", "done", "stale", "failed"}
Call == [op : Ops, pos : CallPos, tok : Nat, ch : Nat]
Card == [seq : Nat, shows : Updates \cup {NoUpdate}, gone : BOOLEAN]

BotTypeOK ==
    /\ cached \in Nat /\ inflight \in Nat /\ inflightTok \in Nat /\ fetches \in Nat
    /\ fresh \in BOOLEAN /\ inflightErr \in BOOLEAN
    /\ call \in [Callers -> Call]
    /\ ref \in {"none", "entity", "sent", "lost"}
    /\ counter \in Nat /\ seqOf \in [Updates -> Nat] /\ card \in Card /\ losses \in Nat
    /\ ticks \in Nat /\ lastHealthy \in Nat \cup {-1} /\ stableSince \in Nat
    /\ link \in {"down", "up"} /\ front \in {"up", "exited"}

(* One caller fetches while a fetch is in flight, which is the latest one. *)
OneFetcher ==
    /\ inflight \in {0, fetches}
    /\ \A u \in Callers : call[u].pos = "fetch" => inflight # 0
    /\ \A u, v \in Callers : call[u].pos = "fetch" /\ call[v].pos = "fetch" => u = v

(* A token in time is a token, and the result of a fetch that has ended is *)
(* an error or a token.                                                    *)
ResultsAreKnown ==
    /\ fresh => cached # 0
    /\ fetches > 1 \/ (fetches = 1 /\ inflight = 0) => inflightErr \/ inflightTok # 0

(* A follower waits for a fetch that has begun.                            *)
WaitsForFetch == \A u \in Callers : call[u].pos = "wait" => call[u].ch \in 1 .. fetches

TokenInv == OneFetcher /\ ResultsAreKnown /\ WaitsForFetch /\ NoEmptyToken

(* As long as the entity lives, some update has the newest number, and a   *)
(* PUT that has ended was applied or found a newer one.                    *)
NumberedLast ==
    ~card.gone => /\ card.seq <= counter /\ \A u \in Updates : seqOf[u] <= counter
                  /\ counter = 0 \/ \E u \in Updates : seqOf[u] = counter
EndedIsSeen ==
    \A u \in Updates : /\ call[u].pos = "idle" => seqOf[u] = 0
                       /\ call[u].pos \in {"done", "stale"} => seqOf[u] <= card.seq

CardInv == NumberedLast /\ EndedIsSeen

(* What a step does to the calls: at most the one of u changes.            *)
Only(u, op, pos) ==
    /\ call' \in [Callers -> Call]
    /\ call'[u].op = op /\ call'[u].pos = pos
    /\ \A v \in Callers \ {u} : call'[v] = call[v]

LEMMA MoveOnly ==
  ASSUME call \in [Callers -> Call], NEW u \in Callers, NEW pos \in CallPos, Move(u, pos)
  PROVE  Only(u, call[u].op, pos) /\ call'[u].tok = call[u].tok /\ call'[u].ch = call[u].ch
BY DEF Move, Only, Call

LEMMA GotTokenOnly ==
  ASSUME call \in [Callers -> Call], NEW u \in Callers, NEW tok \in Nat, GotToken(u, tok)
  PROVE  Only(u, call[u].op, "http") /\ call'[u].tok = tok
<1>1. [call[u] EXCEPT !.pos = "http", !.tok = tok] \in Call
  BY DEF Call, CallPos
<1>2. call' = [call EXCEPT ![u] = [call[u] EXCEPT !.pos = "http", !.tok = tok]]
  BY DEF GotToken
<1> QED BY <1>1, <1>2 DEF Only, Call

LEMMA RequestOnly ==
  ASSUME call \in [Callers -> Call], NEW u \in Callers, NEW op \in Ops, Request(u, op)
  PROVE  Only(u, op, "token")
<1>1. [Idle EXCEPT !.op = op, !.pos = "token"] \in Call
  BY DEF Call, CallPos, Idle
<1>2. /\ [Idle EXCEPT !.op = op, !.pos = "token"].op = op
      /\ [Idle EXCEPT !.op = op, !.pos = "token"].pos = "token"
  BY DEF Idle
<1> QED BY <1>1, <1>2 DEF Only, Request

LEMMA FollowOnly ==
  ASSUME call \in [Callers -> Call], NEW u \in Callers, NEW c \in Nat,
         call' = [call EXCEPT ![u].pos = "wait", ![u].ch = c]
  PROVE  Only(u, call[u].op, "wait") /\ call'[u].ch = c
<1>1. [call[u] EXCEPT !.pos = "wait", !.ch = c] \in Call
  BY DEF Call, CallPos
<1>2. call' = [call EXCEPT ![u] = [call[u] EXCEPT !.pos = "wait", !.ch = c]]
  OBVIOUS
<1> QED BY <1>1, <1>2 DEF Only, Call

(* What a token step does.                                                 *)
TokenShape(u) ==
    /\ UNCHANGED << cardVars, healthVars >>
    /\ call[u].pos \in {"token", "fetch", "wait"}
    /\ \/ /\ cached # 0 /\ Only(u, call[u].op, "http") /\ call'[u].tok = cached
          /\ UNCHANGED tokenVars
       \/ /\ inflight # 0 /\ Only(u, call[u].op, "wait") /\ call'[u].ch = inflight
          /\ UNCHANGED tokenVars
       \/ /\ inflight = 0 /\ fetches' = fetches + 1 /\ inflight' = fetches + 1
          /\ Only(u, call[u].op, "fetch")
          /\ UNCHANGED << cached, fresh, inflightTok, inflightErr >>
       \/ /\ call[u].pos = "fetch" /\ cached' = inflight /\ inflightTok' = inflight
          /\ inflight' = 0 /\ Only(u, call[u].op, "http") /\ call'[u].tok = inflight
          /\ fresh' \in BOOLEAN /\ inflightErr' \in BOOLEAN /\ fetches' = fetches
       \/ /\ call[u].pos = "fetch" /\ inflightTok' = 0 /\ inflightErr' /\ inflightErr' \in BOOLEAN
          /\ inflight' = 0
          /\ Only(u, call[u].op, "failed") /\ UNCHANGED << cached, fresh, fetches >>
       \/ /\ call[u].pos = "wait" /\ inflight # call[u].ch /\ ~inflightErr
          /\ Only(u, call[u].op, "http") /\ call'[u].tok = inflightTok /\ UNCHANGED tokenVars
       \/ call[u].pos = "wait" /\ Only(u, call[u].op, "failed") /\ UNCHANGED tokenVars

LEMMA TokenMoves ==
  ASSUME BotTypeOK, NEW u \in Callers, TokenStep(u)
  PROVE  TokenShape(u)
<1>0. /\ call \in [Callers -> Call] /\ cached \in Nat /\ inflight \in Nat
      /\ inflightTok \in Nat /\ {"token", "fetch", "wait", "http", "failed"} \subseteq CallPos
  BY DEF BotTypeOK, CallPos
<1>1. CASE TokenCached(u)
  BY <1>0, <1>1, GotTokenOnly DEF TokenCached, TokenShape, At
<1>2. CASE TokenFollow(u)
  BY <1>0, <1>2, FollowOnly DEF TokenFollow, TokenShape, At
<1>3. CASE TokenLead(u)
  BY <1>0, <1>3, MoveOnly DEF TokenLead, TokenShape, At
<1>4. CASE FetchOk(u)
  <2>1. Only(u, call[u].op, "http") /\ call'[u].tok = inflight
    BY <1>0, <1>4, GotTokenOnly DEF FetchOk
  <2>2. fresh' \in BOOLEAN /\ inflightErr' \in BOOLEAN
    BY Zenon, <1>4 DEF FetchOk
  <2> QED BY <1>4, <2>1, <2>2 DEF FetchOk, TokenShape, At
<1>5. CASE FetchFails(u)
  <2>1. Only(u, call[u].op, "failed")
    BY <1>0, <1>5, MoveOnly DEF FetchFails, GaveUp
  <2>2. inflightErr' /\ inflightErr' \in BOOLEAN
    BY Zenon, <1>5 DEF FetchFails
  <2> QED BY <1>5, <2>1, <2>2 DEF FetchFails, TokenShape, At
<1>6. CASE FollowerWakes(u)
  <2>1. IF inflightErr THEN GaveUp(u) ELSE GotToken(u, inflightTok)
    BY <1>6 DEF FollowerWakes
  <2>2. CASE inflightErr
    <3>1. Only(u, call[u].op, "failed")
      BY <1>0, <2>1, <2>2, MoveOnly DEF GaveUp
    <3> QED BY <1>6, <3>1 DEF FollowerWakes, TokenShape, At
  <2>3. CASE ~inflightErr
    <3>1. Only(u, call[u].op, "http") /\ call'[u].tok = inflightTok
      BY <1>0, <2>1, <2>3, GotTokenOnly
    <3> QED BY <1>6, <2>3, <3>1 DEF FollowerWakes, TokenShape, At
  <2> QED BY <2>2, <2>3
<1>7. CASE FollowerGivesUp(u)
  <2>1. Only(u, call[u].op, "failed")
    BY <1>0, <1>7, MoveOnly DEF FollowerGivesUp, GaveUp
  <2> QED BY <1>7, <2>1 DEF FollowerGivesUp, TokenShape, At
<1> QED BY <1>1, <1>2, <1>3, <1>4, <1>5, <1>6, <1>7 DEF TokenStep

(* What a card step does: a caller moves on, and the counter, the numbers  *)
(* and the card change as the server or the caller says.                   *)
Numbers(u) ==
    /\ u \in Updates /\ counter' = counter + 1
    /\ seqOf' = [seqOf EXCEPT ![u] = counter + 1] /\ UNCHANGED card
Applied(u) ==
    /\ u \in Updates /\ seqOf[u] > card.seq /\ ~card.gone
    /\ card' \in Card /\ card'.seq = seqOf[u] /\ card'.gone = card.gone
    /\ UNCHANGED << counter, seqOf >>
CardShape(u) ==
    /\ UNCHANGED << tokenVars, ticks, link, stableSince, front >>
    /\ lastHealthy' \in {lastHealthy, ticks} /\ losses' \in {losses, losses + 1}
    /\ ref' \in {"none", "entity", "sent", "lost"}
    /\ call[u].pos \in {"idle", "http"}
    /\ \/ \E op \in Ops, pos \in {"token", "failed"} :
             Only(u, op, pos) /\ UNCHANGED << counter, seqOf, card >>
       \/ u = Sender /\ Only(u, call[u].op, "done") /\ UNCHANGED << counter, seqOf, card >>
       \/ \E op \in {"put", "fallback"} : Only(u, op, "token") /\ Numbers(u)
       \/ \E pos \in {"done", "failed"} : Only(u, call[u].op, pos) /\ Applied(u)
       \/ /\ u \in Updates /\ seqOf[u] <= card.seq
          /\ Only(u, call[u].op, "stale") /\ UNCHANGED << counter, seqOf, card >>
       \/ card.gone /\ counter' = 0 /\ Only(u, call[u].op, "failed") /\ UNCHANGED << seqOf, card >>

LEMMA AppliedCard ==
  ASSUME BotTypeOK, NEW u \in Updates, InOrder(u), UNCHANGED << counter, seqOf >>,
         card' = [card EXCEPT !.seq = seqOf[u], !.shows = u]
  PROVE  Applied(u)
<1>1. card \in Card /\ seqOf[u] \in Nat
  BY DEF BotTypeOK
<1> QED BY <1>1 DEF Card, InOrder, Applied

LEMMA CardMoves ==
  ASSUME BotTypeOK,
         SendCard \/ CreateCardEntity \/ SendReference
           \/ (\E u \in Updates : BeginUpdate(u) \/ PutOk(u) \/ PutOutOfOrder(u)
                                     \/ PutRejected(u) \/ PutGone(u))
           \/ (\E u \in Callers : RequestFails(u))
  PROVE  \E u \in Callers : CardShape(u)
<1>0. /\ call \in [Callers -> Call] /\ Sender \in Callers /\ Updates \subseteq Callers
      /\ {"create", "send", "put", "fallback"} \subseteq Ops
      /\ {"token", "done", "stale", "failed"} \subseteq CallPos
      /\ ref \in {"none", "entity", "sent", "lost"}
      /\ \A u \in Callers : call[u].op \in Ops
  BY DEF BotTypeOK, Callers, Ops, CallPos, Call
<1>1. CASE SendCard
  <2>1. Only(Sender, "create", "token")
    BY <1>0, <1>1, RequestOnly DEF SendCard
  <2>2. CardShape(Sender)
    BY <1>0, <1>1, <2>1 DEF SendCard, CardShape, At, cardVars, healthVars
  <2> QED BY <1>0, <2>2
<1>2. CASE CreateCardEntity
  <2>1. Only(Sender, "send", "token")
    BY <1>0, <1>2, RequestOnly DEF CreateCardEntity
  <2>2. CardShape(Sender)
    BY <1>0, <1>2, <2>1 DEF CreateCardEntity, CardShape, At, healthVars
  <2> QED BY <1>0, <2>2
<1>3. CASE SendReference
  <2>1. Only(Sender, call[Sender].op, "done")
    BY <1>0, <1>3, MoveOnly DEF SendReference
  <2>2. CardShape(Sender)
    BY <1>0, <1>3, <2>1 DEF SendReference, CardShape, At, MarkHealthy
  <2> QED BY <1>0, <2>2
<1>4. ASSUME NEW u \in Updates, BeginUpdate(u) PROVE CardShape(u)
  <2>1. Only(u, "put", "token")
    BY <1>0, <1>4, RequestOnly DEF BeginUpdate, AllocateSeq
  <2>2. Numbers(u)
    BY <1>4 DEF BeginUpdate, AllocateSeq, Numbers
  <2> QED BY <1>0, <1>4, <2>1, <2>2 DEF BeginUpdate, CardShape, At, healthVars
<1>5. ASSUME NEW u \in Updates, PutOk(u) PROVE CardShape(u)
  <2>1. Only(u, call[u].op, "done")
    BY <1>0, <1>5, MoveOnly DEF PutOk
  <2>2. Applied(u)
    BY <1>5, AppliedCard DEF PutOk
  <2> QED BY <1>0, <1>5, <2>1, <2>2 DEF PutOk, CardShape, At, MarkHealthy
<1>6. ASSUME NEW u \in Updates, PutOutOfOrder(u) PROVE CardShape(u)
  <2>1. Only(u, call[u].op, "stale")
    BY <1>0, <1>6, MoveOnly DEF PutOutOfOrder
  <2> QED BY <1>0, <1>6, <2>1 DEF PutOutOfOrder, CardShape, At, cardVars, healthVars
<1>7. ASSUME NEW u \in Updates, PutRejected(u) PROVE CardShape(u)
  <2>1. Only(u, "fallback", "token")
    BY <1>0, <1>7, RequestOnly DEF PutRejected, AllocateSeq
  <2>2. Numbers(u)
    BY <1>7 DEF PutRejected, AllocateSeq, Numbers
  <2> QED BY <1>0, <1>7, <2>1, <2>2 DEF PutRejected, CardShape, At, healthVars
<1>8. ASSUME NEW u \in Updates, PutGone(u) PROVE CardShape(u)
  <2>1. Only(u, call[u].op, "failed")
    BY <1>0, <1>8, MoveOnly DEF PutGone
  <2> QED BY <1>0, <1>8, <2>1 DEF PutGone, CardShape, At, healthVars
<1>9. ASSUME NEW u \in Callers, RequestFails(u) PROVE CardShape(u)
  <2>1. Only(u, call[u].op, "failed")
    BY <1>0, <1>9, MoveOnly DEF RequestFails
  <2>2. card' = card \/ (u \in Updates /\ InOrder(u)
                         /\ card' = [card EXCEPT !.seq = seqOf[u], !.shows = u])
    BY <1>9 DEF RequestFails
  <2>3. /\ UNCHANGED << tokenVars, counter, seqOf, healthVars >> /\ losses' = losses + 1
        /\ call[u].pos = "http" /\ ref' \in {"none", "entity", "sent", "lost"}
    BY <1>0, <1>9 DEF RequestFails, At
  <2>4. card' = card \/ Applied(u)
    BY <2>2, <2>3, AppliedCard
  <2> QED BY <1>0, <2>1, <2>3, <2>4 DEF CardShape, healthVars
<1> QED BY <1>0, <1>1, <1>2, <1>3, <1>4, <1>5, <1>6, <1>7, <1>8, <1>9

LEMMA BotTypeInit == BotInit => BotTypeOK
<1> SUFFICES ASSUME BotInit PROVE BotTypeOK
  OBVIOUS
<1>1. call \in [Callers -> Call]
  BY DEF BotInit, Idle, Call, Ops, CallPos
<1>2. fresh \in BOOLEAN /\ inflightErr \in BOOLEAN
  BY Zenon DEF BotInit
<1>3. card \in Card
  BY DEF BotInit, Card
<1> QED BY <1>1, <1>2, <1>3 DEF BotInit, BotTypeOK

LEMMA BotTypeStep == BotTypeOK /\ [BotNext]_botVars => BotTypeOK'
<1> SUFFICES ASSUME BotTypeOK, [BotNext]_botVars PROVE BotTypeOK'
  OBVIOUS
<1>1. CASE UNCHANGED botVars
  BY <1>1 DEF BotTypeOK, botVars, tokenVars, cardVars, healthVars
<1>2. ASSUME NEW u \in Callers, TokenStep(u) PROVE BotTypeOK'
  BY <1>2, TokenMoves
     DEF TokenShape, Only, BotTypeOK, tokenVars, cardVars, healthVars
<1>3. ASSUME NEW u \in Callers, CardShape(u) PROVE BotTypeOK'
  <2>1. call' \in [Callers -> Call]
    BY <1>3 DEF CardShape, Only
  <2>2. counter' \in Nat /\ seqOf' \in [Updates -> Nat]
    BY <1>3 DEF CardShape, Numbers, Applied, BotTypeOK
  <2>3. card' \in Card
    BY <1>3 DEF CardShape, Numbers, Applied, BotTypeOK
  <2> QED BY <1>3, <2>1, <2>2, <2>3 DEF CardShape, BotTypeOK, tokenVars
<1>4. CASE CardExpires
  BY <1>4 DEF CardExpires, BotTypeOK, Card, tokenVars, healthVars
<1>5. CASE TokenExpires
  <2>1. fresh' \in BOOLEAN
    BY Zenon, <1>5 DEF TokenExpires
  <2> QED BY <1>5, <2>1 DEF TokenExpires, BotTypeOK, cardVars, healthVars
<1>6. CASE SessionUp \/ SessionDown \/ InboundEvent \/ ClockTick \/ Watchdog
  BY <1>6 DEF SessionUp, SessionDown, InboundEvent, ClockTick, Watchdog, MarkHealthy,
              BotTypeOK, tokenVars, cardVars
<1> QED BY <1>1, <1>2, <1>3, <1>4, <1>5, <1>6, CardMoves DEF BotNext, CardStep

(* A step of another caller, or of this one to where no token is used.     *)
LEMMA TokenKept ==
  ASSUME TokenInv, NEW u \in Callers, NEW op, NEW pos \in {"token", "done", "stale", "failed"},
         Only(u, op, pos), UNCHANGED tokenVars
  PROVE  TokenInv'
BY DEF TokenInv, OneFetcher, ResultsAreKnown, WaitsForFetch, NoEmptyToken, Only, tokenVars

LEMMA TokenSame == TokenInv /\ UNCHANGED << tokenVars, call >> => TokenInv'
BY DEF TokenInv, OneFetcher, ResultsAreKnown, WaitsForFetch, NoEmptyToken, tokenVars

(* Each way a request comes by its token, or does not.                     *)
LEMMA TokenInvStep ==
  ASSUME BotTypeOK, TokenInv, NEW u \in Callers, TokenShape(u)
  PROVE  TokenInv'
<1>0. /\ cached \in Nat /\ inflight \in Nat /\ inflightTok \in Nat /\ fetches \in Nat
      /\ \A v \in Callers : call[v].ch \in Nat
  BY DEF BotTypeOK, Call
<1>1. CASE /\ cached # 0 /\ Only(u, call[u].op, "http") /\ call'[u].tok = cached
           /\ UNCHANGED tokenVars
  BY <1>1 DEF TokenInv, OneFetcher, ResultsAreKnown, WaitsForFetch, NoEmptyToken, Only,
              tokenVars
<1>2. CASE /\ inflight # 0 /\ Only(u, call[u].op, "wait") /\ call'[u].ch = inflight
           /\ UNCHANGED tokenVars
  BY <1>0, <1>2 DEF TokenInv, OneFetcher, ResultsAreKnown, WaitsForFetch, NoEmptyToken, Only,
                    tokenVars
<1>3. CASE /\ inflight = 0 /\ fetches' = fetches + 1 /\ inflight' = fetches + 1
           /\ Only(u, call[u].op, "fetch")
           /\ UNCHANGED << cached, fresh, inflightTok, inflightErr >>
  <2>1. \A v \in Callers : call[v].pos # "fetch"
    BY <1>3 DEF TokenInv, OneFetcher
  <2>2. OneFetcher'
    BY <1>0, <1>3, <2>1 DEF OneFetcher, Only
  <2>3. ResultsAreKnown'
    BY <1>0, <1>3 DEF TokenInv, ResultsAreKnown
  <2>4. WaitsForFetch' /\ NoEmptyToken'
    BY <1>0, <1>3 DEF TokenInv, WaitsForFetch, NoEmptyToken, Only
  <2> QED BY <2>2, <2>3, <2>4 DEF TokenInv
<1>4. CASE /\ call[u].pos = "fetch" /\ cached' = inflight /\ inflightTok' = inflight
           /\ inflight' = 0 /\ Only(u, call[u].op, "http") /\ call'[u].tok = inflight
           /\ fetches' = fetches
  <2>1. inflight # 0 /\ \A v \in Callers \ {u} : call[v].pos # "fetch"
    BY <1>4 DEF TokenInv, OneFetcher
  <2>2. OneFetcher'
    BY <1>4, <2>1 DEF OneFetcher, Only
  <2>3. ResultsAreKnown'
    BY <1>4, <2>1 DEF ResultsAreKnown
  <2>4. WaitsForFetch' /\ NoEmptyToken'
    BY <1>4, <2>1 DEF TokenInv, WaitsForFetch, NoEmptyToken, Only
  <2> QED BY <2>2, <2>3, <2>4 DEF TokenInv
<1>5. CASE /\ call[u].pos = "fetch" /\ inflightErr' /\ inflight' = 0
           /\ Only(u, call[u].op, "failed") /\ UNCHANGED << cached, fresh, fetches >>
  <2>1. \A v \in Callers \ {u} : call[v].pos # "fetch"
    BY <1>5 DEF TokenInv, OneFetcher
  <2>2. OneFetcher'
    BY <1>5, <2>1 DEF OneFetcher, Only
  <2>3. ResultsAreKnown'
    BY <1>5 DEF TokenInv, ResultsAreKnown
  <2>4. WaitsForFetch' /\ NoEmptyToken'
    BY <1>5 DEF TokenInv, WaitsForFetch, NoEmptyToken, Only
  <2> QED BY <2>2, <2>3, <2>4 DEF TokenInv
<1>6. CASE /\ call[u].pos = "wait" /\ inflight # call[u].ch /\ ~inflightErr
           /\ Only(u, call[u].op, "http") /\ call'[u].tok = inflightTok /\ UNCHANGED tokenVars
  <2>1. call[u].ch \in 1 .. fetches /\ inflight \in {0, fetches}
    BY <1>6 DEF TokenInv, WaitsForFetch, OneFetcher
  <2>2. fetches > 1 \/ (fetches = 1 /\ inflight = 0)
    BY <1>0, <1>6, <2>1
  <2>3. inflightTok # 0
    BY <1>6, <2>2 DEF TokenInv, ResultsAreKnown
  <2> QED
    BY <1>6, <2>3 DEF TokenInv, OneFetcher, ResultsAreKnown, WaitsForFetch, NoEmptyToken,
                      Only, tokenVars
<1>7. CASE call[u].pos = "wait" /\ Only(u, call[u].op, "failed") /\ UNCHANGED tokenVars
  BY <1>7, TokenKept
<1> QED BY <1>1, <1>2, <1>3, <1>4, <1>5, <1>6, <1>7 DEF TokenShape

(* The numbers and the card.                                               *)
LEMMA CardKept ==
  ASSUME CardInv, NEW u \in Callers, NEW op, NEW pos \in CallPos \ {"idle"},
         Only(u, op, pos), UNCHANGED << counter, seqOf, card >>,
         u \in Updates /\ pos \in {"done", "stale"} => seqOf[u] <= card.seq
  PROVE  CardInv'
BY DEF CardInv, NumberedLast, EndedIsSeen, Only, Callers

LEMMA CardSame ==
  CardInv /\ UNCHANGED << call, counter, seqOf >> /\ card'.seq = card.seq
          /\ (card'.gone \/ card'.gone = card.gone) => CardInv'
BY DEF CardInv, NumberedLast, EndedIsSeen

LEMMA CardInvStep ==
  ASSUME BotTypeOK, CardInv, NEW u \in Callers, CardShape(u)
  PROVE  CardInv'
<1>0. /\ counter \in Nat /\ seqOf \in [Updates -> Nat] /\ card \in Card
      /\ Sender \notin Updates /\ {"token", "done", "stale", "failed"} \subseteq CallPos \ {"idle"}
  BY BotAssumption DEF BotTypeOK, CallPos
<1>1. ASSUME NEW op \in Ops, NEW pos \in {"token", "failed"}, Only(u, op, pos),
             UNCHANGED << counter, seqOf, card >>
      PROVE  CardInv'
  BY <1>0, <1>1, CardKept
<1>2. CASE u = Sender /\ Only(u, call[u].op, "done") /\ UNCHANGED << counter, seqOf, card >>
  BY <1>0, <1>2, CardKept
<1>3. ASSUME NEW op \in {"put", "fallback"}, Only(u, op, "token"), Numbers(u) PROVE CardInv'
  <2>1. /\ counter' = counter + 1 /\ card' = card /\ u \in Updates /\ seqOf'[u] = counter + 1
        /\ \A v \in Updates \ {u} : seqOf'[v] = seqOf[v]
    BY <1>0, <1>3 DEF Numbers
  <2>2. card.seq \in Nat
    BY <1>0 DEF Card
  <2>3. NumberedLast'
    BY <1>0, <2>1, <2>2 DEF CardInv, NumberedLast
  <2>4. EndedIsSeen'
    BY <1>3, <2>1 DEF CardInv, EndedIsSeen, Only, Callers
  <2> QED BY <2>3, <2>4 DEF CardInv
<1>4. ASSUME NEW pos \in {"done", "failed"}, Only(u, call[u].op, pos), Applied(u) PROVE CardInv'
  <2>1. /\ u \in Updates /\ seqOf[u] > card.seq /\ card'.seq = seqOf[u]
        /\ card'.gone = card.gone /\ UNCHANGED << counter, seqOf >> /\ ~card.gone
    BY <1>4 DEF Applied
  <2>2. card.seq \in Nat /\ \A v \in Updates : seqOf[v] \in Nat
    BY <1>0 DEF Card
  <2>3. NumberedLast'
    BY <1>0, <2>1 DEF CardInv, NumberedLast
  <2>4. EndedIsSeen'
    <3> SUFFICES ASSUME NEW v \in Updates
                 PROVE  /\ call'[v].pos = "idle" => seqOf'[v] = 0
                        /\ call'[v].pos \in {"done", "stale"} => seqOf'[v] <= card'.seq
      BY DEF EndedIsSeen
    <3>1. CASE v = u
      BY <1>4, <2>1, <2>2, <3>1 DEF Only
    <3>2. CASE v # u
      <4>1. call'[v] = call[v]
        BY <1>4, <3>2 DEF Only, Callers
      <4> QED BY <2>1, <2>2, <4>1 DEF CardInv, EndedIsSeen
    <3> QED BY <3>1, <3>2
  <2> QED BY <2>3, <2>4 DEF CardInv
<1>5. CASE /\ u \in Updates /\ seqOf[u] <= card.seq
           /\ Only(u, call[u].op, "stale") /\ UNCHANGED << counter, seqOf, card >>
  BY <1>0, <1>5, CardKept
<1>6. CASE card.gone /\ Only(u, call[u].op, "failed") /\ UNCHANGED << seqOf, card >>
  BY <1>6 DEF CardInv, NumberedLast, EndedIsSeen, Only, Callers
<1> QED BY <1>1, <1>2, <1>3, <1>4, <1>5, <1>6 DEF CardShape

LEMMA CardShapeToken ==
  ASSUME TokenInv, NEW u \in Callers, CardShape(u)
  PROVE  TokenInv'
BY TokenKept DEF CardShape

LEMMA TokenShapeCard ==
  ASSUME CardInv, NEW u \in Callers, TokenShape(u)
  PROVE  CardInv'
<1>1. PICK pos \in {"http", "wait", "fetch", "failed"} : Only(u, call[u].op, pos)
  BY DEF TokenShape
<1>2. UNCHANGED << counter, seqOf, card >> /\ pos \in CallPos \ {"idle"}
  BY DEF TokenShape, cardVars, CallPos
<1> QED BY <1>1, <1>2, CardKept

-----------------------------------------------------------------------------
BotInv == BotTypeOK /\ TokenInv /\ CardInv

LEMMA BotInvInit == BotInit => BotInv
<1> SUFFICES ASSUME BotInit PROVE BotInv
  OBVIOUS
<1>1. /\ \A u \in Callers : call[u].pos = "idle"
      /\ ~fresh /\ fetches = 0 /\ inflight = 0
  BY DEF BotInit, Idle
<1>2. TokenInv
  BY <1>1 DEF TokenInv, OneFetcher, ResultsAreKnown, WaitsForFetch, NoEmptyToken
<1>3. counter = 0 /\ card.seq = 0 /\ \A u \in Updates : seqOf[u] = 0
  BY DEF BotInit
<1>4. CardInv
  BY <1>1, <1>3 DEF CardInv, NumberedLast, EndedIsSeen, Callers
<1> QED BY <1>2, <1>4, BotTypeInit DEF BotInv

LEMMA BotInvStep == BotInv /\ [BotNext]_botVars => BotInv'
<1> SUFFICES ASSUME BotInv, [BotNext]_botVars PROVE TokenInv' /\ CardInv'
  BY BotTypeStep DEF BotInv
<1>0. BotTypeOK /\ TokenInv /\ CardInv
  BY DEF BotInv
<1>1. CASE UNCHANGED botVars
  BY <1>0, <1>1, TokenSame, CardSame DEF botVars, cardVars
<1>2. ASSUME NEW u \in Callers, TokenStep(u) PROVE TokenInv' /\ CardInv'
  BY <1>0, <1>2, TokenMoves, TokenInvStep, TokenShapeCard
<1>3. ASSUME NEW u \in Callers, CardShape(u) PROVE TokenInv' /\ CardInv'
  BY <1>0, <1>3, CardInvStep, CardShapeToken
<1>4. CASE CardExpires
  <2>1. card'.seq = card.seq /\ card'.gone
    BY <1>0, <1>4 DEF CardExpires, BotTypeOK, Card
  <2> QED BY <1>0, <1>4, <2>1, TokenSame, CardSame DEF CardExpires
<1>5. CASE TokenExpires
  <2>1. TokenInv'
    BY <1>0, <1>5 DEF TokenExpires, TokenInv, OneFetcher, ResultsAreKnown, WaitsForFetch,
                      NoEmptyToken
  <2> QED BY <1>0, <1>5, <2>1, CardSame DEF TokenExpires, cardVars
<1>6. CASE SessionUp \/ SessionDown \/ InboundEvent \/ ClockTick \/ Watchdog
  <2>1. UNCHANGED << tokenVars, cardVars, call >>
    BY <1>6 DEF SessionUp, SessionDown, InboundEvent, ClockTick, Watchdog
  <2> QED BY <1>0, <2>1, TokenSame, CardSame DEF cardVars
<1> QED BY <1>0, <1>1, <1>2, <1>3, <1>4, <1>5, <1>6, CardMoves DEF BotNext, CardStep

(* The inductive invariant of the bot.                                     *)
THEOREM BotInvariant == BotSpec => []BotInv
BY BotInvInit, BotInvStep, PTL DEF BotSpec

(* No request goes out with the empty token, whoever fetched it.           *)
THEOREM NoEmptyTokenHolds == BotSpec => []NoEmptyToken
<1>1. BotInv => NoEmptyToken
  BY DEF BotInv, TokenInv
<1> QED BY <1>1, BotInvariant, PTL

(* When every update has ended and none was lost, the card shows the one   *)
(* that was numbered last.                                                 *)
THEOREM NewestShownHolds == BotSpec => []NewestShown
<1>1. BotInv => NewestShown
  <2> SUFFICES ASSUME BotInv, ~card.gone,
                      \A u \in Updates : call[u].pos \in {"idle", "done", "stale"}
               PROVE  card.seq = counter
    BY DEF NewestShown
  <2>1. /\ card.seq \in Nat /\ counter \in Nat /\ \A u \in Updates : seqOf[u] \in Nat
        /\ card.seq <= counter
    BY DEF BotInv, BotTypeOK, Card, CardInv, NumberedLast
  <2>2. \A u \in Updates : seqOf[u] <= card.seq
    BY <2>1 DEF BotInv, CardInv, EndedIsSeen
  <2>3. counter = 0 \/ \E u \in Updates : seqOf[u] = counter
    BY DEF BotInv, CardInv, NumberedLast
  <2> QED BY <2>1, <2>2, <2>3
<1> QED BY <1>1, BotInvariant, PTL

=============================================================================
