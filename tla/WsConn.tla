------------------------------- MODULE WsConn -------------------------------
(***************************************************************************)
(* One WebSocket connection to the Lark gateway.                           *)
(*   internal/lark/websocket/dial.go   the upgrade handshake               *)
(*   internal/lark/websocket/conn.go   reading and writing of frames       *)
(*                                                                         *)
(* Three goroutines of a session share it: the read loop, which writes     *)
(* acknowledgements, pongs and the echo of a close frame, the ping loop,   *)
(* and the session itself, which closes it.  A frame is two writes on the  *)
(* wire, header and payload, under writeMu; a data or close frame also     *)
(* holds closeMu.  A write that timed out leaves the TLS connection        *)
(* without further writes.                                                 *)
(***************************************************************************)
EXTENDS Naturals, Sequences

CONSTANTS
    ReadLoop, PingLoop, Session,   \* the goroutines
    NoHolder,                      \* an unlocked mutex
    MaxFrames,                     \* bound: frames the gateway sends
    MaxWrites,                     \* bound: data messages the two loops write
    MaxFragments                   \* stands for maxMessageSize: frames of a message

Goroutines == {ReadLoop, PingLoop, Session}

ASSUME ConnAssumption ==
    /\ NoHolder \notin Goroutines
    /\ MaxFrames \in Nat /\ MaxWrites \in Nat /\ MaxFragments \in Nat \ {0}

VARIABLES
    nc,          \* the TCP connection: "none", "handshake", "open", "closed"
    closeMu, writeMu,
    closeSent,
    at,          \* goroutine -> where it is
    writing,     \* goroutine -> the kind of the frame it writes
    onWire,      \* history: the pieces written
    writeDead,   \* a write has failed
    written,     \* data messages written so far
    arrived,     \* history: the data frames read, each [first, fin]
    reading,     \* messageOpcode is set
    frameBuf,    \* the positions in arrived of the frames joined so far
    messages,    \* history: the messages ReadMessage has returned
    frameCount   \* frames read

connVars == << nc, closeMu, writeMu, closeSent, at, writing, onWire, writeDead,
               written, arrived, reading, frameBuf, messages, frameCount >>
lockVars == << closeMu, writeMu, closeSent >>
readVars == << arrived, reading, frameBuf, messages, frameCount >>

ConnInit ==
    /\ nc = "none" /\ closeMu = NoHolder /\ writeMu = NoHolder /\ closeSent = FALSE
    /\ at = [g \in Goroutines |-> "none"]
    /\ writing = [g \in Goroutines |-> "none"]
    /\ onWire = << >> /\ writeDead = FALSE /\ written = 0
    /\ arrived = << >> /\ reading = FALSE /\ frameBuf = << >> /\ messages = << >>
    /\ frameCount = 0

-----------------------------------------------------------------------------
(* Dial *)

DialTCP ==
    /\ nc = "none"
    /\ nc' = "handshake"
    /\ UNCHANGED << lockVars, readVars, at, writing, onWire, writeDead, written >>

\* Any step of the handshake fails: the partial connection is closed.
HandshakeFails ==
    /\ nc = "handshake"
    /\ nc' = "closed"
    /\ UNCHANGED << lockVars, readVars, at, writing, onWire, writeDead, written >>

\* Status, Upgrade and Sec-WebSocket-Accept are right: the session starts.
HandshakeOk ==
    /\ nc = "handshake"
    /\ nc' = "open"
    /\ at' = [g \in Goroutines |-> "idle"]
    /\ UNCHANGED << lockVars, readVars, writing, onWire, writeDead, written >>

-----------------------------------------------------------------------------
(* Writing *)

\* Fault: the check alone is under closeMu, and the write comes after it.
WriteMessageUnlocks(g) ==
    /\ at[g] = "idle" /\ g # Session /\ written < MaxWrites
    /\ closeMu = NoHolder /\ ~closeSent
    /\ at' = [at EXCEPT ![g] = "locking"]
    /\ writing' = [writing EXCEPT ![g] = "data"]
    /\ written' = written + 1
    /\ UNCHANGED << nc, lockVars, readVars, onWire, writeDead >>

\* WriteMessage, for an acknowledgement or a ping: closeMu is held from the
\* look at closeSent to the end of the write.
WriteMessage(g) ==
    /\ at[g] = "idle" /\ g # Session /\ written < MaxWrites
    /\ closeMu = NoHolder /\ ~closeSent
    /\ closeMu' = g
    /\ at' = [at EXCEPT ![g] = "locking"]
    /\ writing' = [writing EXCEPT ![g] = "data"]
    /\ written' = written + 1
    /\ UNCHANGED << nc, writeMu, closeSent, readVars, onWire, writeDead >>

\* ErrCloseSent ends the ping loop; the read loop only reports it.
WriteRefused ==
    /\ at[PingLoop] = "idle" /\ closeMu = NoHolder /\ closeSent
    /\ at' = [at EXCEPT ![PingLoop] = "over"]
    /\ UNCHANGED << nc, lockVars, readVars, writing, onWire, writeDead, written >>

\* The close frame, sent by whoever finds closeSent unset.
CloseFrame(g, refused) ==
    /\ closeMu = NoHolder
    /\ IF closeSent
       THEN at' = [at EXCEPT ![g] = refused] /\ UNCHANGED << closeMu, closeSent, writing >>
       ELSE /\ closeMu' = g /\ closeSent' = TRUE
            /\ at' = [at EXCEPT ![g] = "locking"]
            /\ writing' = [writing EXCEPT ![g] = "close"]

\* writeDataLocked and writeControl
LockWrite(g) ==
    /\ at[g] = "locking" /\ writeMu = NoHolder
    /\ writeMu' = g
    /\ at' = [at EXCEPT ![g] = "header"]
    /\ UNCHANGED << nc, closeMu, closeSent, readVars, writing, onWire, writeDead, written >>

\* One call of nc.Write succeeds (every frame here has a payload).
WritePiece(g) ==
    /\ at[g] \in {"header", "payload"} /\ nc = "open" /\ ~writeDead
    /\ onWire' = Append(onWire, << g, writing[g], at[g] >>)
    /\ at' = [at EXCEPT ![g] = IF @ = "header" THEN "payload" ELSE "unlocking"]
    /\ UNCHANGED << nc, lockVars, readVars, writing, writeDead, written >>

\* It fails, at the latest after writeTimeout or when the connection is closed.
WriteFails(g) ==
    /\ at[g] \in {"header", "payload"}
    /\ writeDead' = TRUE
    /\ at' = [at EXCEPT ![g] = "unlocking"]
    /\ UNCHANGED << nc, lockVars, readVars, writing, onWire, written >>

\* The mutexes are released.  A failed ping ends its loop, a failed pong and
\* the echo of a close frame end the read loop.
Unlock(g) ==
    /\ at[g] = "unlocking"
    /\ writeMu' = NoHolder
    /\ closeMu' = IF closeMu = g THEN NoHolder ELSE closeMu
    /\ at' = [at EXCEPT ![g] =
           IF g = Session THEN "closing"
           ELSE IF writing[g] = "close" \/ (writeDead /\ (g = PingLoop \/ writing[g] = "pong"))
           THEN "over" ELSE "idle"]
    /\ writing' = [writing EXCEPT ![g] = "none"]
    /\ UNCHANGED << nc, closeSent, readVars, onWire, writeDead, written >>

WriteStep(g) == LockWrite(g) \/ WritePiece(g) \/ WriteFails(g) \/ Unlock(g)

-----------------------------------------------------------------------------
(* ReadMessage, which only the read loop calls *)

CanRead == at[ReadLoop] = "idle" /\ nc = "open" /\ frameCount < MaxFrames

\* The error ends the read loop.
ReadError == /\ at' = [at EXCEPT ![ReadLoop] = "over"]
             /\ UNCHANGED << reading, frameBuf, messages >>

\* A continuation needs a message to continue, a first frame needs none, and
\* the joined message has a cap.
JoinFrame(first, fin) ==
    LET joined == Append(frameBuf, Len(arrived) + 1)
    IN  IF first = reading \/ Len(joined) > MaxFragments
        THEN ReadError
        ELSE /\ reading' = ~fin
             /\ frameBuf' = IF fin THEN << >> ELSE joined
             /\ messages' = IF fin THEN Append(messages, joined) ELSE messages
             /\ UNCHANGED at

ReadDataFrame(first, fin) ==
    /\ CanRead
    /\ JoinFrame(first, fin)
    /\ arrived' = Append(arrived, [first |-> first, fin |-> fin])
    /\ frameCount' = frameCount + 1
    /\ UNCHANGED << nc, lockVars, writing, onWire, writeDead, written >>

\* handleControl in the middle of a message or between two: a pong answers a
\* ping, a pong is dropped.
ReadPing ==
    /\ CanRead
    /\ at' = [at EXCEPT ![ReadLoop] = "locking"]
    /\ writing' = [writing EXCEPT ![ReadLoop] = "pong"]
    /\ frameCount' = frameCount + 1
    /\ UNCHANGED << nc, lockVars, arrived, reading, frameBuf, messages, onWire, writeDead, written >>

ReadClose ==
    /\ CanRead
    /\ CloseFrame(ReadLoop, "over")
    /\ frameCount' = frameCount + 1
    /\ UNCHANGED << nc, writeMu, arrived, reading, frameBuf, messages, onWire, writeDead, written >>

\* A malformed frame (reserved bits, too large, a control frame that is
\* fragmented), the read deadline, or the end of the connection.
ReadFails ==
    /\ at[ReadLoop] = "idle"
    /\ ReadError
    /\ UNCHANGED << nc, lockVars, arrived, frameCount, writing, onWire, writeDead, written >>

-----------------------------------------------------------------------------
(* Close, which the session calls when a loop is over or its context is done *)

Close ==
    /\ at[Session] = "idle"
    /\ CloseFrame(Session, "closing")
    /\ UNCHANGED << nc, writeMu, readVars, onWire, writeDead, written >>

CloseSocket ==
    /\ at[Session] = "closing"
    /\ nc' = "closed"
    /\ at' = [at EXCEPT ![Session] = "over"]
    /\ UNCHANGED << lockVars, readVars, writing, onWire, writeDead, written >>

\* A loop whose context is done.
LoopEnds(g) ==
    /\ at[g] = "idle" /\ g # Session /\ at[Session] = "over"
    /\ at' = [at EXCEPT ![g] = "over"]
    /\ UNCHANGED << nc, lockVars, readVars, writing, onWire, writeDead, written >>

ConnNext ==
    \/ DialTCP \/ HandshakeFails \/ HandshakeOk
    \/ \E g \in Goroutines : WriteMessage(g) \/ WriteStep(g) \/ LoopEnds(g)
    \/ WriteRefused
    \/ \E first, fin \in BOOLEAN : ReadDataFrame(first, fin)
    \/ ReadPing \/ ReadClose \/ ReadFails
    \/ Close \/ CloseSocket

ConnSpec == ConnInit /\ [][ConnNext]_connVars

-----------------------------------------------------------------------------
(* Properties *)

\* What the gateway sees on the wire: the header of a frame is followed by its
\* own payload and never by a piece of another goroutine's frame, at most one
\* close frame is sent, and no data frame comes after it.
WireInOrder ==
    \A i, j \in 1 .. Len(onWire) :
        /\ i % 2 = 1 => onWire[i][3] = "header"
        /\ i % 2 = 0 => onWire[i] = << onWire[i-1][1], onWire[i-1][2], "payload" >>
        /\ onWire[i][2] = "close" /\ i < j =>
               \/ onWire[j] = << onWire[i][1], "close", "payload" >>
               \/ onWire[j][2] = "pong"

\* A returned message is one message of the gateway: its first frame, all the
\* continuations in order, the last one final, whatever control frames came in
\* between and whatever was dropped before.
MessagesWhole ==
    \A k \in 1 .. Len(messages) : LET m == messages[k] IN
        \A i \in 1 .. Len(m) : /\ m[i] = m[1] + i - 1
                               /\ arrived[m[i]].first = (i = 1)
                               /\ arrived[m[i]].fin = (i = Len(m))

\* Frames are whole on the way out and on the way in, whatever the goroutines
\* that share the connection do.
FramesIntact == WireInOrder /\ MessagesWhole

=============================================================================
