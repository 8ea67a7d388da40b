----------------------------- MODULE FrameCodec -----------------------------
(***************************************************************************)
(* The protobuf frame of the Lark gateway.                                 *)
(*   internal/lark/ws/frame.go   Marshal, Unmarshal and their helpers      *)
(*                                                                         *)
(* A byte is a number below 2 * Group; from Group on its continuation bit  *)
(* is set.  In the code Group is 128, a varint has ten bytes of a 64-bit   *)
(* word and a frame up to 64 headers.  A frame is encoded, and on its way  *)
(* an unknown field is put between two of its fields, or it is cut.        *)
(***************************************************************************)
EXTENDS Integers, Sequences, SequencesExt

CONSTANTS
    Group,        \* 2^7: the values of one varint byte
    VarintBytes,  \* 10
    MaxWord,      \* 2^64 - 1, the largest value of a varint
    MaxInt32,     \* the largest service, method and length
    MaxHeaders,   \* maxFrameHeaders
    Numbers, Texts, HeaderLists   \* bounds: what the frames are made of

ASSUME CodecAssumption ==
    /\ Group \in Nat /\ Group > 2 /\ VarintBytes \in Nat \ {0}
    /\ MaxWord \in Nat /\ MaxWord >= Group /\ MaxWord >= 10 * 8 + 7
    /\ MaxInt32 \in 2 .. MaxWord /\ MaxHeaders \in Nat

VARIABLES
    frame,    \* the frame that was sent
    data,     \* its bytes
    damage    \* "none", "encoded", "extended" or "cut"

codecVars == << frame, data, damage >>

Byte == 0 .. 2 * Group - 1
Nil == << -1 >>
Bad == [n |-> 0, v |-> 0]     \* n <= 0: an error
DropFirst(d, n) == SubSeq(d, n + 1, Len(d))

-----------------------------------------------------------------------------
(* Encoding *)

writeVarint[v \in 0 .. MaxWord] ==
    IF v < Group THEN << v >>
    ELSE << (v % Group) + Group >> \o writeVarint[v \div Group]

\* How many numbers n bytes hold.
Words[n \in 0 .. VarintBytes] == IF n = 0 THEN 1 ELSE Group * Words[n - 1]

\* Ten groups of seven bits hold a word of 64.
ASSUME VarintAssumption == MaxWord < Words[VarintBytes]

tagVarint(field, v) == writeVarint[field * 8] \o writeVarint[v]
tagBytes(field, p) == writeVarint[field * 8 + 2] \o writeVarint[Len(p)] \o p

\* A header is its key and its value.
marshalHeader(h) == tagBytes(1, h[1]) \o tagBytes(2, h[2])

\* A frame is its fields in the order of their numbers: SeqID, LogID, Service,
\* Method, Headers, PayloadEncoding, PayloadType, Payload, LogIDNew.  The
\* payload is written when it is not nil.
MarshalFields(f) ==
    [k \in 1 .. 4 |-> tagVarint(k, f[k])]
    \o [i \in 1 .. Len(f[5]) |-> tagBytes(5, marshalHeader(f[5][i]))]
    \o << tagBytes(6, f[6]), tagBytes(7, f[7]) >>
    \o (IF f[8] = Nil THEN << >> ELSE << tagBytes(8, f[8]) >>)
    \o << tagBytes(9, f[9]) >>

Marshal(f) == FlattenSeq(MarshalFields(f))

-----------------------------------------------------------------------------
(* Decoding *)

\* The first byte without a continuation bit ends the number; bits above the
\* word are lost.
Number(d, n) ==
    LET last[j \in 0 .. n] ==   \* the number in the last j of the n bytes
            IF j = 0 THEN 0 ELSE (d[n + 1 - j] % Group) + Group * last[j - 1]
    IN  last[n]

Varint(d, n) == [n |-> n, v |-> Number(d, n) % (MaxWord + 1)]

readVarint(d) ==
    LET ends == {i \in 1 .. Len(d) : i <= VarintBytes /\ d[i] < Group}
    IN  IF ends = {} THEN Bad ELSE Varint(d, Min(ends))

\* Fault: the length is checked against the whole of the data.
BytesUnbounded(d, len) ==
    IF len.n = 0 \/ len.v > MaxInt32 \/ Len(d) < len.v THEN Bad
    ELSE [n |-> len.n + len.v, v |-> SubSeq(d, len.n + 1, Len(d))]
readBytesUnbounded(d) == BytesUnbounded(d, readVarint(d))

\* A length, and as many bytes, which have to be there.
Bytes(d, len) ==
    IF len.n = 0 \/ len.v > MaxInt32 \/ Len(d) - len.n < len.v THEN Bad
    ELSE [n |-> len.n + len.v, v |-> SubSeq(d, len.n + 1, len.n + len.v)]
readBytes(d) == Bytes(d, readVarint(d))

fixed(d, size) == IF Len(d) < size THEN Bad ELSE [n |-> size, v |-> 0]

\* skipField: what follows the tag of an unknown field.
skipField(d, wireType) ==
    CASE wireType = 0 -> readVarint(d)
      [] wireType = 1 -> fixed(d, 8)
      [] wireType = 2 -> readBytes(d)
      [] wireType = 5 -> fixed(d, 4)
      [] OTHER -> Bad

\* A field after its tag.  need has the wire types of the known fields: those
\* of a frame (strict) are checked, those of a header are not.
Value(d, need, field, wireType) ==
    IF field \notin DOMAIN need THEN skipField(d, wireType)
    ELSE IF need[field] = 0 THEN readVarint(d) ELSE readBytes(d)

Field(tag, got) ==
    IF got.n = 0 THEN Bad
    ELSE [n |-> tag.n + got.n, v |-> [field |-> tag.v \div 8, is |-> got.v]]

TagThen(d, need, strict, tag) ==
    IF \/ tag.n = 0
       \/ strict /\ tag.v \div 8 \in DOMAIN need /\ tag.v % 8 # need[tag.v \div 8]
    THEN Bad
    ELSE Field(tag, Value(DropFirst(d, tag.n), need, tag.v \div 8, tag.v % 8))

Tagged(d, need, strict) == TagThen(d, need, strict, readVarint(d))

\* An empty payload is decoded as nil.
NilIfEmpty(p) == IF p = << >> THEN Nil ELSE p

\* Too many headers, or a service or method beyond 32 bits.
Refused(f, k, v) ==
    /\ k \in DOMAIN f
    /\ \/ k = 5 /\ Len(f[5]) >= MaxHeaders
       \/ k \in {3, 4} /\ v > MaxInt32

\* A field is assigned, or appended to the headers; an unknown one is skipped.
Put(f, k, v) ==
    IF k \notin DOMAIN f THEN f
    ELSE IF k = 5 THEN [f EXCEPT ![k] = Append(@, v)]
    ELSE [f EXCEPT ![k] = IF k = 8 THEN NilIfEmpty(v) ELSE v]

Broken == [ok |-> FALSE]

\* One turn of the loop of Unmarshal and unmarshalHeader: at is Go's i.
Took(s, got) ==
    IF got.n = 0 \/ Refused(s.f, got.v.field, got.v.is) THEN Broken
    ELSE [ok |-> TRUE, at |-> s.at + got.n, f |-> Put(s.f, got.v.field, got.v.is)]

Turn(d, need, strict, s) ==
    IF ~s.ok \/ s.at = Len(d) THEN s
    ELSE Took(s, Tagged(DropFirst(d, s.at), need, strict))

\* A turn takes at least one byte.
readFields(d, need, strict, none) ==
    LET after[k \in 0 .. Len(d)] ==
            IF k = 0 THEN [ok |-> TRUE, at |-> 0, f |-> none]
            ELSE Turn(d, need, strict, after[k - 1])
    IN  after[Len(d)]

HeaderWire == << 2, 2 >>
FrameWire == << 0, 0, 0, 0, 2, 2, 2, 2, 2 >>
NoHeader == << << >>, << >> >>
NoFields == << 0, 0, 0, 0, << >>, << >>, << >>, Nil, << >> >>

unmarshalHeader(d) == readFields(d, HeaderWire, FALSE, NoHeader)

\* The headers are decoded as they are read; here, after the loop.
WithHeaders(f, read) ==
    IF \E i \in DOMAIN read : ~read[i].ok THEN Broken
    ELSE [ok |-> TRUE, f |-> [f EXCEPT ![5] = [i \in DOMAIN read |-> read[i].f]]]

Decoded(s) ==
    IF ~s.ok THEN Broken
    ELSE WithHeaders(s.f, [i \in 1 .. Len(s.f[5]) |-> unmarshalHeader(s.f[5][i])])

Unmarshal(d) == Decoded(readFields(d, FrameWire, TRUE, NoFields))

-----------------------------------------------------------------------------
(* A frame on its way *)

FrameOf(n, service, hs, p, t) == << n, n, service, 1, hs, t, << >>, p, t >>

CodecInit ==
    /\ \E n \in Numbers, service \in {0, MaxInt32}, hs \in HeaderLists,
          p \in Texts \cup {Nil}, t \in Texts : frame = FrameOf(n, service, hs, p, t)
    /\ data = << >>
    /\ damage = "none"

Encode ==
    /\ damage = "none"
    /\ data' = Marshal(frame)
    /\ damage' = "encoded"
    /\ UNCHANGED frame

UnknownField(wireType) ==
    writeVarint[10 * 8 + wireType] \o
    CASE wireType = 0 -> writeVarint[Group]
      [] wireType = 1 -> [i \in 1 .. 8 |-> Group + 1]
      [] wireType = 2 -> << 2, 1, 1 >>
      [] OTHER -> [i \in 1 .. 4 |-> Group + 1]

\* Before the k-th field, or at the end.
Extended(f, k, wireType) == FlattenSeq(InsertAt(MarshalFields(f), k, UnknownField(wireType)))

Extend(wireType) ==
    /\ damage = "encoded"
    /\ \E k \in 1 .. Len(MarshalFields(frame)) + 1 : data' = Extended(frame, k, wireType)
    /\ damage' = "extended"
    /\ UNCHANGED frame

\* Inside the last field: LogIDNew is always there.
Cut ==
    /\ damage = "encoded"
    /\ \E k \in 1 .. Len(tagBytes(9, frame[9])) - 1 :
          data' = SubSeq(data, 1, Len(data) - k)
    /\ damage' = "cut"
    /\ UNCHANGED frame

CodecNext == Encode \/ (\E wireType \in {0, 1, 2, 5} : Extend(wireType)) \/ Cut

CodecSpec == CodecInit /\ [][CodecNext]_codecVars

-----------------------------------------------------------------------------
(* Properties *)

\* What the limits of the decoder admit.
IsText(t) == t \in Seq(Byte) /\ Len(t) <= MaxInt32
IsHeader(h) == /\ h = << h[1], h[2] >> /\ IsText(h[1]) /\ IsText(h[2])
               /\ Len(marshalHeader(h)) <= MaxInt32
IsHeaderList(hs) == /\ Len(hs) \in 0 .. MaxHeaders /\ hs = [i \in 1 .. Len(hs) |-> hs[i]]
                    /\ \A i \in 1 .. Len(hs) : IsHeader(hs[i])

\* What the bounds Numbers, Texts and HeaderLists may contain.
ASSUME FrameAssumption ==
    /\ Numbers \subseteq 0 .. MaxWord
    /\ \A t \in Texts : IsText(t)
    /\ \A hs \in HeaderLists : IsHeaderList(hs)

Stored(f) == [f EXCEPT ![8] = NilIfEmpty(@)]

\* A frame is read as it was sent, at every boundary of a varint and of the
\* limits, also when it carries a field this version does not know; a frame
\* that was cut is refused and never read as a shorter one.
FramesFaithful ==
    CASE damage = "none" -> TRUE
      [] damage = "cut" -> Unmarshal(data) = Broken
      [] OTHER -> Unmarshal(data) = [ok |-> TRUE, f |-> Stored(frame)]

=============================================================================
