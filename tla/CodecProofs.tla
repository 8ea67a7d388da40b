----------------------------- MODULE CodecProofs -----------------------------
(*************************************************************************)
(* Proof that the codec of the gateway's frames reads every frame as it  *)
(* was sent (FrameCodec, after internal/lark/ws/frame.go).               *)
(*                                                                       *)
(* The functions of the codec are recursive over bytes.  A recursive     *)
(* function is shown to satisfy its definition, and a statement about    *)
(* all of its arguments is proved by contradiction from the least one    *)
(* that violates it.  The argument goes from the bottom up: numbers,     *)
(* bytes, one field (Reads: the field is read the same whatever follows  *)
(* it), the loop over fields (Reading: from one state to the next), the  *)
(* headers, the frame.  What goes wrong on the way is one field more, or *)
(* a last field that is none.                                            *)
(*************************************************************************)
EXTENDS FrameCodec, SequenceTheorems, WellFoundedInduction, TLAPS

-----------------------------------------------------------------------------
(* Induction: the natural numbers are well founded.                        *)

\* A set of numbers has a least member.
LEMMA Least ==
  ASSUME NEW T, T \subseteq Nat, T # {}
  PROVE  \E x \in T : \A y \in T : x <= y
<1> DEFINE R == OpToRel(<, Nat)
<1>1. IsWellFoundedOn(R, Nat)
  BY NatLessThanWellFounded
<1> HIDE DEF R
<1>2. PICK x \in T : \A y \in T : << y, x >> \notin R
  BY <1>1, WFMin
<1>3. \A y \in T : ~(y < x)
  BY <1>2 DEF R, OpToRel
<1> QED BY <1>2, <1>3

\* Induction up to L: a set that holds 0 and with k also k + 1.
LEMMA UpTo ==
  ASSUME NEW L \in Nat, NEW T, 0 \in T,
         \A k \in 0 .. L - 1 : k \in T => k + 1 \in T
  PROVE  \A k \in 0 .. L : k \in T
<1> SUFFICES ASSUME NEW n \in 0 .. L, n \notin T PROVE FALSE
  OBVIOUS
<1> DEFINE B == {k \in 0 .. L : k \notin T}
<1>0. B \subseteq Nat /\ B # {}
  OBVIOUS
<1>1. PICK x \in B : \A y \in B : x <= y
  <2> HIDE DEF B
  <2> QED BY <1>0, Least
<1>2. x # 0
  OBVIOUS
<1>3. x - 1 \in 0 .. L - 1 /\ x - 1 \notin B
  BY <1>1, <1>2
<1> QED BY <1>1, <1>3

\* Induction from all smaller numbers.
LEMMA Strong ==
  ASSUME NEW L \in Nat, NEW T,
         \A k \in 0 .. L : (\A j \in 0 .. k - 1 : j \in T) => k \in T
  PROVE  \A k \in 0 .. L : k \in T
<1> SUFFICES ASSUME NEW n \in 0 .. L, n \notin T PROVE FALSE
  OBVIOUS
<1> DEFINE B == {k \in 0 .. L : k \notin T}
<1>1. B \subseteq Nat /\ B # {}
  OBVIOUS
<1>2. PICK x \in B : \A y \in B : x <= y
  <2> HIDE DEF B
  <2> QED BY <1>1, Least
<1>3. \A j \in 0 .. x - 1 : j \notin B
  <2> SUFFICES ASSUME NEW j \in 0 .. x - 1, j \in B PROVE FALSE
    OBVIOUS
  <2>1. x <= j /\ x \in Nat
    BY <1>2
  <2> QED BY <2>1
<1>4. \A j \in 0 .. x - 1 : j \in T
  BY <1>3
<1> QED BY <1>4

-----------------------------------------------------------------------------
(* Quotients and remainders by Group.                                      *)

\* A product grows with its factor.
LEMMA Grows ==
  ASSUME NEW a \in Int, NEW b \in Int, a <= b, NEW g \in Nat
  PROVE  g * a <= g * b
OBVIOUS

\* What writeVarint keeps of a number, and what it writes of it.
LEMMA Division ==
  ASSUME NEW v \in Nat
  PROVE  /\ v \div Group \in Nat /\ v % Group \in 0 .. Group - 1
         /\ v = Group * (v \div Group) + (v % Group)
BY CodecAssumption

\* writeVarint shifts a number down, so it ends.
LEMMA QuotientIsLess ==
  ASSUME NEW v \in Nat, v >= Group
  PROVE  v \div Group < v
<1>1. /\ v \div Group \in Nat /\ v % Group \in Nat
      /\ v = Group * (v \div Group) + (v % Group) /\ Group \in Nat /\ Group >= 2
  BY Division, CodecAssumption
<1>2. ASSUME NEW a \in Nat, NEW g \in Nat, g >= 2 PROVE g * a >= 2 * a
  BY <1>2
<1>3. Group * (v \div Group) >= 2 * (v \div Group)
  BY <1>1, <1>2
<1> QED BY <1>1, <1>3, CodecAssumption

\* Quotient and remainder are unique.
LEMMA OneQuotient ==
  ASSUME NEW g \in Nat, NEW q \in Int, NEW p \in Int, NEW r \in 0 .. g - 1,
         NEW s \in 0 .. g - 1, g * q + r = g * p + s
  PROVE  r = s
<1>1. CASE q = p
  BY <1>1
<1>2. CASE q < p
  <2>1. g * (q + 1) <= g * p
    BY <1>2, Grows
  <2>2. g * (q + 1) = g * q + g
    OBVIOUS
  <2> QED BY <2>1, <2>2
<1>3. CASE p < q
  <2>1. g * (p + 1) <= g * q
    BY <1>3, Grows
  <2>2. g * (p + 1) = g * p + g
    OBVIOUS
  <2> QED BY <2>1, <2>2
<1> QED BY <1>1, <1>2, <1>3

\* The continuation bit does not change the low bits of a byte.
LEMMA LowBits ==
  ASSUME NEW a \in 0 .. Group - 1
  PROVE  a % Group = a /\ (a + Group) % Group = a
<1> Group \in Nat /\ a \in Nat /\ a + Group \in Nat
  BY CodecAssumption
<1>1. Group * (a \div Group) + (a % Group) = Group * 0 + a
  BY Division
<1>2. Group * ((a + Group) \div Group) + ((a + Group) % Group) = Group * 1 + a
  BY Division
<1>3. a % Group \in 0 .. Group - 1 /\ (a + Group) % Group \in 0 .. Group - 1
      /\ a \div Group \in Int /\ (a + Group) \div Group \in Int
  BY Division
<1>4. a % Group = a
  BY <1>1, <1>3, OneQuotient
<1>5. (a + Group) % Group = a
  BY <1>2, <1>3, OneQuotient
<1> QED BY <1>4, <1>5

-----------------------------------------------------------------------------
(* writeVarint                                                             *)

\* The function satisfies its recursive definition.
LEMMA WriteVarint ==
  \A v \in 0 .. MaxWord :
     writeVarint[v] = IF v < Group THEN << v >>
                      ELSE << (v % Group) + Group >> \o writeVarint[v \div Group]
<1> DEFINE Body(g, v) == IF v < Group THEN << v >>
                         ELSE << (v % Group) + Group >> \o g[v \div Group]
           Is(g, k) == g = [v \in 0 .. k |-> Body(g, v)]
           T == {k \in 0 .. MaxWord : \E g : Is(g, k)}
<1>a. MaxWord \in Nat /\ Group \in Nat /\ Group > 2
  BY CodecAssumption
<1>q. ASSUME NEW v \in Nat, NEW g, NEW h, \A i \in 0 .. v - 1 : g[i] = h[i]
      PROVE  Body(g, v) = Body(h, v)
  <2>1. v < Group \/ v \div Group \in 0 .. v - 1
    BY Division, QuotientIsLess, <1>a
  <2> QED BY <2>1, <1>q
<1>1. 0 \in T
  <2>1. Body([v \in 0 .. 0 |-> << v >>], 0) = << 0 >>
    BY <1>a
  <2>2. Is([v \in 0 .. 0 |-> << v >>], 0)
    BY <2>1
  <2> QED BY <2>2, <1>a
<1>2. ASSUME NEW k \in 0 .. MaxWord - 1, k \in T PROVE k + 1 \in T
  <2>1. PICK g : Is(g, k)
    BY <1>2
  <2> DEFINE h == [v \in 0 .. k + 1 |-> IF v <= k THEN g[v] ELSE Body(g, k + 1)]
  <2> HIDE DEF Body
  <2>2. \A i \in 0 .. k : h[i] = g[i]
    OBVIOUS
  <2>3. ASSUME NEW v \in 0 .. k + 1 PROVE h[v] = Body(h, v)
    <3>1. Body(h, v) = Body(g, v)
      <4>1. \A i \in 0 .. v - 1 : h[i] = g[i]
        BY <2>2
      <4> QED BY <1>q, <4>1
    <3>2. CASE v <= k
      BY <2>1, <2>2, <3>1, <3>2
    <3>3. CASE v = k + 1
      BY <3>1, <3>3
    <3> QED BY <3>2, <3>3
  <2>4. Is(h, k + 1)
    BY <2>3
  <2>5. k + 1 \in 0 .. MaxWord
    BY <1>a
  <2> HIDE DEF Is, h
  <2> QED BY <2>4, <2>5
<1>3. MaxWord \in T
  <2> HIDE DEF T
  <2>1. \A k \in 0 .. MaxWord : k \in T
    BY <1>1, <1>2, <1>a, UpTo
  <2> QED BY <2>1, <1>a
<1>4. \E g : Is(g, MaxWord)
  BY <1>3
<1>5. writeVarint = CHOOSE g : Is(g, MaxWord)
  BY DEF writeVarint
<1>6. Is(writeVarint, MaxWord)
  BY <1>4, <1>5
<1> QED BY <1>6

\* A number below Group is one byte.
LEMMA OneByte ==
  ASSUME NEW v \in 0 .. MaxWord, v < Group
  PROVE  writeVarint[v] = << v >> /\ v \in Byte
<1>1. writeVarint[v] = IF v < Group THEN << v >>
                       ELSE << (v % Group) + Group >> \o writeVarint[v \div Group]
  BY WriteVarint, Zenon
<1>2. writeVarint[v] = << v >>
  BY <1>1, Zenon
<1> QED BY <1>2, CodecAssumption DEF Byte

\* A larger one is a byte with a continuation bit, and a smaller number.
LEMMA MoreBytes ==
  ASSUME NEW v \in 0 .. MaxWord, v >= Group
  PROVE  \E b \in Byte, q \in 0 .. v - 1 :
            /\ writeVarint[v] = << b >> \o writeVarint[q]
            /\ b >= Group /\ v = (b % Group) + Group * q
<1>a. MaxWord \in Nat /\ Group \in Nat /\ Group > 2 /\ v \in Nat
  BY CodecAssumption
<1>1. writeVarint[v] = IF v < Group THEN << v >>
                       ELSE << (v % Group) + Group >> \o writeVarint[v \div Group]
  BY WriteVarint, Zenon
<1>2. /\ v \div Group \in Nat /\ v % Group \in 0 .. Group - 1
      /\ v = Group * (v \div Group) + (v % Group)
  BY <1>a, Division
<1>3. v \div Group < v
  BY <1>a, QuotientIsLess
<1>4. ((v % Group) + Group) % Group = v % Group
  BY <1>2, LowBits
<1> DEFINE q == v \div Group
           r == v % Group
           b == r + Group
<1>5. ~(v < Group)
  BY <1>a
<1>6. writeVarint[v] = << b >> \o writeVarint[q]
  BY <1>1, <1>5, Zenon
<1> HIDE DEF q
<1>7. v = Group * q + r /\ q \in Nat /\ q < v /\ r \in 0 .. Group - 1
  BY <1>2, <1>3 DEF q
<1> HIDE DEF r
<1>8. b % Group = r
  BY <1>4 DEF r
<1>9. b \in Byte /\ b >= Group
  BY <1>7, <1>a DEF Byte
<1> HIDE DEF b
<1>10. v = (b % Group) + Group * q /\ q \in 0 .. v - 1
  BY <1>7, <1>8, <1>a
<1> QED BY <1>6, <1>9, <1>10

\* The bytes of a number: a continuation bit on all but the last.
IsVarint(w) ==
    /\ w \in Seq(Byte) /\ Len(w) \in Nat \ {0}
    /\ \A i \in 1 .. Len(w) - 1 : w[i] >= Group
    /\ w[Len(w)] < Group

\* What writeVarint writes has the bytes of a number.
LEMMA VarintShape ==
  \A v \in 0 .. MaxWord : IsVarint(writeVarint[v])
<1> DEFINE T == {v \in 0 .. MaxWord : IsVarint(writeVarint[v])}
<1> HIDE DEF T
<1>a. MaxWord \in Nat /\ Group \in Nat /\ Group > 2
  BY CodecAssumption
<1>1. ASSUME NEW v \in 0 .. MaxWord, \A j \in 0 .. v - 1 : j \in T
      PROVE  v \in T
  <2>0. v \in Nat /\ v \in 0 .. MaxWord
    BY <1>a
  <2>1. CASE v < Group
    <3>1. writeVarint[v] = << v >> /\ v \in Byte
      BY <2>0, <2>1, OneByte
    <3>2. IsVarint(<< v >>)
      BY <3>1, <2>1, <1>a DEF IsVarint
    <3> QED BY <2>0, <3>1, <3>2 DEF T
  <2>2. CASE v >= Group
    <3>1. PICK b \in Byte, q \in 0 .. v - 1 :
                 /\ writeVarint[v] = << b >> \o writeVarint[q]
                 /\ b >= Group
      BY <2>0, <2>2, MoreBytes
    <3> DEFINE u == writeVarint[q]
    <3>2. IsVarint(u)
      BY <3>1, <1>1 DEF T
    <3> HIDE DEF u
    <3>5. << b >> \o u \in Seq(Byte) /\ Len(<< b >> \o u) = Len(u) + 1
      BY <3>2 DEF IsVarint
    <3>6. \A i \in 1 .. Len(u) + 1 : (<< b >> \o u)[i] = IF i = 1 THEN b ELSE u[i - 1]
      BY <3>2 DEF IsVarint
    <3>7. IsVarint(<< b >> \o u)
      BY <3>1, <3>2, <3>5, <3>6 DEF IsVarint
    <3>8. IsVarint(writeVarint[v])
      BY <3>1, <3>7 DEF u
    <3> QED BY <2>0, <3>8 DEF T
  <2> QED BY <2>0, <2>1, <2>2, <1>a
<1>2. \A v \in 0 .. MaxWord : v \in T
  BY <1>1, <1>a, Strong
<1> QED BY <1>2 DEF T

\* The function satisfies its recursive definition.
LEMMA WordsUnfold ==
  \A n \in 0 .. VarintBytes : Words[n] = IF n = 0 THEN 1 ELSE Group * Words[n - 1]
<1> DEFINE Body(g, n) == IF n = 0 THEN 1 ELSE Group * g[n - 1]
           Is(g, k) == g = [n \in 0 .. k |-> Body(g, n)]
           T == {k \in 0 .. VarintBytes : \E g : Is(g, k)}
<1>a. VarintBytes \in Nat
  BY CodecAssumption
<1>q. ASSUME NEW n \in Nat, NEW g, NEW h, \A i \in 0 .. n - 1 : g[i] = h[i]
      PROVE  Body(g, n) = Body(h, n)
  <2>1. n = 0 \/ n - 1 \in 0 .. n - 1
    OBVIOUS
  <2> QED BY <2>1, <1>q
<1>1. 0 \in T
  <2>1. Is([n \in 0 .. 0 |-> 1], 0)
    OBVIOUS
  <2>2. 0 \in 0 .. VarintBytes
    BY <1>a
  <2> HIDE DEF Is
  <2> QED BY <2>1, <2>2
<1>2. ASSUME NEW k \in 0 .. VarintBytes - 1, k \in T PROVE k + 1 \in T
  <2>1. PICK g : Is(g, k)
    BY <1>2
  <2> DEFINE h == [n \in 0 .. k + 1 |-> IF n <= k THEN g[n] ELSE Body(g, k + 1)]
  <2> HIDE DEF Body
  <2>2. \A i \in 0 .. k : h[i] = g[i]
    OBVIOUS
  <2>3. ASSUME NEW n \in 0 .. k + 1 PROVE h[n] = Body(h, n)
    <3>1. Body(h, n) = Body(g, n)
      <4>1. \A i \in 0 .. n - 1 : h[i] = g[i]
        BY <2>2
      <4> QED BY <1>q, <4>1
    <3>2. CASE n <= k
      BY <2>1, <2>2, <3>1, <3>2
    <3>3. CASE n = k + 1
      BY <3>1, <3>3
    <3> QED BY <3>2, <3>3
  <2>4. Is(h, k + 1)
    BY <2>3
  <2>5. k + 1 \in 0 .. VarintBytes
    BY <1>a
  <2> HIDE DEF Is, h
  <2> QED BY <2>4, <2>5
<1>3. VarintBytes \in T
  <2> HIDE DEF T
  <2>1. \A k \in 0 .. VarintBytes : k \in T
    BY <1>1, <1>2, <1>a, UpTo
  <2> QED BY <2>1, <1>a
<1>4. \E g : Is(g, VarintBytes)
  BY <1>3
<1>5. Words = CHOOSE g : Is(g, VarintBytes)
  BY DEF Words
<1>6. Is(Words, VarintBytes)
  BY <1>4, <1>5
<1> QED BY <1>6

\* A word is written in at most as many bytes as the reader looks at.
LEMMA VarintFits ==
  \A v \in 0 .. MaxWord : Len(writeVarint[v]) <= VarintBytes
<1> DEFINE T == {n \in Nat : Words[n] \in Nat /\ \A v \in 0 .. MaxWord :
                                 v # 0 /\ v < Words[n] => Len(writeVarint[v]) <= n}
<1>a. MaxWord \in Nat /\ Group \in Nat /\ Group > 2 /\ VarintBytes \in Nat \ {0}
  BY CodecAssumption
<1>1. 0 \in T
  <2>1. Words[0] = 1
    BY WordsUnfold, <1>a
  <2> QED BY <2>1, <1>a
<1>2. ASSUME NEW n \in 0 .. VarintBytes - 1, n \in T PROVE n + 1 \in T
  <2> DEFINE W == Words[n]
             V == Words[n + 1]
  <2>0. n \in Nat /\ n + 1 \in 0 .. VarintBytes /\ n + 1 # 0 /\ n + 1 - 1 = n
    BY <1>a
  <2>1. V = Group * W
    BY WordsUnfold, <2>0
  <2>2. W \in Nat
    BY <1>2
  <2>3. \A v \in 0 .. MaxWord : v # 0 /\ v < W => Len(writeVarint[v]) <= n
    BY <1>2
  <2> HIDE DEF W, V
  <2>4. V \in Nat
    BY <2>1, <2>2, <1>a
  <2>5. ASSUME NEW v \in 0 .. MaxWord, v < V PROVE Len(writeVarint[v]) <= n + 1
    <3>1. CASE v < Group
      <4>1. writeVarint[v] = << v >>
        BY <3>1, OneByte
      <4> QED BY <4>1, <2>0
    <3>2. CASE v >= Group
      <4>1. PICK b \in Byte, q \in 0 .. v - 1 :
                   /\ writeVarint[v] = << b >> \o writeVarint[q]
                   /\ b >= Group /\ v = (b % Group) + Group * q
        BY <3>2, MoreBytes
      <4>2. b % Group \in Nat /\ q \in Nat /\ q \in 0 .. MaxWord /\ v \in Nat
        <5>1. b \in Nat
          BY <1>a DEF Byte
        <5> QED BY <5>1, <1>a, Division
      <4>3. q < W
        <5> SUFFICES ASSUME W <= q PROVE FALSE
          BY <2>2, <4>2
        <5>1. Group * W <= Group * q
          BY <2>2, <4>2, <1>a, Grows
        <5>2. Group * q \in Int /\ Group * W \in Int
          BY <2>2, <4>2, <1>a
        <5> QED BY <2>1, <2>5, <4>1, <4>2, <5>1, <5>2
      <4>4. q # 0
        <5>1. q = 0 => Group * q = 0
          BY <1>a
        <5>2. b % Group < Group
          BY <1>a, Division DEF Byte
        <5> QED BY <3>2, <4>1, <4>2, <5>1, <5>2, <1>a
      <4>5. Len(writeVarint[q]) <= n
        BY <2>3, <4>2, <4>3, <4>4
      <4> DEFINE u == writeVarint[q]
      <4>6. IsVarint(u)
        BY <4>2, VarintShape
      <4> HIDE DEF u
      <4>7. Len(<< b >> \o u) = Len(u) + 1
        BY <4>6 DEF IsVarint
      <4> QED BY <4>1, <4>5, <4>6, <4>7, <2>0 DEF u, IsVarint
    <3> QED BY <3>1, <3>2, <1>a
  <2> HIDE DEF T
  <2>6. n + 1 \in Nat /\ V \in Nat
        /\ \A v \in 0 .. MaxWord : v < V => Len(writeVarint[v]) <= n + 1
    BY <2>0, <2>4, <2>5
  <2> QED BY <2>0, <2>6 DEF T, V
<1> HIDE DEF T
<1>b. \A n \in 0 .. VarintBytes : n \in T
  BY <1>1, <1>2, <1>a, UpTo
<1>3. VarintBytes \in T
  BY <1>b, <1>a
<1>4. \A v \in 0 .. MaxWord :
         v # 0 /\ v < Words[VarintBytes] => Len(writeVarint[v]) <= VarintBytes
  BY <1>3, <1>a DEF T
<1>5. Words[VarintBytes] \in Nat
  BY <1>3 DEF T
<1>6. Len(writeVarint[0]) <= VarintBytes
  <2>1. writeVarint[0] = << 0 >>
    BY <1>a, OneByte
  <2> QED BY <2>1, <1>a
<1> QED BY <1>4, <1>5, <1>6, <1>a, VarintAssumption

-----------------------------------------------------------------------------
(* Number                                                                  *)

\* last[j] is the number in the last j of the first n bytes of d.
IsNumber(last, d, n) ==
    \A j \in 0 .. n :
       last[j] = IF j = 0 THEN 0 ELSE (d[n + 1 - j] % Group) + Group * last[j - 1]

\* So does the function inside Number.
LEMMA NumberUnfolds ==
  ASSUME NEW d, NEW n \in Nat
  PROVE  \E last : IsNumber(last, d, n) /\ Number(d, n) = last[n]
<1> DEFINE Body(g, j) == IF j = 0 THEN 0 ELSE (d[n + 1 - j] % Group) + Group * g[j - 1]
           Is(g, k) == g = [j \in 0 .. k |-> Body(g, j)]
           T == {k \in 0 .. n : \E g : Is(g, k)}
<1>q. ASSUME NEW j \in Nat, NEW g, NEW h, \A i \in 0 .. j - 1 : g[i] = h[i]
      PROVE  Body(g, j) = Body(h, j)
  <2>1. j = 0 \/ j - 1 \in 0 .. j - 1
    OBVIOUS
  <2> QED BY <2>1, <1>q
<1>1. 0 \in T
  <2>1. Is([j \in 0 .. 0 |-> 0], 0)
    OBVIOUS
  <2>2. 0 \in 0 .. n
    OBVIOUS
  <2> HIDE DEF Is
  <2> QED BY <2>1, <2>2
<1>2. ASSUME NEW k \in 0 .. n - 1, k \in T PROVE k + 1 \in T
  <2>1. PICK g : Is(g, k)
    BY <1>2
  <2> DEFINE h == [v \in 0 .. k + 1 |-> IF v <= k THEN g[v] ELSE Body(g, k + 1)]
  <2> HIDE DEF Body
  <2>2. \A i \in 0 .. k : h[i] = g[i]
    OBVIOUS
  <2>3. ASSUME NEW v \in 0 .. k + 1 PROVE h[v] = Body(h, v)
    <3>1. Body(h, v) = Body(g, v)
      <4>1. \A i \in 0 .. v - 1 : h[i] = g[i]
        BY <2>2
      <4> QED BY <1>q, <4>1
    <3>2. CASE v <= k
      BY <2>1, <2>2, <3>1, <3>2
    <3>3. CASE v = k + 1
      BY <3>1, <3>3
    <3> QED BY <3>2, <3>3
  <2>4. Is(h, k + 1)
    BY <2>3
  <2>5. k + 1 \in 0 .. n
    OBVIOUS
  <2> HIDE DEF Is, h
  <2> QED BY <2>4, <2>5
<1>3. n \in T
  <2> HIDE DEF T
  <2>1. \A k \in 0 .. n : k \in T
    BY <1>1, <1>2, UpTo
  <2> QED BY <2>1
<1>4. \E g : Is(g, n)
  BY <1>3
<1>5. Number(d, n) = (CHOOSE g : Is(g, n))[n]
  BY DEF Number
<1>6. Is(CHOOSE g : Is(g, n), n)
  BY <1>4
<1> HIDE DEF Is
<1>7. PICK g : Is(g, n) /\ Number(d, n) = g[n]
  BY <1>5, <1>6
<1>8. IsNumber(g, d, n)
  BY <1>7 DEF Is, IsNumber
<1> QED BY <1>7, <1>8

\* One byte in front of a number.
LEMMA NumberShifts ==
  ASSUME NEW d, NEW e, NEW n \in Nat, \A i \in 1 .. n : d[i + 1] = e[i]
  PROVE  Number(d, n + 1) = (d[1] % Group) + Group * Number(e, n)
<1>1. PICK g : IsNumber(g, d, n + 1) /\ Number(d, n + 1) = g[n + 1]
  BY NumberUnfolds
<1>2. PICK h : IsNumber(h, e, n) /\ Number(e, n) = h[n]
  BY NumberUnfolds
<1> DEFINE T == {j \in 0 .. n : g[j] = h[j]}
<1>3. 0 \in T
  BY <1>1, <1>2 DEF IsNumber
<1>4. ASSUME NEW k \in 0 .. n - 1, k \in T PROVE k + 1 \in T
  <2>1. g[k + 1] = (d[n + 1 - k] % Group) + Group * g[k]
    BY <1>1 DEF IsNumber
  <2>2. h[k + 1] = (e[n - k] % Group) + Group * h[k]
    BY <1>2 DEF IsNumber
  <2>3. d[n + 1 - k] = e[n - k]
    OBVIOUS
  <2> QED BY <2>1, <2>2, <2>3, <1>4
<1> HIDE DEF T
<1>5. n \in T
  BY <1>3, <1>4, UpTo
<1>6. g[n] = h[n]
  BY <1>5 DEF T
<1>7. g[n + 1] = (d[1] % Group) + Group * g[n]
  BY <1>1 DEF IsNumber
<1> QED BY <1>1, <1>2, <1>6, <1>7

\* No byte, no number.
LEMMA NumberOfNothing ==
  ASSUME NEW d PROVE Number(d, 0) = 0
BY NumberUnfolds DEF IsNumber

\* The bytes of writeVarint, put together, are the number.
LEMMA NumberWritten ==
  \A v \in 0 .. MaxWord : \A rest \in Seq(Byte) :
     Number(writeVarint[v] \o rest, Len(writeVarint[v])) = v
<1> DEFINE Good(v) == \A rest \in Seq(Byte) :
                         Number(writeVarint[v] \o rest, Len(writeVarint[v])) = v
           T == {v \in 0 .. MaxWord : Good(v)}
<1> HIDE DEF Good, T
<1>a. MaxWord \in Nat /\ Group \in Nat /\ Group > 2
  BY CodecAssumption
<1>1. ASSUME NEW v \in 0 .. MaxWord, \A j \in 0 .. v - 1 : j \in T
      PROVE  v \in T
  <2>0. v \in Nat /\ v \in 0 .. MaxWord
    BY <1>a
  <2> SUFFICES ASSUME NEW rest \in Seq(Byte)
               PROVE  Number(writeVarint[v] \o rest, Len(writeVarint[v])) = v
    BY <2>0 DEF T, Good
  <2>1. CASE v < Group
    <3>1. writeVarint[v] = << v >> /\ v \in Byte
      BY <2>0, <2>1, OneByte
    <3> DEFINE d == << v >> \o rest
    <3>2. d[1] = v
      BY <3>1
    <3> HIDE DEF d
    <3>3. Number(d, 0 + 1) = (d[1] % Group) + Group * Number(<< >>, 0)
      BY NumberShifts
    <3>4. v % Group = v
      BY LowBits, <2>1, <2>0, <1>a
    <3>5. Number(d, 1) = v
      BY <2>0, <3>2, <3>3, <3>4, NumberOfNothing, <1>a
    <3> QED BY <3>1, <3>5 DEF d
  <2>2. CASE v >= Group
    <3>1. PICK b \in Byte, q \in 0 .. v - 1 :
                 /\ writeVarint[v] = << b >> \o writeVarint[q]
                 /\ v = (b % Group) + Group * q
      BY <2>0, <2>2, MoreBytes
    <3> DEFINE u == writeVarint[q]
               d == (<< b >> \o u) \o rest
    <3>2. Good(q)
      BY <3>1, <1>1 DEF T
    <3>3. Number(u \o rest, Len(u)) = q
      BY <3>2 DEF Good
    <3>4. IsVarint(u)
      BY <2>0, <1>a, VarintShape
    <3> HIDE DEF u
    <3>5. u \in Seq(Byte) /\ Len(u) \in Nat
      BY <3>4 DEF IsVarint
    <3>6. d[1] = b /\ \A i \in 1 .. Len(u) : d[i + 1] = (u \o rest)[i]
      BY <3>5
    <3>7. Len(<< b >> \o u) = Len(u) + 1
      BY <3>5
    <3> HIDE DEF d
    <3>8. Number(d, Len(u) + 1) = (d[1] % Group) + Group * Number(u \o rest, Len(u))
      BY <3>5, <3>6, NumberShifts
    <3>9. Number(d, Len(u) + 1) = v
      BY <3>1, <3>3, <3>6, <3>8
    <3> QED BY <3>1, <3>7, <3>9 DEF d, u
  <2> QED BY <2>0, <2>1, <2>2, <1>a
<1>2. \A v \in 0 .. MaxWord : v \in T
  BY <1>1, <1>a, Strong
<1> QED BY <1>2 DEF T, Good

-----------------------------------------------------------------------------
(* readVarint and readBytes                                                *)

\* What is left of two sequences without the first one.
LEMMA DropConcat ==
  ASSUME NEW s \in Seq(Byte), NEW t \in Seq(Byte)
  PROVE  DropFirst(s \o t, Len(s)) = t
<1> DEFINE d == s \o t
           r == SubSeq(d, Len(s) + 1, Len(s) + Len(t))
<1>1. /\ d \in Seq(Byte) /\ Len(d) = Len(s) + Len(t)
      /\ Len(s) \in Nat /\ Len(t) \in Nat
      /\ \A i \in 1 .. Len(t) : d[Len(s) + i] = t[i]
  OBVIOUS
<1> HIDE DEF d
<1>2. \A i \in Len(s) + 1 .. Len(s) + Len(t) : d[i] \in Byte
  BY <1>1
<1>3. /\ r \in Seq(Byte) /\ Len(r) = Len(t)
      /\ \A i \in 1 .. Len(t) : r[i] = d[Len(s) + i]
  BY <1>1, <1>2
<1> HIDE DEF r
<1>4. r = t
  BY <1>1, <1>3, SeqEqual
<1> QED BY <1>1, <1>4 DEF DropFirst, d, r

\* The second of three sequences.
LEMMA MiddleOfConcat ==
  ASSUME NEW s \in Seq(Byte), NEW t \in Seq(Byte), NEW u \in Seq(Byte)
  PROVE  SubSeq(s \o (t \o u), Len(s) + 1, Len(s) + Len(t)) = t
<1> DEFINE d == s \o (t \o u)
           r == SubSeq(d, Len(s) + 1, Len(s) + Len(t))
<1>1. /\ d \in Seq(Byte) /\ Len(d) = Len(s) + Len(t) + Len(u)
      /\ Len(s) \in Nat /\ Len(t) \in Nat /\ Len(u) \in Nat
      /\ \A i \in 1 .. Len(t) : d[Len(s) + i] = t[i]
  OBVIOUS
<1> HIDE DEF d
<1>2. \A i \in Len(s) + 1 .. Len(s) + Len(t) : d[i] \in Byte
  BY <1>1
<1>3. /\ r \in Seq(Byte) /\ Len(r) = Len(t)
      /\ \A i \in 1 .. Len(t) : r[i] = d[Len(s) + i]
  BY <1>1, <1>2
<1> HIDE DEF r
<1>4. r = t
  BY <1>1, <1>3, SeqEqual
<1> QED BY <1>4 DEF d, r

\* A concatenation of three sequences of bytes.
LEMMA BytesAssociative ==
  \A s, t, u \in Seq(Byte) : (s \o t) \o u = s \o (t \o u)
BY ConcatAssociative

\* A number is read back as it was written, whatever follows it.
THEOREM VarintRoundTrip ==
  ASSUME NEW v \in 0 .. MaxWord, NEW rest \in Seq(Byte)
  PROVE  readVarint(writeVarint[v] \o rest) = [n |-> Len(writeVarint[v]), v |-> v]
<1> DEFINE w == writeVarint[v]
           d == w \o rest
           ends == {i \in 1 .. Len(d) : i <= VarintBytes /\ d[i] < Group}
<1>a. MaxWord \in Nat /\ Group \in Nat /\ VarintBytes \in Nat /\ v \in Nat
  BY CodecAssumption
<1>1. IsVarint(w) /\ Len(w) <= VarintBytes
  BY VarintShape, VarintFits
<1>2. Number(d, Len(w)) = v
  BY NumberWritten
<1> HIDE DEF w
<1>3. /\ w \in Seq(Byte) /\ Len(w) \in Nat \ {0} /\ Len(d) >= Len(w) /\ Len(d) \in Nat
      /\ \A i \in 1 .. Len(w) : d[i] = w[i]
  BY <1>1 DEF IsVarint
<1> HIDE DEF d
<1>4. Len(w) \in ends
  BY <1>1, <1>3 DEF IsVarint
<1>5. \A i \in ends : Len(w) <= i
  <2> SUFFICES ASSUME NEW i \in 1 .. Len(w) - 1 PROVE i \notin ends
    BY <1>3
  <2>1. d[i] = w[i] /\ w[i] >= Group /\ w[i] \in Nat
    BY <1>1, <1>3, <1>a DEF IsVarint, Byte
  <2> QED BY <2>1, <1>a
<1>6. Min(ends) = Len(w)
  <2>1. ends \subseteq Nat
    BY <1>3
  <2> HIDE DEF ends
  <2>2. \A x \in ends : (\A y \in ends : x <= y) => x = Len(w)
    BY <1>3, <1>4, <1>5, <2>1
  <2> QED BY <1>4, <1>5, <2>2 DEF Min
<1>7. readVarint(d) = Varint(d, Len(w))
  <2>1. ends # {}
    BY <1>4
  <2>2. readVarint(d) = IF ends = {} THEN Bad ELSE Varint(d, Min(ends))
    BY DEF readVarint
  <2> HIDE DEF ends
  <2> QED BY <2>1, <2>2, <1>6
<1>8. v % (MaxWord + 1) = v
  BY <1>a
<1> QED BY <1>2, <1>7, <1>8 DEF Varint, w, d

\* What has only continuation bytes is no number.
LEMMA ReadUnended ==
  ASSUME NEW d \in Seq(Byte), \A i \in 1 .. Len(d) : d[i] >= Group
  PROVE  readVarint(d) = Bad
<1> DEFINE ends == {i \in 1 .. Len(d) : i <= VarintBytes /\ d[i] < Group}
<1>1. ends = {}
  BY CodecAssumption DEF Byte
<1> QED BY <1>1 DEF readVarint

\* Bytes are read back as they were written, whatever follows them.
LEMMA ReadWrittenBytes ==
  ASSUME NEW p \in Seq(Byte), Len(p) <= MaxInt32, NEW rest \in Seq(Byte)
  PROVE  readBytes(writeVarint[Len(p)] \o (p \o rest))
            = [n |-> Len(writeVarint[Len(p)]) + Len(p), v |-> p]
<1> DEFINE w == writeVarint[Len(p)]
           d == w \o (p \o rest)
<1>a. Len(p) \in 0 .. MaxWord /\ Len(p) \in Nat /\ Len(rest) \in Nat
  BY CodecAssumption
<1>b. p \o rest \in Seq(Byte)
  OBVIOUS
<1>1. readVarint(d) = [n |-> Len(w), v |-> Len(p)]
  BY <1>a, <1>b, VarintRoundTrip
<1>2. IsVarint(w)
  BY <1>a, VarintShape
<1> HIDE DEF w
<1>3. w \in Seq(Byte) /\ Len(w) \in Nat /\ Len(w) # 0
  BY <1>2 DEF IsVarint
<1>4. Len(d) = Len(w) + Len(p) + Len(rest)
  BY <1>3
<1>5. SubSeq(d, Len(w) + 1, Len(w) + Len(p)) = p
  BY <1>3, MiddleOfConcat
<1> HIDE DEF d
<1> DEFINE len == [n |-> Len(w), v |-> Len(p)]
<1>6. ~(len.n = 0 \/ len.v > MaxInt32 \/ Len(d) - len.n < len.v)
  BY <1>3, <1>4, <1>a, CodecAssumption
<1>7. len.n = Len(w) /\ len.v = Len(p)
  OBVIOUS
<1>8. readBytes(d) = Bytes(d, len)
  BY <1>1 DEF readBytes
<1> HIDE DEF len
<1>9. Bytes(d, len) = [n |-> len.n + len.v, v |-> SubSeq(d, len.n + 1, len.n + len.v)]
  BY <1>6 DEF Bytes
<1> QED BY <1>5, <1>7, <1>8, <1>9 DEF d, w

-----------------------------------------------------------------------------
(* A field                                                                 *)

\* A block is read as the value x of field k, whatever follows it.
Reads(block, need, strict, k, x) ==
    /\ block \in Seq(Byte) /\ block # << >>
    /\ \A rest \in Seq(Byte) :
          Tagged(block \o rest, need, strict)
             = [n |-> Len(block), v |-> [field |-> k, is |-> x]]

\* A tag and what is read after it.
LEMMA TagReads ==
  ASSUME NEW tag \in 0 .. MaxWord, NEW need, NEW strict \in BOOLEAN,
         strict /\ tag \div 8 \in DOMAIN need => tag % 8 = need[tag \div 8],
         NEW body \in Seq(Byte), NEW rest \in Seq(Byte)
  PROVE  Tagged((writeVarint[tag] \o body) \o rest, need, strict)
            = Field([n |-> Len(writeVarint[tag]), v |-> tag],
                    Value(body \o rest, need, tag \div 8, tag % 8))
<1> DEFINE w == writeVarint[tag]
           d == (w \o body) \o rest
           t == [n |-> Len(w), v |-> tag]
<1>2. IsVarint(w)
  BY VarintShape
<1>3. \A r \in Seq(Byte) : readVarint(w \o r) = t
  BY VarintRoundTrip
<1> HIDE DEF w
<1>4. w \in Seq(Byte) /\ Len(w) # 0 /\ body \o rest \in Seq(Byte)
  BY <1>2 DEF IsVarint
<1>5. d = w \o (body \o rest)
  BY <1>4, BytesAssociative
<1> HIDE DEF d, t
<1>6. readVarint(d) = t
  BY <1>3, <1>4, <1>5
<1>7. t.n = Len(w) /\ t.v = tag
  BY DEF t
<1>8. DropFirst(d, t.n) = body \o rest
  BY <1>4, <1>5, <1>7, DropConcat
<1>9. ~(\/ t.n = 0
        \/ strict /\ t.v \div 8 \in DOMAIN need /\ t.v % 8 # need[t.v \div 8])
  BY <1>4, <1>7
<1>10. Tagged(d, need, strict) = TagThen(d, need, strict, t)
  BY <1>6 DEF Tagged
<1>11. TagThen(d, need, strict, t)
         = Field(t, Value(DropFirst(d, t.n), need, t.v \div 8, t.v % 8))
  BY <1>9, Zenon DEF TagThen
<1>12. Tagged(d, need, strict) = Field(t, Value(body \o rest, need, tag \div 8, tag % 8))
  BY <1>7, <1>8, <1>10, <1>11
<1> QED BY <1>12 DEF t, d, w

\* A field is a tag and a value that was read.
LEMMA FieldRead ==
  ASSUME NEW m \in Nat, NEW n \in Nat \ {0}, NEW tag, NEW x, NEW t, NEW got,
         t = [n |-> m, v |-> tag], got = [n |-> n, v |-> x]
  PROVE  Field(t, got) = [n |-> m + n, v |-> [field |-> tag \div 8, is |-> x]]
<1>1. got.n = n /\ got.v = x /\ t.n = m /\ t.v = tag /\ ~(got.n = 0)
  OBVIOUS
<1>2. Field(t, got) = [n |-> t.n + got.n, v |-> [field |-> t.v \div 8, is |-> got.v]]
  BY <1>1, Zenon DEF Field
<1> QED BY <1>1, <1>2

\* A block is a tag and a body.
LEMMA BlockReads ==
  ASSUME NEW tag \in 0 .. MaxWord, NEW need, NEW strict \in BOOLEAN, NEW body \in Seq(Byte),
         strict /\ tag \div 8 \in DOMAIN need => tag % 8 = need[tag \div 8],
         body # << >>, NEW x,
         \A rest \in Seq(Byte) : Value(body \o rest, need, tag \div 8, tag % 8)
                                    = [n |-> Len(body), v |-> x]
  PROVE  Reads(writeVarint[tag] \o body, need, strict, tag \div 8, x)
<1> DEFINE t == writeVarint[tag]
           n == Len(body)
           k == tag \div 8
           block == t \o body
<1>1. IsVarint(t)
  BY VarintShape
<1>2. n \in Nat \ {0}
  OBVIOUS
<1>3. ASSUME NEW rest \in Seq(Byte)
      PROVE  Tagged(block \o rest, need, strict)
               = [n |-> Len(t) + n, v |-> [field |-> k, is |-> x]]
  <2> DEFINE tg == [n |-> Len(t), v |-> tag]
             got == [n |-> n, v |-> x]
  <2>1. Tagged(block \o rest, need, strict)
          = Field(tg, Value(body \o rest, need, tag \div 8, tag % 8))
    BY TagReads
  <2>2. Value(body \o rest, need, tag \div 8, tag % 8) = got
    OBVIOUS
  <2>3. tg = [n |-> Len(t), v |-> tag] /\ got = [n |-> n, v |-> x] /\ Len(t) \in Nat
    BY <1>1 DEF IsVarint
  <2> HIDE DEF tg, got, n, t, block
  <2>4. Field(tg, got) = [n |-> Len(t) + n, v |-> [field |-> tag \div 8, is |-> x]]
    BY <1>2, <2>3, FieldRead
  <2> QED BY <2>1, <2>2, <2>4
<1> HIDE DEF t, k
<1>4. block \in Seq(Byte) /\ block # << >> /\ Len(block) = Len(t) + n
  BY <1>1, <1>2 DEF IsVarint
<1> HIDE DEF block, n
<1>5. Reads(block, need, strict, k, x)
  BY <1>3, <1>4 DEF Reads
<1> QED BY <1>5 DEF block, t, k

\* tagVarint is read as the number of its field.
LEMMA TaggedVarint ==
  ASSUME NEW k \in 0 .. 10, NEW v \in 0 .. MaxWord, NEW need, NEW strict \in BOOLEAN,
         k \in DOMAIN need, need[k] = 0
  PROVE  Reads(tagVarint(k, v), need, strict, k, v)
<1> DEFINE tag == k * 8
           w == writeVarint[v]
           x == v
<1>1. tag \in 0 .. MaxWord /\ tag \div 8 = k /\ tag % 8 = 0
  BY CodecAssumption
<1>2. tagVarint(k, v) = writeVarint[tag] \o w
  BY DEF tagVarint
<1>3. IsVarint(w)
  BY VarintShape
<1>4. \A rest \in Seq(Byte) : readVarint(w \o rest) = [n |-> Len(w), v |-> x]
  BY VarintRoundTrip
<1> HIDE DEF w, x, tag
<1>5. w \in Seq(Byte) /\ w # << >>
  BY <1>3 DEF IsVarint
<1>6. \A rest \in Seq(Byte) : Value(w \o rest, need, tag \div 8, tag % 8)
                                  = [n |-> Len(w), v |-> x]
  BY <1>1, <1>4 DEF Value
<1>7. strict /\ tag \div 8 \in DOMAIN need => tag % 8 = need[tag \div 8]
  BY <1>1
<1>8. Reads(writeVarint[tag] \o w, need, strict, tag \div 8, x)
  BY <1>1, <1>5, <1>6, <1>7, BlockReads
<1> QED BY <1>1, <1>2, <1>8 DEF x

\* tagBytes is read as the bytes of its field.
LEMMA TaggedBytes ==
  ASSUME NEW k \in 0 .. 10, NEW p \in Seq(Byte), Len(p) <= MaxInt32,
         NEW need, NEW strict \in BOOLEAN, k \in DOMAIN need, need[k] = 2
  PROVE  Reads(tagBytes(k, p), need, strict, k, p)
<1> DEFINE tag == k * 8 + 2
           t == writeVarint[tag]
           w == writeVarint[Len(p)]
           body == w \o p
<1>1. tag \in 0 .. MaxWord /\ tag \div 8 = k /\ tag % 8 = 2
  BY CodecAssumption
<1>a. Len(p) \in 0 .. MaxWord /\ Len(p) \in Nat
  BY CodecAssumption
<1>2. IsVarint(w) /\ IsVarint(t)
  BY <1>1, <1>a, VarintShape
<1>3. tagBytes(k, p) = t \o w \o p
  BY DEF tagBytes
<1>4. \A rest \in Seq(Byte) :
         readBytes(w \o (p \o rest)) = [n |-> Len(w) + Len(p), v |-> p]
  BY ReadWrittenBytes
<1> HIDE DEF tag, w, t
<1>5. t \in Seq(Byte) /\ w \in Seq(Byte) /\ Len(w) \in Nat \ {0}
  BY <1>2 DEF IsVarint
<1>6. t \o w \o p = t \o body /\ \A rest \in Seq(Byte) : body \o rest = w \o (p \o rest)
  BY <1>5, BytesAssociative
<1>7. body \in Seq(Byte) /\ body # << >> /\ Len(body) = Len(w) + Len(p)
  BY <1>5, <1>a
<1> HIDE DEF body
<1>8. \A rest \in Seq(Byte) : Value(body \o rest, need, tag \div 8, tag % 8)
                                  = [n |-> Len(body), v |-> p]
  <2> TAKE rest \in Seq(Byte)
  <2>1. readBytes(body \o rest) = [n |-> Len(body), v |-> p]
    BY <1>4, <1>6, <1>7
  <2>2. Value(body \o rest, need, k, 2) = readBytes(body \o rest)
    BY DEF Value
  <2> QED BY <1>1, <2>1, <2>2
<1>9. strict /\ tag \div 8 \in DOMAIN need => tag % 8 = need[tag \div 8]
  BY <1>1
<1>10. Reads(writeVarint[tag] \o body, need, strict, tag \div 8, p)
  BY <1>1, <1>7, <1>8, <1>9, BlockReads
<1> QED BY <1>1, <1>3, <1>6, <1>10 DEF t

-----------------------------------------------------------------------------
(* Blocks of bytes one after the other                                     *)

IsFlatten(g, s) ==
    g[1] = s[1] /\ \A i \in 1 .. Len(s) - 1 : g[i + 1] = g[i] \o s[i + 1]

\* FlattenSeq goes through its sequences one by one.
LEMMA FlattenUnfolds ==
  ASSUME NEW s, Len(s) \in Nat, Len(s) # 0
  PROVE  \E g : IsFlatten(g, s) /\ FlattenSeq(s) = g[Len(s)]
<1> DEFINE n == Len(s)
           Body(g, i) == IF i = 1 THEN s[i] ELSE g[i - 1] \o s[i]
           Is(g, k) == g = [i \in 1 .. k |-> Body(g, i)]
           T == {k \in 0 .. n : \E g : Is(g, k)}
<1>0. FlattenSeq(s) = (CHOOSE g : Is(g, n))[n]
  BY DEF FlattenSeq
<1>a. n \in Nat /\ n # 0
  OBVIOUS
<1> HIDE DEF n
<1>q. ASSUME NEW i \in Nat, i > 0, NEW g, NEW h, \A j \in 1 .. i - 1 : g[j] = h[j]
      PROVE  Body(g, i) = Body(h, i)
  <2>1. i = 1 \/ i - 1 \in 1 .. i - 1
    BY <1>q
  <2> QED BY <2>1, <1>q
<1>1. 0 \in T
  <2>1. Is([i \in 1 .. 0 |-> 0], 0)
    OBVIOUS
  <2>2. 0 \in 0 .. n
    BY <1>a
  <2> HIDE DEF Is
  <2> QED BY <2>1, <2>2
<1>2. ASSUME NEW k \in 0 .. n - 1, k \in T PROVE k + 1 \in T
  <2>1. PICK g : Is(g, k)
    BY <1>2
  <2> DEFINE h == [i \in 1 .. k + 1 |-> IF i <= k THEN g[i] ELSE Body(g, k + 1)]
  <2> HIDE DEF Body
  <2>2. \A i \in 1 .. k : h[i] = g[i]
    BY <1>a
  <2>3. ASSUME NEW i \in 1 .. k + 1 PROVE h[i] = Body(h, i)
    <3>1. Body(h, i) = Body(g, i)
      <4>1. \A j \in 1 .. i - 1 : h[j] = g[j]
        BY <1>a, <2>2
      <4> QED BY <1>q, <4>1, <1>a
    <3>2. CASE i <= k
      BY <2>1, <2>2, <3>1, <3>2, <1>a
    <3>3. CASE i = k + 1
      BY <3>1, <3>3, <1>a
    <3> QED BY <3>2, <3>3, <1>a
  <2>4. Is(h, k + 1)
    BY <2>3
  <2>5. k + 1 \in 0 .. n
    BY <1>a
  <2> HIDE DEF Is, h
  <2> QED BY <2>4, <2>5
<1>3. n \in T
  <2> HIDE DEF T
  <2>1. \A k \in 0 .. n : k \in T
    BY <1>a, <1>1, <1>2, UpTo
  <2> QED BY <1>a, <2>1
<1>4. \E g : Is(g, n)
  BY <1>3
<1>6. Is(CHOOSE g : Is(g, n), n)
  BY <1>4
<1> HIDE DEF Is
<1>7. PICK g : Is(g, n) /\ FlattenSeq(s) = g[n]
  BY <1>0, <1>6
<1>8. \A i \in 1 .. n : g[i] = IF i = 1 THEN s[i] ELSE g[i - 1] \o s[i]
  BY <1>7 DEF Is
<1>9. g[1] = s[1]
  BY <1>8, <1>a
<1>10. ASSUME NEW i \in 1 .. n - 1 PROVE g[i + 1] = g[i] \o s[i + 1]
  <2>1. i + 1 \in 1 .. n /\ i + 1 # 1 /\ i + 1 - 1 = i
    BY <1>a
  <2> DEFINE m == i + 1
  <2>2. m \in 1 .. n /\ m # 1 /\ m - 1 = i
    BY <2>1
  <2> HIDE DEF m
  <2>3. g[m] = g[m - 1] \o s[m]
    BY <1>8, <2>2
  <2> QED BY <2>2, <2>3 DEF m
<1> QED BY <1>7, <1>9, <1>10 DEF n, IsFlatten

\* Nothing gives nothing.
LEMMA FlattenNone == FlattenSeq(<< >>) = << >>
BY DEF FlattenSeq

\* Blocks of bytes give bytes.
LEMMA FlattenBytes ==
  ASSUME NEW s \in Seq(Seq(Byte))
  PROVE  FlattenSeq(s) \in Seq(Byte)
<1> DEFINE n == Len(s)
<1>a. n \in Nat /\ \A i \in 1 .. n : s[i] \in Seq(Byte)
  OBVIOUS
<1>1. CASE n = 0
  <2>1. s = << >>
    BY <1>1
  <2>2. << >> \in Seq(Byte)
    OBVIOUS
  <2> QED BY <2>1, <2>2, FlattenNone
<1>2. CASE n # 0
  <2>1. PICK g : IsFlatten(g, s) /\ FlattenSeq(s) = g[n]
    BY <1>2, FlattenUnfolds
  <2>2. g[1] = s[1] /\ \A i \in 1 .. n - 1 : g[i + 1] = g[i] \o s[i + 1]
    BY <2>1 DEF IsFlatten
  <2> HIDE DEF n
  <2> DEFINE T == {k \in Nat : k = 0 \/ g[k] \in Seq(Byte)}
  <2>3. 0 \in T
    OBVIOUS
  <2>4. ASSUME NEW k \in 0 .. n - 1, k \in T PROVE k + 1 \in T
    <3>1. s[k + 1] \in Seq(Byte)
      BY <1>a
    <3>2. CASE k = 0
      BY <1>a, <2>2, <3>1, <3>2
    <3>3. CASE k # 0
      <4>1. g[k + 1] = g[k] \o s[k + 1]
        <5>1. k \in 1 .. n - 1
          BY <3>3
        <5> QED BY <2>2, <5>1
      <4>2. g[k] \in Seq(Byte)
        BY <2>4, <3>3
      <4>3. g[k + 1] \in Seq(Byte)
        BY <3>1, <4>1, <4>2
      <4> QED BY <4>3, <1>a
    <3> QED BY <3>2, <3>3
  <2> HIDE DEF T
  <2>a. \A k \in 0 .. n : k \in T
    BY <1>a, <2>3, <2>4, UpTo
  <2>5. n \in T
    BY <1>a, <2>a
  <2> QED BY <1>2, <2>1, <2>5 DEF T
<1> QED BY <1>1, <1>2

\* One block more.
LEMMA FlattenAppend ==
  ASSUME NEW s \in Seq(Seq(Byte)), NEW x \in Seq(Byte)
  PROVE  FlattenSeq(Append(s, x)) = FlattenSeq(s) \o x
<1> DEFINE n == Len(s)
           u == Append(s, x)
<1>a. /\ n \in Nat /\ Len(u) = n + 1 /\ u[n + 1] = x
      /\ \A i \in 1 .. n : u[i] = s[i]
  OBVIOUS
<1> HIDE DEF u
<1>1. PICK h : IsFlatten(h, u) /\ FlattenSeq(u) = h[n + 1]
  BY <1>a, FlattenUnfolds
<1>2. h[1] = u[1] /\ \A i \in 1 .. n : h[i + 1] = h[i] \o u[i + 1]
  <2>1. h[1] = u[1] /\ \A i \in 1 .. Len(u) - 1 : h[i + 1] = h[i] \o u[i + 1]
    BY <1>1 DEF IsFlatten
  <2>2. Len(u) - 1 = n
    BY <1>a
  <2> QED BY <2>1, <2>2, Zenon
<1>3. CASE n = 0
  <2>1. FlattenSeq(u) = x
    BY <1>a, <1>1, <1>2, <1>3
  <2>2. FlattenSeq(s) = << >>
    <3>1. s = << >>
      BY <1>3
    <3> QED BY <3>1, FlattenNone
  <2>3. << >> \o x = x
    BY ConcatEmptySeq
  <2> QED BY <2>1, <2>2, <2>3 DEF u
<1>4. CASE n # 0
  <2>1. PICK g : IsFlatten(g, s) /\ FlattenSeq(s) = g[n]
    BY <1>4, <1>a, FlattenUnfolds
  <2>2. g[1] = s[1] /\ \A i \in 1 .. n - 1 : g[i + 1] = g[i] \o s[i + 1]
    BY <2>1 DEF IsFlatten
  <2> HIDE DEF n
  <2> DEFINE T == {k \in Nat : k = 0 \/ g[k] = h[k]}
  <2>3. 0 \in T
    OBVIOUS
  <2>4. ASSUME NEW k \in 0 .. n - 1, k \in T PROVE k + 1 \in T
    <3>1. /\ s[k + 1] = u[k + 1] /\ k + 1 \in 1 .. n /\ k + 1 \in 1 .. n + 1 /\ k \in Nat
          /\ k + 1 - 1 = k /\ (k # 0 => k + 1 # 1)
      BY <1>a
    <3>2. CASE k = 0
      BY <1>2, <2>2, <3>1, <3>2
    <3>3. CASE k # 0
      <4>0. k \in 1 .. n - 1 /\ k \in 1 .. n
        BY <3>3, <1>a
      <4>1. g[k + 1] = g[k] \o s[k + 1] /\ h[k + 1] = h[k] \o u[k + 1]
        BY <1>2, <2>2, <4>0
      <4>2. g[k] = h[k]
        BY <2>4, <3>3
      <4>3. g[k + 1] = h[k + 1]
        BY <3>1, <4>1, <4>2
      <4> QED BY <4>3, <3>1
    <3> QED BY <3>2, <3>3
  <2> HIDE DEF T
  <2>a. \A k \in 0 .. n : k \in T
    BY <1>a, <2>3, <2>4, UpTo
  <2>5. n \in T
    BY <1>a, <2>a
  <2>6. g[n] = h[n]
    BY <1>4, <2>5 DEF T
  <2>b. n \in 1 .. n
    BY <1>4, <1>a
  <2>7. h[n + 1] = h[n] \o x
    BY <1>2, <1>a, <2>b
  <2> QED BY <1>1, <2>1, <2>6, <2>7 DEF u
<1> QED BY <1>3, <1>4

\* The first i + 1 blocks.
LEMMA FlattenPrefix ==
  ASSUME NEW s \in Seq(Seq(Byte)), NEW i \in 0 .. Len(s) - 1
  PROVE  FlattenSeq(SubSeq(s, 1, i + 1)) = FlattenSeq(SubSeq(s, 1, i)) \o s[i + 1]
<1> DEFINE t == SubSeq(s, 1, i)
           x == s[i + 1]
<1>1. t \in Seq(Seq(Byte)) /\ x \in Seq(Byte)
  OBVIOUS
<1>2. SubSeq(s, 1, i + 1) = Append(t, x)
  OBVIOUS
<1> HIDE DEF t, x
<1> QED BY <1>1, <1>2, FlattenAppend DEF t, x

-----------------------------------------------------------------------------
(* The loop over the fields                                                *)

IsAfter(after, d, need, strict, none) ==
    \A k \in 0 .. Len(d) :
       after[k] = IF k = 0 THEN [ok |-> TRUE, at |-> 0, f |-> none]
                  ELSE Turn(d, need, strict, after[k - 1])

\* readFields goes through its turns one by one.
LEMMA FieldsUnfold ==
  ASSUME NEW d \in Seq(Byte), NEW need, NEW strict, NEW none
  PROVE  \E after : /\ IsAfter(after, d, need, strict, none)
                    /\ readFields(d, need, strict, none) = after[Len(d)]
<1> DEFINE n == Len(d)
           Body(g, k) == IF k = 0 THEN [ok |-> TRUE, at |-> 0, f |-> none]
                         ELSE Turn(d, need, strict, g[k - 1])
           Is(g, k) == g = [i \in 0 .. k |-> Body(g, i)]
           T == {k \in 0 .. n : \E g : Is(g, k)}
<1>0. readFields(d, need, strict, none) = (CHOOSE g : Is(g, n))[n]
  BY DEF readFields
<1>a. n \in Nat
  OBVIOUS
<1> HIDE DEF n
<1>q. ASSUME NEW i \in Nat, NEW g, NEW h, \A j \in 0 .. i - 1 : g[j] = h[j]
      PROVE  Body(g, i) = Body(h, i)
  <2>1. i = 0 \/ i - 1 \in 0 .. i - 1
    BY <1>q
  <2> QED BY <2>1, <1>q
<1>1. 0 \in T
  <2>1. Is([i \in 0 .. 0 |-> [ok |-> TRUE, at |-> 0, f |-> none]], 0)
    OBVIOUS
  <2>2. 0 \in 0 .. n
    BY <1>a
  <2> HIDE DEF Is
  <2> QED BY <2>1, <2>2
<1>2. ASSUME NEW k \in 0 .. n - 1, k \in T PROVE k + 1 \in T
  <2>1. PICK g : Is(g, k)
    BY <1>2
  <2> DEFINE h == [i \in 0 .. k + 1 |-> IF i <= k THEN g[i] ELSE Body(g, k + 1)]
  <2> HIDE DEF Body
  <2>2. \A i \in 0 .. k : h[i] = g[i]
    BY <1>a
  <2>3. ASSUME NEW i \in 0 .. k + 1 PROVE h[i] = Body(h, i)
    <3>1. Body(h, i) = Body(g, i)
      <4>1. \A j \in 0 .. i - 1 : h[j] = g[j]
        BY <1>a, <2>2
      <4> QED BY <1>q, <4>1, <1>a
    <3>2. CASE i <= k
      BY <2>1, <2>2, <3>1, <3>2, <1>a
    <3>3. CASE i = k + 1
      BY <3>1, <3>3, <1>a
    <3> QED BY <3>2, <3>3, <1>a
  <2>4. Is(h, k + 1)
    BY <2>3
  <2>5. k + 1 \in 0 .. n
    BY <1>a
  <2> HIDE DEF Is, h
  <2> QED BY <2>4, <2>5
<1>3. n \in T
  <2> HIDE DEF T
  <2>1. \A k \in 0 .. n : k \in T
    BY <1>a, <1>1, <1>2, UpTo
  <2> QED BY <1>a, <2>1
<1>4. \E g : Is(g, n)
  BY <1>3
<1>6. Is(CHOOSE g : Is(g, n), n)
  BY <1>4
<1> HIDE DEF Is
<1>7. PICK g : Is(g, n) /\ readFields(d, need, strict, none) = g[n]
  BY <1>0, <1>6
<1>8. IsAfter(g, d, need, strict, none)
  BY <1>7 DEF Is, IsAfter, n
<1> QED BY <1>7, <1>8 DEF n

\* After an error, and at the end, nothing changes any more.
LEMMA LoopStays ==
  ASSUME NEW d \in Seq(Byte), NEW need, NEW strict, NEW none, NEW after,
         IsAfter(after, d, need, strict, none),
         NEW j \in 0 .. Len(d), ~after[j].ok \/ after[j].at = Len(d)
  PROVE  after[Len(d)] = after[j]
<1> DEFINE n == Len(d)
           T == {i \in Nat : after[j + i] = after[j]}
<1>a. n \in Nat /\ j \in Nat /\ n - j \in Nat
  OBVIOUS
<1>1. \A k \in 1 .. n : after[k] = Turn(d, need, strict, after[k - 1])
  BY DEF IsAfter
<1>2. Turn(d, need, strict, after[j]) = after[j]
  BY DEF Turn
<1> HIDE DEF n
<1>3. 0 \in T
  BY <1>a
<1>4. ASSUME NEW i \in 0 .. n - j - 1, i \in T PROVE i + 1 \in T
  <2>1. j + (i + 1) \in 1 .. n /\ j + (i + 1) - 1 = j + i
    BY <1>a
  <2>2. after[j + (i + 1)] = Turn(d, need, strict, after[j + i])
    BY <1>1, <2>1
  <2> QED BY <1>2, <1>4, <2>2
<1> HIDE DEF T
<1>b. \A i \in 0 .. n - j : i \in T
  BY <1>a, <1>3, <1>4, UpTo
<1>5. n - j \in T
  BY <1>a, <1>b
<1>6. j + (n - j) = n
  BY <1>a
<1> QED BY <1>5, <1>6 DEF T, n

\* A turn that reads a block.
LEMMA LoopReads ==
  ASSUME NEW p \in Seq(Byte), NEW block, NEW rest \in Seq(Byte), NEW need, NEW strict,
         NEW k, NEW x, Reads(block, need, strict, k, x), NEW f, ~Refused(f, k, x)
  PROVE  Turn(p \o (block \o rest), need, strict, [ok |-> TRUE, at |-> Len(p), f |-> f])
            = [ok |-> TRUE, at |-> Len(p) + Len(block), f |-> Put(f, k, x)]
<1> DEFINE d == p \o (block \o rest)
           s == [ok |-> TRUE, at |-> Len(p), f |-> f]
           got == [n |-> Len(block), v |-> [field |-> k, is |-> x]]
<1>1. block \in Seq(Byte) /\ block # << >> /\ Tagged(block \o rest, need, strict) = got
  BY DEF Reads
<1>2. block \o rest \in Seq(Byte) /\ Len(block) \in Nat /\ Len(block) # 0
  BY <1>1
<1>3. Len(d) = Len(p) + Len(block) + Len(rest) /\ Len(rest) \in Nat /\ Len(p) \in Nat
  BY <1>1
<1>4. DropFirst(d, Len(p)) = block \o rest
  BY <1>2, DropConcat
<1> HIDE DEF d
<1>5. s.ok /\ s.at = Len(p) /\ s.f = f
  OBVIOUS
<1>6. got.n = Len(block) /\ got.v.field = k /\ got.v.is = x
  OBVIOUS
<1> HIDE DEF s, got
<1>7. Turn(d, need, strict, s) = Took(s, got)
  <2>1. ~(~s.ok \/ s.at = Len(d))
    BY <1>2, <1>3, <1>5
  <2>2. Turn(d, need, strict, s) = Took(s, Tagged(DropFirst(d, s.at), need, strict))
    BY <2>1, Zenon DEF Turn
  <2> QED BY <1>1, <1>4, <1>5, <2>2
<1>8. Took(s, got) = [ok |-> TRUE, at |-> s.at + got.n, f |-> Put(s.f, got.v.field, got.v.is)]
  <2>1. ~(got.n = 0 \/ Refused(s.f, got.v.field, got.v.is))
    BY <1>2, <1>5, <1>6
  <2> QED BY <2>1, Zenon DEF Took
<1>9. Turn(d, need, strict, s) = [ok |-> TRUE, at |-> Len(p) + Len(block), f |-> Put(f, k, x)]
  BY <1>5, <1>6, <1>7, <1>8
<1> QED BY <1>9 DEF d, s

\* A turn that finds no field.
LEMMA LoopBreaks ==
  ASSUME NEW p \in Seq(Byte), NEW rest \in Seq(Byte), rest # << >>, NEW need, NEW strict,
         Tagged(rest, need, strict) = Bad, NEW f
  PROVE  Turn(p \o rest, need, strict, [ok |-> TRUE, at |-> Len(p), f |-> f]) = Broken
<1> DEFINE d == p \o rest
           s == [ok |-> TRUE, at |-> Len(p), f |-> f]
<1>1. Len(d) = Len(p) + Len(rest) /\ Len(rest) \in Nat /\ Len(p) \in Nat /\ Len(rest) # 0
  OBVIOUS
<1>2. DropFirst(d, Len(p)) = rest
  BY DropConcat
<1> HIDE DEF d
<1>3. s.ok /\ s.at = Len(p)
  OBVIOUS
<1> HIDE DEF s
<1>4. ~(~s.ok \/ s.at = Len(d))
  BY <1>1, <1>3
<1>5. Turn(d, need, strict, s) = Took(s, Tagged(DropFirst(d, s.at), need, strict))
  BY <1>4, Zenon DEF Turn
<1>6. Took(s, Bad) = Broken
  BY DEF Took, Bad
<1> QED BY <1>2, <1>3, <1>5, <1>6 DEF d, s

\* The i-th block is a field that takes the state st[i - 1] to st[i].
Reading(C, st, need, strict) ==
    /\ C \in Seq(Seq(Byte))
    /\ \A i \in 1 .. Len(C) :
          \E k, x : /\ Reads(C[i], need, strict, k, x)
                    /\ ~Refused(st[i - 1], k, x)
                    /\ st[i] = Put(st[i - 1], k, x)

\* By induction over the blocks: some turn has read them all and nothing else.
LEMMA LoopRuns ==
  ASSUME NEW C, NEW st, NEW need, NEW strict, Reading(C, st, need, strict),
         NEW rest \in Seq(Byte), NEW after,
         IsAfter(after, FlattenSeq(C) \o rest, need, strict, st[0])
  PROVE  \E j \in 0 .. Len(FlattenSeq(C)) :
            after[j] = [ok |-> TRUE, at |-> Len(FlattenSeq(C)), f |-> st[Len(C)]]
<1> DEFINE d == FlattenSeq(C) \o rest
           F(i) == FlattenSeq(SubSeq(C, 1, i))
           n == Len(C)
<1>a. C \in Seq(Seq(Byte)) /\ n \in Nat /\ \A i \in 1 .. n : C[i] \in Seq(Byte)
  BY DEF Reading
<1>b. \A i \in 0 .. n : F(i) \in Seq(Byte)
  <2>1. \A i \in 0 .. n : SubSeq(C, 1, i) \in Seq(Seq(Byte))
    BY <1>a
  <2> QED BY <2>1, FlattenBytes
<1>c. \A i \in 0 .. n - 1 : F(i + 1) = F(i) \o C[i + 1]
  BY <1>a, FlattenPrefix
<1>d. F(0) = << >> /\ F(n) = FlattenSeq(C)
  <2>1. SubSeq(C, 1, 0) = << >> /\ SubSeq(C, 1, n) = C
    BY <1>a
  <2> QED BY <2>1, FlattenNone
<1>e. \A i \in 1 .. n : \E k, x : /\ Reads(C[i], need, strict, k, x)
                                  /\ ~Refused(st[i - 1], k, x)
                                  /\ st[i] = Put(st[i - 1], k, x)
  BY DEF Reading
<1>f. d = F(n) \o rest /\ d \in Seq(Byte)
  BY <1>a, <1>b, <1>d
<1>g. /\ after[0] = [ok |-> TRUE, at |-> 0, f |-> st[0]]
      /\ \A k \in 1 .. Len(d) : after[k] = Turn(d, need, strict, after[k - 1])
  <2>1. 0 \in 0 .. Len(d) /\ \A k \in 1 .. Len(d) : k \in 0 .. Len(d) /\ k # 0
    BY <1>f
  <2>2. IsAfter(after, d, need, strict, st[0])
    OBVIOUS
  <2> HIDE DEF d
  <2>3. \A k \in 0 .. Len(d) :
           after[k] = IF k = 0 THEN [ok |-> TRUE, at |-> 0, f |-> st[0]]
                      ELSE Turn(d, need, strict, after[k - 1])
    BY <2>2 DEF IsAfter
  <2>4. after[0] = [ok |-> TRUE, at |-> 0, f |-> st[0]]
    BY <2>1, <2>3
  <2>5. \A k \in 1 .. Len(d) : after[k] = Turn(d, need, strict, after[k - 1])
    BY <2>1, <2>3
  <2> QED BY <2>4, <2>5
<1> HIDE DEF F, n, d
<1>1. \A i \in 0 .. n : \E r \in Seq(Byte) : d = F(i) \o r
  <2> DEFINE Rest(i) == \E r \in Seq(Byte) : d = F(i) \o r
             T == {j \in Nat : Rest(n - j)}
  <2>1. 0 \in T
    <3>1. n - 0 = n
      BY <1>a
    <3> QED BY <3>1, <1>f
  <2>2. ASSUME NEW j \in 0 .. n - 1, j \in T PROVE j + 1 \in T
    <3>1. PICK r \in Seq(Byte) : d = F(n - j) \o r
      BY <2>2
    <3> DEFINE i == n - (j + 1)
               a == F(i)
               b == C[i + 1]
    <3>2. i \in 0 .. n - 1 /\ n - j = i + 1 /\ i \in 0 .. n /\ i + 1 \in 1 .. n
      BY <1>a
    <3> HIDE DEF i
    <3>3. F(i + 1) = a \o b
      BY <1>c, <3>2
    <3>4. a \in Seq(Byte) /\ b \in Seq(Byte)
      BY <1>a, <1>b, <3>2
    <3>5. d = F(i + 1) \o r
      BY <3>1, <3>2
    <3> HIDE DEF a, b
    <3>a. d = (a \o b) \o r
      BY <3>3, <3>5, Zenon
    <3>b. (a \o b) \o r = a \o (b \o r)
      BY <3>4, BytesAssociative
    <3>c. b \o r \in Seq(Byte)
      BY <3>4
    <3>6. b \o r \in Seq(Byte) /\ d = a \o (b \o r)
      BY <3>a, <3>b, <3>c, Zenon
    <3>7. Rest(i)
      BY <3>6 DEF a
    <3>8. j + 1 \in Nat
      BY <1>a
    <3> HIDE DEF Rest
    <3> QED BY <3>7, <3>8 DEF i
  <2> HIDE DEF T
  <2>3. \A j \in 0 .. n : j \in T
    BY <1>a, <2>1, <2>2, UpTo
  <2>4. ASSUME NEW i \in 0 .. n PROVE \E r \in Seq(Byte) : d = F(i) \o r
    <3>1. n - i \in 0 .. n /\ n - (n - i) = i
      BY <1>a
    <3>2. n - i \in T
      BY <2>3, <3>1
    <3>3. \E r \in Seq(Byte) : d = F(n - (n - i)) \o r
      BY <3>2 DEF T
    <3> QED BY <3>1, <3>3
  <2> QED BY <2>4
<1> DEFINE State(i) == [ok |-> TRUE, at |-> Len(F(i)), f |-> st[i]]
           T == {i \in Nat : \E j \in 0 .. Len(F(i)) : after[j] = State(i)}
<1>2. 0 \in T
  <2>1. Len(F(0)) = 0
    BY <1>d
  <2>2. after[0] = State(0)
    BY <1>g, <2>1
  <2>3. 0 \in 0 .. Len(F(0))
    BY <2>1
  <2> HIDE DEF State
  <2> QED BY <2>2, <2>3
<1>3. ASSUME NEW i \in 0 .. n - 1, i \in T PROVE i + 1 \in T
  <2>1. PICK j \in 0 .. Len(F(i)) : after[j] = State(i)
    BY <1>3
  <2>2. i \in 0 .. n /\ i + 1 \in 1 .. n /\ i + 1 \in 0 .. n /\ i + 1 \in Nat /\ i + 1 - 1 = i
    BY <1>a
  <2>3. PICK k, x : /\ Reads(C[i + 1], need, strict, k, x)
                    /\ ~Refused(st[i], k, x)
                    /\ st[i + 1] = Put(st[i], k, x)
    BY <1>e, <2>2
  <2>4. PICK r \in Seq(Byte) : d = F(i + 1) \o r
    BY <1>1, <2>2
  <2>5. F(i) \in Seq(Byte) /\ C[i + 1] \in Seq(Byte) /\ F(i + 1) = F(i) \o C[i + 1]
    BY <1>a, <1>b, <1>c, <2>2
  <2>6. d = F(i) \o (C[i + 1] \o r)
    <3> DEFINE a == F(i)
               b == C[i + 1]
    <3>1. a \in Seq(Byte) /\ b \in Seq(Byte) /\ d = (a \o b) \o r
      BY <2>4, <2>5
    <3> HIDE DEF a, b
    <3>2. d = a \o (b \o r)
      BY <3>1, BytesAssociative
    <3> QED BY <3>2 DEF a, b
  <2>7. Turn(d, need, strict, State(i))
          = [ok |-> TRUE, at |-> Len(F(i)) + Len(C[i + 1]), f |-> st[i + 1]]
    <3> DEFINE p == F(i)
               block == C[i + 1]
               f == st[i]
    <3>1. /\ p \in Seq(Byte) /\ Reads(block, need, strict, k, x) /\ ~Refused(f, k, x)
          /\ st[i + 1] = Put(f, k, x) /\ d = p \o (block \o r)
      BY <2>3, <2>5, <2>6
    <3> HIDE DEF p, block, f
    <3>2. Turn(p \o (block \o r), need, strict, [ok |-> TRUE, at |-> Len(p), f |-> f])
            = [ok |-> TRUE, at |-> Len(p) + Len(block), f |-> Put(f, k, x)]
      BY <3>1, LoopReads
    <3> QED BY <3>1, <3>2 DEF p, block, f
  <2>8. Len(F(i + 1)) = Len(F(i)) + Len(C[i + 1]) /\ Len(C[i + 1]) \in Nat /\ Len(F(i)) \in Nat
    BY <2>5
  <2>9. Len(C[i + 1]) # 0
    BY <2>3, <2>5 DEF Reads
  <2>10. Len(d) = Len(F(i + 1)) + Len(r) /\ Len(r) \in Nat
    BY <2>4, <2>5
  <2>11. j + 1 \in 1 .. Len(d) /\ j + 1 \in 0 .. Len(F(i + 1)) /\ j + 1 - 1 = j
    BY <2>8, <2>9, <2>10
  <2>12. after[j + 1] = Turn(d, need, strict, State(i))
    BY <1>g, <2>1, <2>11
  <2>13. after[j + 1] = State(i + 1)
    BY <2>7, <2>8, <2>12
  <2> HIDE DEF State
  <2> QED BY <2>2, <2>11, <2>13
<1> HIDE DEF T
<1>z. \A i \in 0 .. n : i \in T
  BY <1>a, <1>2, <1>3, UpTo
<1>4. n \in T
  BY <1>a, <1>z
<1> QED BY <1>4, <1>d DEF T, n

\* Blocks alone are read as the last state.
LEMMA BlocksRead ==
  ASSUME NEW C, NEW st, NEW need, NEW strict, Reading(C, st, need, strict)
  PROVE  readFields(FlattenSeq(C), need, strict, st[0])
            = [ok |-> TRUE, at |-> Len(FlattenSeq(C)), f |-> st[Len(C)]]
<1> DEFINE d == FlattenSeq(C)
<1>1. d \in Seq(Byte) /\ << >> \in Seq(Byte) /\ Len(d) \in Nat
  BY FlattenBytes DEF Reading
<1>2. d \o << >> = d
  BY <1>1, ConcatEmptySeq
<1>b. C \in Seq(Seq(Byte))
  BY DEF Reading
<1>c. \A rest \in Seq(Byte) : \A after :
         IsAfter(after, d \o rest, need, strict, st[0])
            => \E j \in 0 .. Len(d) :
                  after[j] = [ok |-> TRUE, at |-> Len(d), f |-> st[Len(C)]]
  BY LoopRuns
<1> HIDE DEF d
<1>3. PICK after : /\ IsAfter(after, d, need, strict, st[0])
                   /\ readFields(d, need, strict, st[0]) = after[Len(d)]
  BY <1>1, FieldsUnfold
<1>4. PICK j \in 0 .. Len(d) :
              after[j] = [ok |-> TRUE, at |-> Len(d), f |-> st[Len(C)]]
  BY <1>1, <1>2, <1>3, <1>c
<1>5. after[j].at = Len(d)
  BY <1>4
<1>6. after[Len(d)] = after[j]
  BY <1>1, <1>3, <1>5, LoopStays
<1> QED BY <1>3, <1>4, <1>6 DEF d

\* Blocks and something that is no field after them are refused.
LEMMA BlocksBreak ==
  ASSUME NEW C, NEW st, NEW need, NEW strict, Reading(C, st, need, strict),
         NEW rest \in Seq(Byte), rest # << >>, Tagged(rest, need, strict) = Bad
  PROVE  readFields(FlattenSeq(C) \o rest, need, strict, st[0]) = Broken
<1> DEFINE p == FlattenSeq(C)
           d == p \o rest
<1>1. p \in Seq(Byte)
  BY FlattenBytes DEF Reading
<1>2. d \in Seq(Byte) /\ Len(d) = Len(p) + Len(rest) /\ Len(p) \in Nat /\ Len(rest) \in Nat \ {0}
  BY <1>1
<1>3. PICK after : /\ IsAfter(after, d, need, strict, st[0])
                   /\ readFields(d, need, strict, st[0]) = after[Len(d)]
  BY <1>2, FieldsUnfold
<1>4. PICK j \in 0 .. Len(p) :
              after[j] = [ok |-> TRUE, at |-> Len(p), f |-> st[Len(C)]]
  <2> HIDE DEF p
  <2>1. \A a : IsAfter(a, p \o rest, need, strict, st[0])
            => \E j \in 0 .. Len(p) :
                  a[j] = [ok |-> TRUE, at |-> Len(p), f |-> st[Len(C)]]
    BY LoopRuns DEF p
  <2> QED BY <1>3, <2>1
<1>5. Turn(d, need, strict, after[j]) = Broken
  BY <1>1, <1>4, LoopBreaks
<1> HIDE DEF d, p
<1>6. j + 1 \in 0 .. Len(d) /\ j + 1 # 0 /\ j + 1 - 1 = j
  BY <1>2
<1>7. after[j + 1] = Broken
  BY <1>3, <1>5, <1>6 DEF IsAfter
<1>8. ~after[j + 1].ok
  BY <1>7 DEF Broken
<1>9. PICK i \in 0 .. Len(d) : after[i] = Broken /\ ~after[i].ok
  BY <1>6, <1>7, <1>8
<1>10. after[Len(d)] = after[i]
  <2>1. IsAfter(after, d, need, strict, st[0]) /\ d \in Seq(Byte)
    BY <1>2, <1>3
  <2>2. \A k \in 0 .. Len(d) :
           ~after[k].ok \/ after[k].at = Len(d) => after[Len(d)] = after[k]
    BY <2>1, LoopStays
  <2> QED BY <1>9, <2>2
<1> QED BY <1>3, <1>9, <1>10 DEF d, p

-----------------------------------------------------------------------------
(* A header                                                                *)

\* unmarshalHeader reads what marshalHeader writes.
LEMMA HeaderRead ==
  ASSUME NEW h, IsHeader(h)
  PROVE  /\ marshalHeader(h) \in Seq(Byte) /\ Len(marshalHeader(h)) <= MaxInt32
         /\ \E e : unmarshalHeader(marshalHeader(h)) = [ok |-> TRUE, at |-> e, f |-> h]
<1> DEFINE b1 == tagBytes(1, h[1])
           b2 == tagBytes(2, h[2])
           C == << b1, b2 >>
           mid == << h[1], << >> >>
           st == [i \in 0 .. 2 |-> IF i = 0 THEN NoHeader ELSE IF i = 1 THEN mid ELSE h]
<1>a. /\ h = << h[1], h[2] >> /\ h[1] \in Seq(Byte) /\ h[2] \in Seq(Byte)
      /\ Len(h[1]) <= MaxInt32 /\ Len(h[2]) <= MaxInt32
      /\ Len(marshalHeader(h)) <= MaxInt32
  BY DEF IsHeader, IsText
<1>b. /\ DOMAIN HeaderWire = 1 .. 2 /\ HeaderWire[1] = 2 /\ HeaderWire[2] = 2
      /\ NoHeader = << << >>, << >> >>
  BY DEF HeaderWire, NoHeader
<1>c. /\ 1 \in 0 .. 10 /\ 2 \in 0 .. 10 /\ FALSE \in BOOLEAN
      /\ 1 \in DOMAIN HeaderWire /\ 2 \in DOMAIN HeaderWire
  BY <1>b
<1>1. Reads(b1, HeaderWire, FALSE, 1, h[1])
  BY <1>a, <1>b, <1>c, TaggedBytes, Zenon
<1>2. Reads(b2, HeaderWire, FALSE, 2, h[2])
  BY <1>a, <1>b, <1>c, TaggedBytes, Zenon
<1>3. marshalHeader(h) = b1 \o b2
  BY DEF marshalHeader
<1> HIDE DEF b1, b2
<1>4. b1 \in Seq(Byte) /\ b2 \in Seq(Byte)
  BY <1>1, <1>2 DEF Reads
<1>5. ~Refused(NoHeader, 1, h[1]) /\ ~Refused(mid, 2, h[2])
  BY <1>b DEF Refused
<1>6. Put(NoHeader, 1, h[1]) = mid
  <2>1. 1 \in DOMAIN NoHeader /\ [NoHeader EXCEPT ![1] = h[1]] = mid
    BY <1>b
  <2> QED BY <2>1 DEF Put
<1>7. Put(mid, 2, h[2]) = h
  <2>1. 2 \in DOMAIN mid /\ [mid EXCEPT ![2] = h[2]] = << h[1], h[2] >>
    OBVIOUS
  <2> HIDE DEF mid
  <2>2. Put(mid, 2, h[2]) = [mid EXCEPT ![2] = h[2]]
    BY <2>1 DEF Put
  <2> QED BY <1>a, <2>1, <2>2
<1> HIDE DEF mid
<1>8. st[0] = NoHeader /\ st[1] = mid /\ st[2] = h
  OBVIOUS
<1>9. C \in Seq(Seq(Byte)) /\ Len(C) = 2 /\ C[1] = b1 /\ C[2] = b2
  BY <1>4
<1>10. FlattenSeq(C) = marshalHeader(h)
  <2>1. << >> \in Seq(Seq(Byte)) /\ << >> \in Seq(Byte)
    OBVIOUS
  <2>2. FlattenSeq(Append(<< >>, b1)) = b1
    <3>1. FlattenSeq(Append(<< >>, b1)) = FlattenSeq(<< >>) \o b1
      BY <1>4, <2>1, FlattenAppend
    <3>2. << >> \o b1 = b1
      BY <1>4, ConcatEmptySeq
    <3> QED BY <3>1, <3>2, FlattenNone
  <2>3. Append(<< >>, b1) \in Seq(Seq(Byte)) /\ C = Append(Append(<< >>, b1), b2)
    BY <1>4
  <2>4. FlattenSeq(Append(Append(<< >>, b1), b2)) = FlattenSeq(Append(<< >>, b1)) \o b2
    BY <1>4, <2>3, FlattenAppend
  <2> QED BY <1>3, <2>2, <2>3, <2>4
<1> HIDE DEF C, st
<1>11. Reading(C, st, HeaderWire, FALSE)
  <2>1. ASSUME NEW i \in 1 .. Len(C)
        PROVE  \E k, x : /\ Reads(C[i], HeaderWire, FALSE, k, x)
                         /\ ~Refused(st[i - 1], k, x)
                         /\ st[i] = Put(st[i - 1], k, x)
    <3>1. CASE i = 1
      <4>1. i - 1 = 0
        BY <3>1
      <4> QED BY <1>1, <1>5, <1>6, <1>8, <1>9, <3>1, <4>1
    <3>2. CASE i = 2
      <4>1. i - 1 = 1
        BY <3>2
      <4> QED BY <1>2, <1>5, <1>7, <1>8, <1>9, <3>2, <4>1
    <3>3. i = 1 \/ i = 2
      BY <1>9
    <3> QED BY <3>1, <3>2, <3>3
  <2> QED BY <1>9, <2>1 DEF Reading
<1>12. readFields(FlattenSeq(C), HeaderWire, FALSE, st[0])
         = [ok |-> TRUE, at |-> Len(FlattenSeq(C)), f |-> st[Len(C)]]
  BY <1>11, BlocksRead
<1>13. unmarshalHeader(marshalHeader(h))
         = [ok |-> TRUE, at |-> Len(marshalHeader(h)), f |-> h]
  BY <1>8, <1>9, <1>10, <1>12 DEF unmarshalHeader
<1>14. marshalHeader(h) \in Seq(Byte)
  BY <1>3, <1>4
<1> QED BY <1>a, <1>13, <1>14

-----------------------------------------------------------------------------
(* A frame                                                                 *)

\* The frames that Marshal can write so that they fit the limits.
IsFrame(f) ==
    /\ f = << f[1], f[2], f[3], f[4], f[5], f[6], f[7], f[8], f[9] >>
    /\ f[1] \in 0 .. MaxWord /\ f[2] \in 0 .. MaxWord
    /\ f[3] \in 0 .. MaxInt32 /\ f[4] \in 0 .. MaxInt32
    /\ IsHeaderList(f[5])
    /\ IsText(f[6]) /\ IsText(f[7]) /\ (f[8] = Nil \/ IsText(f[8])) /\ IsText(f[9])

\* Its headers on the wire.
Encoded(f) == [i \in 1 .. Len(f[5]) |-> marshalHeader(f[5][i])]

\* Its blocks: four numbers, n headers, three texts and q payloads.
Payloads(f) == IF f[8] = Nil THEN 0 ELSE 1
BlockCount(f) == 7 + Len(f[5]) + Payloads(f)

\* What has been read after i blocks.
HeadersRead(f, i) == SubSeq(Encoded(f), 1, IF i < 4 THEN 0
                                           ELSE IF i - 4 > Len(f[5]) THEN Len(f[5]) ELSE i - 4)
ReadSoFar(f, i) ==
    << IF i >= 1 THEN f[1] ELSE 0, IF i >= 2 THEN f[2] ELSE 0,
       IF i >= 3 THEN f[3] ELSE 0, IF i >= 4 THEN f[4] ELSE 0,
       HeadersRead(f, i),
       IF i >= 5 + Len(f[5]) THEN f[6] ELSE << >>,
       IF i >= 6 + Len(f[5]) THEN f[7] ELSE << >>,
       IF i >= 7 + Len(f[5]) THEN NilIfEmpty(f[8]) ELSE Nil,
       IF i >= BlockCount(f) THEN f[9] ELSE << >> >>

\* The headers of a frame on the wire are within the limits and read back.
LEMMA HeadersEncoded ==
  ASSUME NEW f, IsFrame(f)
  PROVE  /\ Len(f[5]) \in 0 .. MaxHeaders
         /\ Encoded(f) \in Seq(Seq(Byte)) /\ Len(Encoded(f)) = Len(f[5])
         /\ \A i \in 1 .. Len(f[5]) :
               /\ Encoded(f)[i] = marshalHeader(f[5][i])
               /\ Len(Encoded(f)[i]) <= MaxInt32
               /\ \E e : unmarshalHeader(Encoded(f)[i])
                             = [ok |-> TRUE, at |-> e, f |-> f[5][i]]
<1> DEFINE hs == f[5]
           n == Len(hs)
           m(i) == marshalHeader(hs[i])
<1>1. n \in 0 .. MaxHeaders /\ n \in Nat /\ \A i \in 1 .. n : IsHeader(hs[i])
  BY CodecAssumption DEF IsFrame, IsHeaderList
<1>2. \A i \in 1 .. n : /\ m(i) \in Seq(Byte) /\ Len(m(i)) <= MaxInt32
                        /\ \E e : unmarshalHeader(m(i)) = [ok |-> TRUE, at |-> e, f |-> hs[i]]
  BY <1>1, HeaderRead
<1>3. Encoded(f) = [i \in 1 .. n |-> m(i)]
  BY DEF Encoded
<1> HIDE DEF hs, n, m
<1>4. Encoded(f) \in Seq(Seq(Byte)) /\ Len(Encoded(f)) = n
  BY <1>1, <1>2, <1>3
<1>5. \A i \in 1 .. n : Encoded(f)[i] = m(i)
  BY <1>3
<1>6. \A i \in 1 .. n : /\ Len(Encoded(f)[i]) <= MaxInt32
                        /\ \E e : unmarshalHeader(Encoded(f)[i])
                                      = [ok |-> TRUE, at |-> e, f |-> hs[i]]
  BY <1>2, <1>5
<1> QED BY <1>1, <1>4, <1>5, <1>6 DEF hs, n, m

\* The elements of two sequences in a row.
LEMMA Joined ==
  ASSUME NEW U, NEW s \in Seq(U), NEW t \in Seq(U)
  PROVE  /\ s \o t \in Seq(U) /\ Len(s \o t) = Len(s) + Len(t)
         /\ \A i \in 1 .. Len(s) : (s \o t)[i] = s[i]
         /\ \A i \in 1 .. Len(t) : (s \o t)[Len(s) + i] = t[i]
OBVIOUS

\* The blocks of Marshal, by their position.
LEMMA FrameBlocks ==
  ASSUME NEW f, IsFrame(f)
  PROVE  LET M == MarshalFields(f)
             n == Len(f[5])
         IN  /\ n \in Nat /\ Payloads(f) \in 0 .. 1 /\ DOMAIN M = 1 .. Len(M)
             /\ Len(M) = BlockCount(f)
             /\ \A i \in 1 .. 4 : M[i] = tagVarint(i, f[i])
             /\ \A i \in 1 .. n : M[4 + i] = tagBytes(5, Encoded(f)[i])
             /\ M[5 + n] = tagBytes(6, f[6]) /\ M[6 + n] = tagBytes(7, f[7])
             /\ Payloads(f) = 1 => M[7 + n] = tagBytes(8, f[8])
             /\ M[BlockCount(f)] = tagBytes(9, f[9])
<1>0. Len(f[5]) \in Nat /\ \A i \in 1 .. Len(f[5]) : Encoded(f)[i] = marshalHeader(f[5][i])
  <2>1. /\ Len(f[5]) \in 0 .. MaxHeaders
        /\ \A i \in 1 .. Len(f[5]) : Encoded(f)[i] = marshalHeader(f[5][i])
    BY HeadersEncoded
  <2>2. Len(f[5]) \in Nat
    BY <2>1, CodecAssumption
  <2> QED BY <2>1, <2>2
<1> DEFINE M == MarshalFields(f)
           n == Len(f[5])
           A == [k \in 1 .. 4 |-> tagVarint(k, f[k])]
           H == [i \in 1 .. n |-> tagBytes(5, marshalHeader(f[5][i]))]
           B == << tagBytes(6, f[6]), tagBytes(7, f[7]) >>
           P == IF f[8] = Nil THEN << >> ELSE << tagBytes(8, f[8]) >>
           L == << tagBytes(9, f[9]) >>
           q == Payloads(f)
           U == UNION {{A[k] : k \in 1 .. 4}, {H[i] : i \in 1 .. n},
                       {tagBytes(6, f[6]), tagBytes(7, f[7]), tagBytes(8, f[8]), tagBytes(9, f[9])}}
<1>1. M = A \o H \o B \o P \o L
  BY DEF MarshalFields
<1>2. n \in Nat /\ \A i \in 1 .. n : Encoded(f)[i] = marshalHeader(f[5][i])
  BY <1>0
<1>3. \A i \in 1 .. n : H[i] = tagBytes(5, Encoded(f)[i])
  BY <1>2
<1>4. A \in Seq(U) /\ Len(A) = 4 /\ \A i \in 1 .. 4 : A[i] = tagVarint(i, f[i])
  OBVIOUS
<1>5. H \in Seq(U) /\ Len(H) = n
  BY <1>2
<1>6. B \in Seq(U) /\ Len(B) = 2 /\ B[1] = tagBytes(6, f[6]) /\ B[2] = tagBytes(7, f[7])
  OBVIOUS
<1>7. q \in 0 .. 1 /\ P \in Seq(U) /\ Len(P) = q /\ (q = 1 => P[1] = tagBytes(8, f[8]))
  <2>1. tagBytes(8, f[8]) \in U
    OBVIOUS
  <2> HIDE DEF U
  <2>2. CASE f[8] = Nil
    BY <2>2 DEF Payloads
  <2>3. CASE f[8] # Nil
    BY <2>1, <2>3 DEF Payloads
  <2> QED BY <2>2, <2>3
<1>8. L \in Seq(U) /\ Len(L) = 1 /\ L[1] = tagBytes(9, f[9])
  OBVIOUS
<1> HIDE DEF U, A, H, B, P, L, q, n, M
<1> DEFINE AH == A \o H
           AHB == AH \o B
           AHBP == AHB \o P
<1>10. AH \in Seq(U) /\ Len(AH) = 4 + n
       /\ (\A i \in 1 .. 4 : AH[i] = A[i]) /\ (\A i \in 1 .. n : AH[4 + i] = H[i])
  <2> HIDE DEF AH
  <2>1. /\ A \o H \in Seq(U) /\ Len(A \o H) = Len(A) + Len(H)
        /\ \A i \in 1 .. Len(A) : (A \o H)[i] = A[i]
        /\ \A i \in 1 .. Len(H) : (A \o H)[Len(A) + i] = H[i]
    <3>1. A \in Seq(U) /\ H \in Seq(U)
      BY <1>4, <1>5
    <3> QED BY <3>1, Joined
  <2>2. Len(A) = 4 /\ Len(H) = n /\ AH = A \o H
    BY <1>4, <1>5 DEF AH
  <2> QED BY <2>1, <2>2, Zenon
<1> HIDE DEF AH
<1>11. AHB \in Seq(U) /\ Len(AHB) = 6 + n /\ (\A i \in 1 .. 4 + n : AHB[i] = AH[i])
       /\ AHB[5 + n] = B[1] /\ AHB[6 + n] = B[2]
  <2>1. AHB \in Seq(U) /\ Len(AHB) = 6 + n /\ (\A i \in 1 .. 4 + n : AHB[i] = AH[i])
        /\ \A i \in 1 .. 2 : AHB[4 + n + i] = B[i]
    <3> HIDE DEF AHB
    <3>1. /\ AH \o B \in Seq(U) /\ Len(AH \o B) = Len(AH) + Len(B)
          /\ \A i \in 1 .. Len(AH) : (AH \o B)[i] = AH[i]
          /\ \A i \in 1 .. Len(B) : (AH \o B)[Len(AH) + i] = B[i]
      <4>1. AH \in Seq(U) /\ B \in Seq(U)
        BY <1>6, <1>10
      <4> QED BY <4>1, Joined
    <3>2. AHB = AH \o B
      BY DEF AHB
    <3> QED BY <3>1, <3>2, <1>2, <1>6, <1>10
  <2>2. 4 + n + 1 = 5 + n /\ 4 + n + 2 = 6 + n /\ 1 \in 1 .. 2 /\ 2 \in 1 .. 2
    BY <1>2
  <2> HIDE DEF AHB
  <2>3. AHB[4 + n + 1] = B[1] /\ AHB[4 + n + 2] = B[2]
    BY <2>1, <2>2, Zenon
  <2> QED BY <2>1, <2>2, <2>3
<1> HIDE DEF AHB
<1>12. AHBP \in Seq(U) /\ Len(AHBP) = 6 + n + q /\ (\A i \in 1 .. 6 + n : AHBP[i] = AHB[i])
       /\ (q = 1 => AHBP[7 + n] = P[1])
  <2>1. AHBP \in Seq(U) /\ Len(AHBP) = 6 + n + q /\ (\A i \in 1 .. 6 + n : AHBP[i] = AHB[i])
        /\ \A i \in 1 .. q : AHBP[6 + n + i] = P[i]
    <3> HIDE DEF AHBP
    <3>1. /\ AHB \o P \in Seq(U) /\ Len(AHB \o P) = Len(AHB) + Len(P)
          /\ \A i \in 1 .. Len(AHB) : (AHB \o P)[i] = AHB[i]
          /\ \A i \in 1 .. Len(P) : (AHB \o P)[Len(AHB) + i] = P[i]
      <4>1. AHB \in Seq(U) /\ P \in Seq(U)
        BY <1>7, <1>11
      <4> QED BY <4>1, Joined
    <3>2. AHBP = AHB \o P
      BY DEF AHBP
    <3> QED BY <3>1, <3>2, <1>2, <1>7, <1>11
  <2> HIDE DEF AHBP
  <2>2. ASSUME q = 1 PROVE AHBP[7 + n] = P[1]
    <3>1. 1 \in 1 .. q /\ 6 + n + 1 = 7 + n
      BY <1>2, <2>2
    <3>2. AHBP[6 + n + 1] = P[1]
      BY <2>1, <3>1, Zenon
    <3> QED BY <3>1, <3>2
  <2> QED BY <2>1, <2>2
<1> HIDE DEF AHBP
<1>13. M = AHBP \o L
  BY <1>1 DEF AHBP, AHB, AH
<1>14. /\ \A i \in 1 .. 6 + n + q : M[i] = AHBP[i]
       /\ M[7 + n + q] = L[1] /\ Len(M) = 7 + n + q /\ M \in Seq(U)
  <2>1. M \in Seq(U) /\ Len(M) = 7 + n + q /\ (\A i \in 1 .. 6 + n + q : M[i] = AHBP[i])
        /\ \A i \in 1 .. 1 : M[6 + n + q + i] = L[i]
    <3>1. /\ AHBP \o L \in Seq(U) /\ Len(AHBP \o L) = Len(AHBP) + Len(L)
          /\ \A i \in 1 .. Len(AHBP) : (AHBP \o L)[i] = AHBP[i]
          /\ \A i \in 1 .. Len(L) : (AHBP \o L)[Len(AHBP) + i] = L[i]
      <4>1. AHBP \in Seq(U) /\ L \in Seq(U)
        BY <1>8, <1>12
      <4> QED BY <4>1, Joined
    <3> QED BY <3>1, <1>2, <1>7, <1>8, <1>12, <1>13
  <2>2. 1 \in 1 .. 1 /\ 6 + n + q + 1 = 7 + n + q
    BY <1>2, <1>7
  <2>3. M[6 + n + q + 1] = L[1]
    BY <2>1, <2>2, Zenon
  <2> QED BY <2>1, <2>2, <2>3
<1>15. \A i \in 1 .. 4 : M[i] = tagVarint(i, f[i])
  BY <1>2, <1>4, <1>7, <1>10, <1>11, <1>12, <1>14
<1>16. \A i \in 1 .. n : M[4 + i] = tagBytes(5, Encoded(f)[i])
  <2> TAKE i \in 1 .. n
  <2>1. 4 + i \in 1 .. 4 + n /\ 4 + i \in 1 .. 6 + n /\ 4 + i \in 1 .. 6 + n + q
    BY <1>2, <1>7
  <2> QED BY <1>3, <1>10, <1>11, <1>12, <1>14, <2>1
<1>17. M[5 + n] = tagBytes(6, f[6]) /\ M[6 + n] = tagBytes(7, f[7])
  BY <1>2, <1>6, <1>7, <1>11, <1>12, <1>14
<1>18. q = 1 => M[7 + n] = tagBytes(8, f[8])
  BY <1>2, <1>7, <1>12, <1>14
<1>19. M[7 + n + q] = tagBytes(9, f[9]) /\ Len(M) = 7 + n + q
  BY <1>8, <1>14
<1>20. BlockCount(f) = 7 + n + q /\ DOMAIN M = 1 .. Len(M)
  BY <1>14 DEF BlockCount, n, q
<1> QED BY <1>2, <1>7, <1>15, <1>16, <1>17, <1>18, <1>19, <1>20 DEF M, n, q

\* A step of the loop: a field below ten that is put into what has been read.
FieldStep(block, before, after, k, x) ==
    /\ Reads(block, FrameWire, TRUE, k, x)
    /\ ~Refused(before, k, x)
    /\ after = Put(before, k, x)

\* The fields of a frame and their wire types.
LEMMA FrameWireIs ==
  /\ DOMAIN FrameWire = 1 .. 9 /\ TRUE \in BOOLEAN
  /\ \A k \in 1 .. 4 : FrameWire[k] = 0
  /\ \A k \in 5 .. 9 : FrameWire[k] = 2
BY DEF FrameWire

\* The number fields of Marshal.
LEMMA FrameNumbers ==
  ASSUME NEW p \in 0 .. MaxWord
  PROVE  /\ Reads(tagVarint(1, p), FrameWire, TRUE, 1, p)
         /\ Reads(tagVarint(2, p), FrameWire, TRUE, 2, p)
         /\ Reads(tagVarint(3, p), FrameWire, TRUE, 3, p)
         /\ Reads(tagVarint(4, p), FrameWire, TRUE, 4, p)
<1>0. p \in 0 .. MaxWord
  OBVIOUS
<1>1. Reads(tagVarint(1, p), FrameWire, TRUE, 1, p)
  <2>1. 1 \in 0 .. 10 /\ 1 \in DOMAIN FrameWire /\ FrameWire[1] = 0 /\ TRUE \in BOOLEAN
    BY FrameWireIs
  <2> QED BY <1>0, <2>1, TaggedVarint, Zenon
<1>2. Reads(tagVarint(2, p), FrameWire, TRUE, 2, p)
  <2>1. 2 \in 0 .. 10 /\ 2 \in DOMAIN FrameWire /\ FrameWire[2] = 0 /\ TRUE \in BOOLEAN
    BY FrameWireIs
  <2> QED BY <1>0, <2>1, TaggedVarint, Zenon
<1>3. Reads(tagVarint(3, p), FrameWire, TRUE, 3, p)
  <2>1. 3 \in 0 .. 10 /\ 3 \in DOMAIN FrameWire /\ FrameWire[3] = 0 /\ TRUE \in BOOLEAN
    BY FrameWireIs
  <2> QED BY <1>0, <2>1, TaggedVarint, Zenon
<1>4. Reads(tagVarint(4, p), FrameWire, TRUE, 4, p)
  <2>1. 4 \in 0 .. 10 /\ 4 \in DOMAIN FrameWire /\ FrameWire[4] = 0 /\ TRUE \in BOOLEAN
    BY FrameWireIs
  <2> QED BY <1>0, <2>1, TaggedVarint, Zenon
<1> QED BY <1>1, <1>2, <1>3, <1>4

\* The fields with bytes.
LEMMA FrameTexts ==
  ASSUME NEW p, IsText(p)
  PROVE  /\ Reads(tagBytes(5, p), FrameWire, TRUE, 5, p)
         /\ Reads(tagBytes(6, p), FrameWire, TRUE, 6, p)
         /\ Reads(tagBytes(7, p), FrameWire, TRUE, 7, p)
         /\ Reads(tagBytes(8, p), FrameWire, TRUE, 8, p)
         /\ Reads(tagBytes(9, p), FrameWire, TRUE, 9, p)
<1>0. p \in Seq(Byte) /\ Len(p) <= MaxInt32
  BY DEF IsText
<1>5. Reads(tagBytes(5, p), FrameWire, TRUE, 5, p)
  <2>1. 5 \in 0 .. 10 /\ 5 \in DOMAIN FrameWire /\ FrameWire[5] = 2 /\ TRUE \in BOOLEAN
    BY FrameWireIs
  <2> QED BY <1>0, <2>1, TaggedBytes, Zenon
<1>6. Reads(tagBytes(6, p), FrameWire, TRUE, 6, p)
  <2>1. 6 \in 0 .. 10 /\ 6 \in DOMAIN FrameWire /\ FrameWire[6] = 2 /\ TRUE \in BOOLEAN
    BY FrameWireIs
  <2> QED BY <1>0, <2>1, TaggedBytes, Zenon
<1>7. Reads(tagBytes(7, p), FrameWire, TRUE, 7, p)
  <2>1. 7 \in 0 .. 10 /\ 7 \in DOMAIN FrameWire /\ FrameWire[7] = 2 /\ TRUE \in BOOLEAN
    BY FrameWireIs
  <2> QED BY <1>0, <2>1, TaggedBytes, Zenon
<1>8. Reads(tagBytes(8, p), FrameWire, TRUE, 8, p)
  <2>1. 8 \in 0 .. 10 /\ 8 \in DOMAIN FrameWire /\ FrameWire[8] = 2 /\ TRUE \in BOOLEAN
    BY FrameWireIs
  <2> QED BY <1>0, <2>1, TaggedBytes, Zenon
<1>9. Reads(tagBytes(9, p), FrameWire, TRUE, 9, p)
  <2>1. 9 \in 0 .. 10 /\ 9 \in DOMAIN FrameWire /\ FrameWire[9] = 2 /\ TRUE \in BOOLEAN
    BY FrameWireIs
  <2> QED BY <1>0, <2>1, TaggedBytes, Zenon
<1> QED BY <1>5, <1>6, <1>7, <1>8, <1>9

\* Which headers have been read after i blocks; there is always room for one more.
LEMMA HeaderCount ==
  ASSUME NEW f, IsFrame(f), NEW i \in Nat
  PROVE  /\ i < 4 => HeadersRead(f, i) = HeadersRead(f, 4) /\ HeadersRead(f, i) = << >>
         /\ i \in 4 .. 3 + Len(f[5]) =>
               /\ HeadersRead(f, i + 1) = Append(HeadersRead(f, i), Encoded(f)[i - 3])
               /\ ~(Len(HeadersRead(f, i)) >= MaxHeaders)
         /\ i >= 4 + Len(f[5]) => HeadersRead(f, i) = Encoded(f)
<1> DEFINE n == Len(f[5])
           E == Encoded(f)
           c(j) == IF j < 4 THEN 0 ELSE IF j - 4 > n THEN n ELSE j - 4
<1>1. n \in 0 .. MaxHeaders /\ E \in Seq(Seq(Byte)) /\ Len(E) = n
  BY HeadersEncoded
<1>2. n \in Nat /\ n <= MaxHeaders /\ MaxHeaders \in Nat
  BY <1>1, CodecAssumption
<1>3. \A j : HeadersRead(f, j) = SubSeq(E, 1, c(j))
  BY DEF HeadersRead
<1> HIDE DEF n, E
<1>4. SubSeq(E, 1, 0) = << >> /\ SubSeq(E, 1, n) = E
  BY <1>1
<1>5. ASSUME i < 4 PROVE HeadersRead(f, i) = HeadersRead(f, 4) /\ HeadersRead(f, i) = << >>
  <2>1. c(i) = 0 /\ c(4) = 0
    BY <1>2, <1>5
  <2> QED BY <1>3, <1>4, <2>1
<1>6. ASSUME i \in 4 .. 3 + n
      PROVE  /\ HeadersRead(f, i + 1) = Append(HeadersRead(f, i), E[i - 3])
             /\ ~(Len(HeadersRead(f, i)) >= MaxHeaders)
  <2>1. c(i) = i - 4 /\ c(i + 1) = i - 3 /\ i - 4 \in 0 .. n - 1 /\ i - 3 \in 1 .. n
    BY <1>2, <1>6
  <2>2. HeadersRead(f, i) = SubSeq(E, 1, i - 4) /\ HeadersRead(f, i + 1) = SubSeq(E, 1, i - 3)
    BY <1>3, <2>1
  <2> DEFINE j == i - 4
  <2>3. j \in 0 .. n - 1 /\ i - 3 = j + 1
    BY <2>1
  <2> HIDE DEF j
  <2>4. SubSeq(E, 1, j + 1) = Append(SubSeq(E, 1, j), E[j + 1]) /\ Len(SubSeq(E, 1, j)) = j
    BY <1>1, <1>2, <2>3
  <2> QED BY <1>2, <2>2, <2>3, <2>4 DEF j
<1>7. ASSUME i >= 4 + n PROVE HeadersRead(f, i) = E
  <2>1. c(i) = n
    BY <1>2, <1>7
  <2> QED BY <1>3, <1>4, <2>1
<1> QED BY <1>5, <1>6, <1>7 DEF n, E

\* Each block of Marshal is read as the next field.
LEMMA FrameStep ==
  ASSUME NEW f, IsFrame(f), NEW i \in 1 .. BlockCount(f)
  PROVE  \E k, x : FieldStep(MarshalFields(f)[i], ReadSoFar(f, i - 1), ReadSoFar(f, i), k, x)
<1> DEFINE n == Len(f[5])
           q == Payloads(f)
           m == BlockCount(f)
           M == MarshalFields(f)
           s == ReadSoFar(f, i - 1)
           t == ReadSoFar(f, i)
           H(j) == HeadersRead(f, j)
           g8 == NilIfEmpty(f[8])
<1>1. /\ n \in Nat /\ q \in 0 .. 1 /\ m = 7 + n + q
      /\ \A j \in 1 .. 4 : M[j] = tagVarint(j, f[j])
      /\ \A j \in 1 .. n : M[4 + j] = tagBytes(5, Encoded(f)[j])
      /\ M[5 + n] = tagBytes(6, f[6]) /\ M[6 + n] = tagBytes(7, f[7])
      /\ (q = 1 => M[7 + n] = tagBytes(8, f[8]))
      /\ M[m] = tagBytes(9, f[9])
  BY FrameBlocks DEF BlockCount
<1>2. /\ f[1] \in 0 .. MaxWord /\ f[2] \in 0 .. MaxWord
      /\ f[3] \in 0 .. MaxWord /\ f[4] \in 0 .. MaxWord
      /\ f[3] <= MaxInt32 /\ f[4] <= MaxInt32 /\ MaxInt32 \in Nat
      /\ IsText(f[6]) /\ IsText(f[7]) /\ IsText(f[9])
      /\ (q = 1 => IsText(f[8])) /\ (q = 0 => f[8] = Nil)
  BY CodecAssumption DEF IsFrame, Payloads
<1>3. ASSUME NEW j \in 1 .. n PROVE IsText(Encoded(f)[j])
  <2>1. /\ Encoded(f) \in Seq(Seq(Byte)) /\ Len(Encoded(f)) = n
        /\ Len(Encoded(f)[j]) <= MaxInt32
    BY HeadersEncoded
  <2> HIDE DEF n
  <2>2. Encoded(f)[j] \in Seq(Byte)
    BY <2>1
  <2> QED BY <2>1, <2>2 DEF IsText
<1>4. s = << IF i - 1 >= 1 THEN f[1] ELSE 0, IF i - 1 >= 2 THEN f[2] ELSE 0,
             IF i - 1 >= 3 THEN f[3] ELSE 0, IF i - 1 >= 4 THEN f[4] ELSE 0, H(i - 1),
             IF i - 1 >= 5 + n THEN f[6] ELSE << >>, IF i - 1 >= 6 + n THEN f[7] ELSE << >>,
             IF i - 1 >= 7 + n THEN g8 ELSE Nil, IF i - 1 >= m THEN f[9] ELSE << >> >>
  BY DEF ReadSoFar
<1>5. t = << IF i >= 1 THEN f[1] ELSE 0, IF i >= 2 THEN f[2] ELSE 0,
             IF i >= 3 THEN f[3] ELSE 0, IF i >= 4 THEN f[4] ELSE 0, H(i),
             IF i >= 5 + n THEN f[6] ELSE << >>, IF i >= 6 + n THEN f[7] ELSE << >>,
             IF i >= 7 + n THEN g8 ELSE Nil, IF i >= m THEN f[9] ELSE << >> >>
  BY DEF ReadSoFar
<1>6. \A k, x : Reads(M[i], FrameWire, TRUE, k, x) /\ ~Refused(s, k, x) /\ t = Put(s, k, x)
         => FieldStep(M[i], s, t, k, x)
  BY DEF FieldStep
<1>7. i \in Nat /\ i >= 1 /\ i - 1 \in Nat
  BY <1>1
<1>8. /\ \A j \in Nat : j < 4 => H(j) = H(4) /\ H(j) = << >>
      /\ \A j \in 4 .. 3 + n :
            H(j + 1) = Append(H(j), Encoded(f)[j - 3]) /\ ~(Len(H(j)) >= MaxHeaders)
      /\ \A j \in Nat : j >= 4 + n => H(j) = Encoded(f)
  <2>1. \A j \in 4 .. 3 + n : j \in Nat
    OBVIOUS
  <2> QED BY <2>1, HeaderCount
<1>9. i \in 1 .. m
  OBVIOUS
<1>t. DOMAIN s = 1 .. 9 /\ s[5] = H(i - 1)
  BY <1>4
<1> SUFFICES \E k, x : Reads(M[i], FrameWire, TRUE, k, x) /\ ~Refused(s, k, x) /\ t = Put(s, k, x)
  BY <1>6
<1> HIDE DEF n, q, m, M, s, t, H, g8
<1>10. CASE i \in 1 .. 4
  <2>1. H(i - 1) = H(i)
    <3>1. H(0) = H(4) /\ H(1) = H(4) /\ H(2) = H(4) /\ H(3) = H(4)
      BY <1>8
    <3> QED BY <3>1, <1>10
  <2>2. /\ ~(i >= 5 + n) /\ ~(i >= 6 + n) /\ ~(i >= 7 + n) /\ ~(i >= m)
        /\ ~(i - 1 >= 5 + n) /\ ~(i - 1 >= 6 + n) /\ ~(i - 1 >= 7 + n) /\ ~(i - 1 >= m)
    BY <1>1, <1>10
  <2>3. CASE i = 1
    <3>1. s = << 0, 0, 0, 0, H(i), << >>, << >>, Nil, << >> >>
      BY <1>4, <2>1, <2>2, <2>3
    <3>2. t = << f[1], 0, 0, 0, H(i), << >>, << >>, Nil, << >> >>
      BY <1>5, <2>2, <2>3
    <3>3. t = [s EXCEPT ![1] = f[1]]
      BY <3>1, <3>2
    <3>4. t = Put(s, 1, f[1])
      BY <1>t, <3>3 DEF Put
    <3>5. M[i] = tagVarint(1, f[1])
      BY <1>1, <2>3
    <3>6. Reads(M[i], FrameWire, TRUE, 1, f[1])
      BY <1>2, <3>5, FrameNumbers
    <3>7. ~Refused(s, 1, f[1])
      BY <1>2 DEF Refused
    <3> QED BY <3>4, <3>6, <3>7, Zenon
  <2>4. CASE i = 2
    <3>1. s = << f[1], 0, 0, 0, H(i), << >>, << >>, Nil, << >> >>
      BY <1>4, <2>1, <2>2, <2>4
    <3>2. t = << f[1], f[2], 0, 0, H(i), << >>, << >>, Nil, << >> >>
      BY <1>5, <2>2, <2>4
    <3>3. t = [s EXCEPT ![2] = f[2]]
      BY <3>1, <3>2
    <3>4. t = Put(s, 2, f[2])
      BY <1>t, <3>3 DEF Put
    <3>5. M[i] = tagVarint(2, f[2])
      BY <1>1, <2>4
    <3>6. Reads(M[i], FrameWire, TRUE, 2, f[2])
      BY <1>2, <3>5, FrameNumbers
    <3>7. ~Refused(s, 2, f[2])
      BY <1>2 DEF Refused
    <3> QED BY <3>4, <3>6, <3>7, Zenon
  <2>5. CASE i = 3
    <3>1. s = << f[1], f[2], 0, 0, H(i), << >>, << >>, Nil, << >> >>
      BY <1>4, <2>1, <2>2, <2>5
    <3>2. t = << f[1], f[2], f[3], 0, H(i), << >>, << >>, Nil, << >> >>
      BY <1>5, <2>2, <2>5
    <3>3. t = [s EXCEPT ![3] = f[3]]
      BY <3>1, <3>2
    <3>4. t = Put(s, 3, f[3])
      BY <1>t, <3>3 DEF Put
    <3>5. M[i] = tagVarint(3, f[3])
      BY <1>1, <2>5
    <3>6. Reads(M[i], FrameWire, TRUE, 3, f[3])
      BY <1>2, <3>5, FrameNumbers
    <3>7. ~Refused(s, 3, f[3])
      BY <1>2 DEF Refused
    <3> QED BY <3>4, <3>6, <3>7, Zenon
  <2>6. CASE i = 4
    <3>1. s = << f[1], f[2], f[3], 0, H(i), << >>, << >>, Nil, << >> >>
      BY <1>4, <2>1, <2>2, <2>6
    <3>2. t = << f[1], f[2], f[3], f[4], H(i), << >>, << >>, Nil, << >> >>
      BY <1>5, <2>2, <2>6
    <3>3. t = [s EXCEPT ![4] = f[4]]
      BY <3>1, <3>2
    <3>4. t = Put(s, 4, f[4])
      BY <1>t, <3>3 DEF Put
    <3>5. M[i] = tagVarint(4, f[4])
      BY <1>1, <2>6
    <3>6. Reads(M[i], FrameWire, TRUE, 4, f[4])
      BY <1>2, <3>5, FrameNumbers
    <3>7. ~Refused(s, 4, f[4])
      BY <1>2 DEF Refused
    <3> QED BY <3>4, <3>6, <3>7, Zenon
  <2>7. i = 1 \/ i = 2 \/ i = 3 \/ i = 4
    BY <1>10
  <2> QED BY <2>3, <2>4, <2>5, <2>6, <2>7, Zenon
<1>11. CASE i \in 5 .. 4 + n
  <2> DEFINE j == i - 4
             x == Encoded(f)[j]
  <2>1. j \in 1 .. n /\ 4 + j = i /\ i - 1 \in 4 .. 3 + n /\ i - 1 - 3 = j /\ i - 1 + 1 = i
    BY <1>1, <1>11
  <2>2. M[i] = tagBytes(5, x)
    <3>1. M[4 + j] = tagBytes(5, x)
      BY <1>1, <2>1
    <3> QED BY <2>1, <3>1
  <2>3. Reads(M[i], FrameWire, TRUE, 5, x)
    <3>1. IsText(x)
      BY <1>3, <2>1
    <3> HIDE DEF x
    <3> QED BY <2>2, <3>1, FrameTexts
  <2>4. H(i) = Append(H(i - 1), x) /\ ~(Len(H(i - 1)) >= MaxHeaders)
    <3>1. H(i - 1 + 1) = Append(H(i - 1), Encoded(f)[i - 1 - 3]) /\ ~(Len(H(i - 1)) >= MaxHeaders)
      BY <1>8, <2>1
    <3> QED BY <2>1, <3>1
  <2> HIDE DEF j, x
  <2>5. ~Refused(s, 5, x)
    BY <1>t, <2>4 DEF Refused
  <2>6. t = Put(s, 5, x)
    <3>1. s = << f[1], f[2], f[3], f[4], H(i - 1), << >>, << >>, Nil, << >> >>
      BY <1>1, <1>4, <1>11
    <3>2. t = << f[1], f[2], f[3], f[4], H(i), << >>, << >>, Nil, << >> >>
      BY <1>1, <1>5, <1>11
    <3>3. t = [s EXCEPT ![5] = Append(s[5], x)]
      <4>1. s[5] = H(i - 1)
        BY <3>1
      <4> DEFINE w == Append(H(i - 1), x)
      <4>2. H(i) = w
        BY <2>4
      <4> HIDE DEF w
      <4>3. t = [s EXCEPT ![5] = w]
        BY <3>1, <3>2, <4>2
      <4> QED BY <4>1, <4>3 DEF w
    <3>4. Put(s, 5, x) = [s EXCEPT ![5] = Append(s[5], x)]
      BY <1>t DEF Put
    <3> QED BY <3>3, <3>4, Zenon
  <2> QED BY <2>3, <2>5, <2>6, Zenon
<1>12. CASE i >= 5 + n
  <2>1. H(i - 1) = Encoded(f) /\ H(i) = Encoded(f)
    <3>1. i - 1 >= 4 + n /\ i >= 4 + n
      BY <1>1, <1>12
    <3> QED BY <1>7, <1>8, <3>1
  <2> DEFINE E == Encoded(f)
  <2>2. s = << f[1], f[2], f[3], f[4], E,
               IF i - 1 >= 5 + n THEN f[6] ELSE << >>, IF i - 1 >= 6 + n THEN f[7] ELSE << >>,
               IF i - 1 >= 7 + n THEN g8 ELSE Nil, << >> >>
    <3>1. i - 1 >= 4 /\ i - 1 >= 3 /\ i - 1 >= 2 /\ i - 1 >= 1 /\ ~(i - 1 >= m)
      BY <1>1, <1>9, <1>12
    <3> QED BY <1>4, <2>1, <3>1
  <2>3. t = << f[1], f[2], f[3], f[4], E,
               f[6], IF i >= 6 + n THEN f[7] ELSE << >>,
               IF i >= 7 + n THEN g8 ELSE Nil, IF i >= m THEN f[9] ELSE << >> >>
    <3>1. i >= 4 /\ i >= 3 /\ i >= 2 /\ i >= 1 /\ i >= 5 + n
      BY <1>1, <1>12
    <3> QED BY <1>5, <2>1, <3>1
  <2> HIDE DEF E
  <2>4. CASE i = 5 + n
    <3>1. /\ ~(i - 1 >= 5 + n) /\ ~(i - 1 >= 6 + n) /\ ~(i - 1 >= 7 + n)
          /\ ~(i >= 6 + n) /\ ~(i >= 7 + n) /\ ~(i >= m)
      BY <1>1, <2>4
    <3>2. s = << f[1], f[2], f[3], f[4], E, << >>, << >>, Nil, << >> >>
      BY <2>2, <3>1
    <3>3. t = << f[1], f[2], f[3], f[4], E, f[6], << >>, Nil, << >> >>
      BY <2>3, <3>1
    <3>4. t = [s EXCEPT ![6] = f[6]]
      BY <3>2, <3>3
    <3>5. t = Put(s, 6, f[6])
      <4>1. Put(s, 6, f[6]) = [s EXCEPT ![6] = f[6]]
        BY <1>t DEF Put
      <4> QED BY <3>4, <4>1, Zenon
    <3>6. M[i] = tagBytes(6, f[6])
      BY <1>1, <2>4
    <3>7. IsText(f[6])
      BY <1>2, <2>4
    <3>8. Reads(M[i], FrameWire, TRUE, 6, f[6])
      BY <3>6, <3>7, FrameTexts
    <3>9. ~Refused(s, 6, f[6])
      BY DEF Refused
    <3> QED BY <3>5, <3>8, <3>9, Zenon
  <2>5. CASE i = 6 + n
    <3>1. /\ i - 1 >= 5 + n /\ ~(i - 1 >= 6 + n) /\ ~(i - 1 >= 7 + n)
          /\ i >= 6 + n /\ ~(i >= 7 + n) /\ ~(i >= m)
      BY <1>1, <2>5
    <3>2. s = << f[1], f[2], f[3], f[4], E, f[6], << >>, Nil, << >> >>
      BY <2>2, <3>1
    <3>3. t = << f[1], f[2], f[3], f[4], E, f[6], f[7], Nil, << >> >>
      BY <2>3, <3>1
    <3>4. t = [s EXCEPT ![7] = f[7]]
      BY <3>2, <3>3
    <3>5. t = Put(s, 7, f[7])
      <4>1. Put(s, 7, f[7]) = [s EXCEPT ![7] = f[7]]
        BY <1>t DEF Put
      <4> QED BY <3>4, <4>1, Zenon
    <3>6. M[i] = tagBytes(7, f[7])
      BY <1>1, <2>5
    <3>7. IsText(f[7])
      BY <1>2, <2>5
    <3>8. Reads(M[i], FrameWire, TRUE, 7, f[7])
      BY <3>6, <3>7, FrameTexts
    <3>9. ~Refused(s, 7, f[7])
      BY DEF Refused
    <3> QED BY <3>5, <3>8, <3>9, Zenon
  <2>6. CASE i = 7 + n /\ q = 1
    <3>1. /\ i - 1 >= 5 + n /\ i - 1 >= 6 + n /\ ~(i - 1 >= 7 + n)
          /\ i >= 6 + n /\ i >= 7 + n /\ ~(i >= m)
      BY <1>1, <2>6
    <3>2. s = << f[1], f[2], f[3], f[4], E, f[6], f[7], Nil, << >> >>
      BY <2>2, <3>1
    <3>3. t = << f[1], f[2], f[3], f[4], E, f[6], f[7], g8, << >> >>
      BY <2>3, <3>1
    <3>4. t = [s EXCEPT ![8] = g8]
      BY <3>2, <3>3
    <3>5. t = Put(s, 8, f[8])
      <4>1. Put(s, 8, f[8]) = [s EXCEPT ![8] = NilIfEmpty(f[8])]
        BY <1>t DEF Put
      <4> QED BY <3>4, <4>1 DEF g8
    <3>6. M[i] = tagBytes(8, f[8])
      BY <1>1, <2>6
    <3>7. IsText(f[8])
      BY <1>2, <2>6
    <3>8. Reads(M[i], FrameWire, TRUE, 8, f[8])
      BY <3>6, <3>7, FrameTexts
    <3>9. ~Refused(s, 8, f[8])
      BY DEF Refused
    <3> QED BY <3>5, <3>8, <3>9, Zenon
  <2>7. CASE i = m
    <3>1. /\ i - 1 >= 5 + n /\ i - 1 >= 6 + n
          /\ i >= 6 + n /\ i >= 7 + n /\ i >= m
      BY <1>1, <2>7
    <3>2. (IF i - 1 >= 7 + n THEN g8 ELSE Nil) = g8
      <4>1. CASE q = 1
        <5>1. i - 1 >= 7 + n
          BY <1>1, <2>7, <4>1
        <5> QED BY <5>1
      <4>2. CASE q = 0
        <5>1. g8 = Nil
          BY <1>2, <4>2 DEF g8, NilIfEmpty, Nil
        <5> QED BY <5>1
      <4> QED BY <1>1, <4>1, <4>2
    <3>3. s = << f[1], f[2], f[3], f[4], E, f[6], f[7], g8, << >> >>
      BY <2>2, <3>1, <3>2
    <3>4. t = << f[1], f[2], f[3], f[4], E, f[6], f[7], g8, f[9] >>
      BY <2>3, <3>1
    <3>5. t = [s EXCEPT ![9] = f[9]]
      BY <3>3, <3>4
    <3>6. t = Put(s, 9, f[9])
      <4>1. Put(s, 9, f[9]) = [s EXCEPT ![9] = f[9]]
        BY <1>t DEF Put
      <4> QED BY <3>5, <4>1, Zenon
    <3>7. M[i] = tagBytes(9, f[9])
      BY <1>1, <2>7
    <3>8. IsText(f[9])
      BY <1>2, <2>7
    <3>9. Reads(M[i], FrameWire, TRUE, 9, f[9])
      BY <3>7, <3>8, FrameTexts
    <3>10. ~Refused(s, 9, f[9])
      BY DEF Refused
    <3> QED BY <3>6, <3>9, <3>10, Zenon
  <2>8. i = 5 + n \/ i = 6 + n \/ (i = 7 + n /\ q = 1) \/ i = m
    BY <1>1, <1>9, <1>12
  <2> QED BY <2>4, <2>5, <2>6, <2>7, <2>8, Zenon
<1>13. i \in 1 .. 4 \/ i \in 5 .. 4 + n \/ i >= 5 + n
  BY <1>1, <1>9
<1> QED BY <1>10, <1>11, <1>12, <1>13, Zenon

\* The blocks of a frame take nothing to everything.
LEMMA FrameReads ==
  ASSUME NEW f, IsFrame(f)
  PROVE  /\ MarshalFields(f) \in Seq(Seq(Byte)) /\ Len(MarshalFields(f)) = BlockCount(f)
         /\ BlockCount(f) \in Nat \ {0}
         /\ ReadSoFar(f, 0) = NoFields
         /\ ReadSoFar(f, BlockCount(f))
               = << f[1], f[2], f[3], f[4], Encoded(f), f[6], f[7], NilIfEmpty(f[8]), f[9] >>
<1> DEFINE M == MarshalFields(f)
           m == BlockCount(f)
           n == Len(f[5])
           q == Payloads(f)
           g8 == NilIfEmpty(f[8])
<1>1. n \in Nat /\ q \in 0 .. 1 /\ m = 7 + n + q /\ Len(M) = m /\ DOMAIN M = 1 .. Len(M)
  BY FrameBlocks DEF BlockCount
<1>2. \A i \in 1 .. m : M[i] \in Seq(Byte)
  BY FrameStep DEF FieldStep, Reads
<1>3. M \in Seq(Seq(Byte))
  <2>1. \E U : M \in Seq(U)
    <3> DEFINE U == UNION {{tagVarint(k, f[k]) : k \in 1 .. 4},
                           {tagBytes(5, marshalHeader(f[5][i])) : i \in 1 .. n},
                           {tagBytes(k, f[k]) : k \in 6 .. 9}}
               A == [k \in 1 .. 4 |-> tagVarint(k, f[k])]
               H == [i \in 1 .. n |-> tagBytes(5, marshalHeader(f[5][i]))]
               B == << tagBytes(6, f[6]), tagBytes(7, f[7]) >>
               P == IF f[8] = Nil THEN << >> ELSE << tagBytes(8, f[8]) >>
               L == << tagBytes(9, f[9]) >>
    <3>1. M = A \o H \o B \o P \o L
      BY DEF MarshalFields
    <3>2. \A k \in 6 .. 9 : tagBytes(k, f[k]) \in U
      OBVIOUS
    <3>3. A \in Seq(U) /\ H \in Seq(U)
      BY <1>1
    <3>4. tagBytes(6, f[6]) \in U /\ tagBytes(7, f[7]) \in U
          /\ tagBytes(8, f[8]) \in U /\ tagBytes(9, f[9]) \in U
      BY <3>2
    <3> HIDE DEF U
    <3>5. B \in Seq(U) /\ P \in Seq(U) /\ L \in Seq(U)
      BY <3>4
    <3> HIDE DEF A, H, B, P, L, M
    <3>6. M \in Seq(U)
      BY <3>1, <3>3, <3>5
    <3> QED BY <3>6
  <2>2. PICK U : M \in Seq(U)
    BY <2>1
  <2> HIDE DEF M, m
  <2>3. \A i \in 1 .. Len(M) : M[i] \in Seq(Byte)
    BY <1>1, <1>2
  <2>4. M = SubSeq(M, 1, Len(M))
    BY <2>2, SubSeqFull
  <2>5. SubSeq(M, 1, Len(M)) \in Seq(Seq(Byte))
    BY <1>1, <2>3, SubSeqProperties
  <2> QED BY <2>4, <2>5
<1> DEFINE H(j) == HeadersRead(f, j)
<1>4. H(0) = << >> /\ H(m) = Encoded(f)
  <2>1. m \in Nat /\ m >= 4 + n /\ 0 \in Nat
    BY <1>1
  <2> QED BY <2>1, HeaderCount
<1> HIDE DEF H
<1>5. ReadSoFar(f, 0) = NoFields
  <2>1. ReadSoFar(f, 0) = << IF 0 >= 1 THEN f[1] ELSE 0, IF 0 >= 2 THEN f[2] ELSE 0,
           IF 0 >= 3 THEN f[3] ELSE 0, IF 0 >= 4 THEN f[4] ELSE 0, H(0),
           IF 0 >= 5 + n THEN f[6] ELSE << >>, IF 0 >= 6 + n THEN f[7] ELSE << >>,
           IF 0 >= 7 + n THEN g8 ELSE Nil, IF 0 >= m THEN f[9] ELSE << >> >>
    BY DEF ReadSoFar, H
  <2> HIDE DEF m, n, q, g8
  <2>2. ~(0 >= 5 + n) /\ ~(0 >= 6 + n) /\ ~(0 >= 7 + n) /\ ~(0 >= m)
    BY <1>1
  <2> QED BY <1>4, <2>1, <2>2 DEF NoFields
<1>6. ReadSoFar(f, m) = << f[1], f[2], f[3], f[4], Encoded(f), f[6], f[7], g8, f[9] >>
  <2>1. ReadSoFar(f, m) = << IF m >= 1 THEN f[1] ELSE 0, IF m >= 2 THEN f[2] ELSE 0,
           IF m >= 3 THEN f[3] ELSE 0, IF m >= 4 THEN f[4] ELSE 0, H(m),
           IF m >= 5 + n THEN f[6] ELSE << >>, IF m >= 6 + n THEN f[7] ELSE << >>,
           IF m >= 7 + n THEN g8 ELSE Nil, IF m >= m THEN f[9] ELSE << >> >>
    BY DEF ReadSoFar, H
  <2> HIDE DEF m, n, q, g8
  <2>2. m >= 1 /\ m >= 2 /\ m >= 3 /\ m >= 4 /\ m >= 5 + n /\ m >= 6 + n /\ m >= 7 + n /\ m >= m
    BY <1>1
  <2> QED BY <1>4, <2>1, <2>2
<1>7. m \in Nat \ {0}
  BY <1>1
<1> QED BY <1>1, <1>3, <1>5, <1>6, <1>7

\* Everything that was read becomes the frame that is stored.
LEMMA FrameDecoded ==
  ASSUME NEW f, IsFrame(f), NEW e
  PROVE  Decoded([ok |-> TRUE, at |-> e, f |-> ReadSoFar(f, BlockCount(f))])
            = [ok |-> TRUE, f |-> Stored(f)]
<1>0. /\ Len(f[5]) \in 0 .. MaxHeaders /\ Len(Encoded(f)) = Len(f[5])
      /\ \A i \in 1 .. Len(f[5]) :
            \E a : unmarshalHeader(Encoded(f)[i]) = [ok |-> TRUE, at |-> a, f |-> f[5][i]]
  BY HeadersEncoded
<1> DEFINE E == Encoded(f)
           n == Len(f[5])
           g8 == NilIfEmpty(f[8])
           g == << f[1], f[2], f[3], f[4], E, f[6], f[7], g8, f[9] >>
           s == [ok |-> TRUE, at |-> e, f |-> g]
           read == [i \in 1 .. n |-> unmarshalHeader(E[i])]
<1>1. /\ n \in Nat /\ Len(E) = n
      /\ \A i \in 1 .. n : \E a : unmarshalHeader(E[i]) = [ok |-> TRUE, at |-> a, f |-> f[5][i]]
  <2>1. Len(f[5]) \in Nat
    BY <1>0, CodecAssumption
  <2> QED BY <1>0, <2>1
<1>2. ReadSoFar(f, BlockCount(f)) = g
  BY FrameReads
<1>3. g[5] = E /\ s.ok /\ s.f = g
  OBVIOUS
<1>4. f = << f[1], f[2], f[3], f[4], f[5], f[6], f[7], f[8], f[9] >>
      /\ DOMAIN f[5] = 1 .. n /\ f[5] = [i \in 1 .. n |-> f[5][i]]
  <2>1. IsHeaderList(f[5]) /\ f = << f[1], f[2], f[3], f[4], f[5], f[6], f[7], f[8], f[9] >>
    BY DEF IsFrame
  <2>2. DOMAIN f[5] = 1 .. n
    BY <2>1 DEF IsHeaderList
  <2>3. f[5] = [i \in 1 .. n |-> f[5][i]]
    BY <2>1, Zenon DEF IsHeaderList
  <2> QED BY <2>1, <2>2, <2>3
<1> HIDE DEF g8
<1>5. [g EXCEPT ![5] = f[5]] = Stored(f)
  <2>1. Stored(f) = [f EXCEPT ![8] = g8]
    BY DEF Stored, g8
  <2> DEFINE a5 == f[5]
             r == << f[1], f[2], f[3], f[4], a5, f[6], f[7], g8, f[9] >>
  <2>2. [g EXCEPT ![5] = a5] = r
    <3> HIDE DEF a5, E
    <3> QED OBVIOUS
  <2>3. [f EXCEPT ![8] = g8] = r
    BY <1>4
  <2> QED BY <2>1, <2>2, <2>3
<1> HIDE DEF g
<1>6. Decoded(s) = WithHeaders(g, read)
  BY <1>1, <1>3 DEF Decoded
<1> HIDE DEF s
<1>7. DOMAIN read = 1 .. n /\ \A i \in 1 .. n : read[i].ok /\ read[i].f = f[5][i]
  <2> SUFFICES ASSUME NEW i \in 1 .. n
               PROVE  read[i].ok /\ read[i].f = f[5][i]
    OBVIOUS
  <2>1. PICK a : unmarshalHeader(E[i]) = [ok |-> TRUE, at |-> a, f |-> f[5][i]]
    BY <1>1
  <2>2. read[i] = [ok |-> TRUE, at |-> a, f |-> f[5][i]]
    BY <2>1
  <2> QED BY <2>2
<1> HIDE DEF read
<1>8. ~\E i \in DOMAIN read : ~read[i].ok
  BY <1>7
<1>9. WithHeaders(g, read)
        = [ok |-> TRUE, f |-> [g EXCEPT ![5] = [i \in DOMAIN read |-> read[i].f]]]
  BY <1>8, Zenon DEF WithHeaders
<1>10. [i \in DOMAIN read |-> read[i].f] = f[5]
  <2>1. [i \in DOMAIN read |-> read[i].f] = [i \in 1 .. n |-> f[5][i]]
    BY <1>7
  <2> QED BY <1>4, <2>1
<1>11. WithHeaders(g, read) = [ok |-> TRUE, f |-> Stored(f)]
  BY <1>5, <1>9, <1>10
<1> QED BY <1>2, <1>6, <1>11 DEF s

\* So the blocks of Marshal are read one by one.
LEMMA FrameReading ==
  ASSUME NEW f, IsFrame(f), NEW st, \A i \in 0 .. BlockCount(f) : st[i] = ReadSoFar(f, i)
  PROVE  Reading(MarshalFields(f), st, FrameWire, TRUE)
<1> DEFINE M == MarshalFields(f)
           m == BlockCount(f)
<1>1. M \in Seq(Seq(Byte)) /\ Len(M) = m /\ m \in Nat
  BY FrameReads
<1>2. ASSUME NEW i \in 1 .. m
      PROVE  \E k, x : /\ Reads(M[i], FrameWire, TRUE, k, x)
                       /\ ~Refused(st[i - 1], k, x) /\ st[i] = Put(st[i - 1], k, x)
  <2>1. PICK k, x : FieldStep(M[i], ReadSoFar(f, i - 1), ReadSoFar(f, i), k, x)
    BY FrameStep
  <2>2. st[i] = ReadSoFar(f, i) /\ st[i - 1] = ReadSoFar(f, i - 1)
    <3>1. i \in 0 .. m /\ i - 1 \in 0 .. m
      BY <1>1
    <3> QED BY <3>1
  <2> QED BY <2>1, <2>2 DEF FieldStep
<1> QED BY <1>1, <1>2 DEF Reading

\* A frame is read as it was sent; an empty payload is read as none.
THEOREM RoundTrip ==
  ASSUME NEW f, IsFrame(f)
  PROVE  Unmarshal(Marshal(f)) = [ok |-> TRUE, f |-> Stored(f)]
<1> DEFINE m == BlockCount(f)
           st == [i \in 0 .. m |-> ReadSoFar(f, i)]
           d == Marshal(f)
<1>1. Len(MarshalFields(f)) = m /\ m \in Nat /\ ReadSoFar(f, 0) = NoFields
  BY FrameReads
<1>2. \A i \in 0 .. m : st[i] = ReadSoFar(f, i)
  OBVIOUS
<1>3. Reading(MarshalFields(f), st, FrameWire, TRUE)
  BY <1>2, FrameReading
<1>4. st[0] = NoFields /\ st[m] = ReadSoFar(f, m)
  BY <1>1
<1> HIDE DEF st
<1>5. readFields(d, FrameWire, TRUE, st[0]) = [ok |-> TRUE, at |-> Len(d), f |-> st[m]]
  BY <1>1, <1>3, BlocksRead DEF Marshal
<1>6. readFields(d, FrameWire, TRUE, NoFields)
        = [ok |-> TRUE, at |-> Len(d), f |-> ReadSoFar(f, m)]
  BY <1>4, <1>5
<1>7. Decoded(readFields(d, FrameWire, TRUE, NoFields)) = [ok |-> TRUE, f |-> Stored(f)]
  BY <1>6, FrameDecoded
<1> QED BY <1>7 DEF Unmarshal


-----------------------------------------------------------------------------
(* A field this version does not know                                      *)

\* Whatever skipField takes as a whole is read as a field with number 10.
LEMMA UnknownBlock ==
  ASSUME NEW wt \in {0, 1, 2, 5}, NEW body \in Seq(Byte), body # << >>, NEW x,
         \A rest \in Seq(Byte) : skipField(body \o rest, wt) = [n |-> Len(body), v |-> x]
  PROVE  Reads(writeVarint[10 * 8 + wt] \o body, FrameWire, TRUE, 10, x)
<1> DEFINE tag == 10 * 8 + wt
<1>1. tag \in 0 .. MaxWord /\ tag \div 8 = 10 /\ tag % 8 = wt
  BY CodecAssumption
<1> HIDE DEF tag
<1>2. 10 \notin DOMAIN FrameWire
  BY FrameWireIs
<1>3. \A rest \in Seq(Byte) : Value(body \o rest, FrameWire, tag \div 8, tag % 8)
                                  = [n |-> Len(body), v |-> x]
  <2> TAKE rest \in Seq(Byte)
  <2>1. Value(body \o rest, FrameWire, 10, wt) = skipField(body \o rest, wt)
    BY <1>2, Zenon DEF Value
  <2>2. skipField(body \o rest, wt) = [n |-> Len(body), v |-> x]
    OBVIOUS
  <2> QED BY <1>1, <2>1, <2>2
<1>4. TRUE /\ tag \div 8 \in DOMAIN FrameWire => tag % 8 = FrameWire[tag \div 8]
  BY <1>1, <1>2
<1>5. Reads(writeVarint[tag] \o body, FrameWire, TRUE, tag \div 8, x)
  BY <1>1, <1>3, <1>4, BlockReads
<1> QED BY <1>1, <1>5 DEF tag

\* A field of a newer gateway is read whatever its wire type.
LEMMA UnknownRead ==
  ASSUME NEW wt \in {0, 1, 2, 5}
  PROVE  \E x : Reads(UnknownField(wt), FrameWire, TRUE, 10, x)
<1>a. Group \in Nat /\ Group > 2 /\ Group \in 0 .. MaxWord /\ MaxWord \in Nat /\ 2 <= MaxInt32
      /\ Group + 1 \in Byte /\ 1 \in Byte /\ 2 \in Byte /\ 2 \in 0 .. MaxWord
  BY CodecAssumption DEF Byte
<1>1. CASE wt = 0
  <2> DEFINE w == writeVarint[Group]
             g == Group
  <2>1. UnknownField(0) = writeVarint[10 * 8 + 0] \o w
    <3>1. 0 # 1 /\ 0 # 2
      OBVIOUS
    <3> QED BY <3>1, Zenon DEF UnknownField
  <2>2. IsVarint(w)
    BY <1>a, VarintShape
  <2>3. \A rest \in Seq(Byte) : readVarint(w \o rest) = [n |-> Len(w), v |-> g]
    BY <1>a, VarintRoundTrip
  <2> HIDE DEF w, g
  <2>4. w \in Seq(Byte) /\ w # << >>
    BY <2>2 DEF IsVarint
  <2>5. \A rest \in Seq(Byte) : skipField(w \o rest, 0) = [n |-> Len(w), v |-> g]
    BY <2>3 DEF skipField
  <2>6. 0 \in {0, 1, 2, 5}
    OBVIOUS
  <2>7. Reads(writeVarint[10 * 8 + 0] \o w, FrameWire, TRUE, 10, g)
    BY <2>4, <2>5, <2>6, UnknownBlock
  <2> QED BY <1>1, <2>1, <2>7
<1>2. CASE wt = 1
  <2> DEFINE b == [i \in 1 .. 8 |-> Group + 1]
  <2>1. UnknownField(1) = writeVarint[10 * 8 + 1] \o b
    BY DEF UnknownField
  <2>2. b \in Seq(Byte) /\ Len(b) = 8 /\ b # << >>
    BY <1>a
  <2> HIDE DEF b
  <2>3. \A rest \in Seq(Byte) : skipField(b \o rest, 1) = [n |-> Len(b), v |-> 0]
    <3> TAKE rest \in Seq(Byte)
    <3>1. b \in Seq(Byte) /\ Len(b) = 8
      BY <2>2
    <3>2. Len(b \o rest) = Len(b) + Len(rest) /\ Len(rest) \in Nat
      BY <3>1, ConcatProperties, LenProperties
    <3>3. ~(Len(b \o rest) < 8)
      BY <3>1, <3>2
    <3>4. fixed(b \o rest, 8) = [n |-> 8, v |-> 0]
      BY <3>3, Zenon DEF fixed
    <3> QED BY <2>2, <3>4 DEF skipField
  <2>4. 1 \in {0, 1, 2, 5}
    OBVIOUS
  <2>5. Reads(writeVarint[10 * 8 + 1] \o b, FrameWire, TRUE, 10, 0)
    BY <2>2, <2>3, <2>4, UnknownBlock
  <2> QED BY <1>2, <2>1, <2>5
<1>3. CASE wt = 2
  <2> DEFINE p == << 1, 1 >>
             b == << 2, 1, 1 >>
             w == writeVarint[Len(p)]
  <2>1. UnknownField(2) = writeVarint[10 * 8 + 2] \o b
    BY DEF UnknownField
  <2>2. p \in Seq(Byte) /\ Len(p) = 2 /\ b \in Seq(Byte) /\ Len(b) = 3 /\ b # << >>
    BY <1>a
  <2>3. w = << 2 >>
    BY <1>a, <2>2, OneByte
  <2>4. Len(w) + Len(p) = Len(b) /\ w \in Seq(Byte)
    BY <1>a, <2>2, <2>3
  <2>5. b = w \o p
    BY <2>3
  <2>6. \A rest \in Seq(Byte) : readBytes(w \o (p \o rest)) = [n |-> Len(w) + Len(p), v |-> p]
    BY <1>a, <2>2, ReadWrittenBytes
  <2> HIDE DEF p, b, w
  <2>7. \A rest \in Seq(Byte) : skipField(b \o rest, 2) = [n |-> Len(b), v |-> p]
    <3> TAKE rest \in Seq(Byte)
    <3>1. b \o rest = w \o (p \o rest)
      BY <2>2, <2>4, <2>5, BytesAssociative
    <3>2. readBytes(b \o rest) = [n |-> Len(b), v |-> p]
      BY <2>4, <2>6, <3>1
    <3> QED BY <3>2 DEF skipField
  <2>8. 2 \in {0, 1, 2, 5}
    OBVIOUS
  <2>9. Reads(writeVarint[10 * 8 + 2] \o b, FrameWire, TRUE, 10, p)
    BY <2>2, <2>7, <2>8, UnknownBlock
  <2> QED BY <1>3, <2>1, <2>9
<1>4. CASE wt = 5
  <2> DEFINE b == [i \in 1 .. 4 |-> Group + 1]
  <2>1. UnknownField(5) = writeVarint[10 * 8 + 5] \o b
    BY DEF UnknownField
  <2>2. b \in Seq(Byte) /\ Len(b) = 4 /\ b # << >>
    BY <1>a
  <2> HIDE DEF b
  <2>3. \A rest \in Seq(Byte) : skipField(b \o rest, 5) = [n |-> Len(b), v |-> 0]
    <3> TAKE rest \in Seq(Byte)
    <3>1. b \in Seq(Byte) /\ Len(b) = 4
      BY <2>2
    <3>2. Len(b \o rest) = Len(b) + Len(rest) /\ Len(rest) \in Nat
      BY <3>1, ConcatProperties, LenProperties
    <3>3. ~(Len(b \o rest) < 4)
      BY <3>1, <3>2
    <3>4. fixed(b \o rest, 4) = [n |-> 4, v |-> 0]
      BY <3>3, Zenon DEF fixed
    <3> QED BY <2>2, <3>4 DEF skipField
  <2>4. 5 \in {0, 1, 2, 5}
    OBVIOUS
  <2>5. Reads(writeVarint[10 * 8 + 5] \o b, FrameWire, TRUE, 10, 0)
    BY <2>2, <2>3, <2>4, UnknownBlock
  <2> QED BY <1>4, <2>1, <2>5
<1> QED BY <1>1, <1>2, <1>3, <1>4

\* A block that changes none of the first n states, and the states with it.
Ignores(st, n, no, x) == \A i \in 0 .. n : ~Refused(st[i], no, x) /\ Put(st[i], no, x) = st[i]
Shifted(ts, st, n, k) == \A i \in 0 .. n + 1 : ts[i] = IF i < k THEN st[i] ELSE st[i - 1]

\* Blocks with one more among them that changes nothing.
LEMMA InsertedReading ==
  ASSUME NEW C, NEW st, NEW need, NEW strict, Reading(C, st, need, strict),
         NEW k \in 1 .. Len(C) + 1, NEW u, NEW no, NEW x, Reads(u, need, strict, no, x),
         Ignores(st, Len(C), no, x), NEW ts, Shifted(ts, st, Len(C), k)
  PROVE  Reading(InsertAt(C, k, u), ts, need, strict) /\ Len(InsertAt(C, k, u)) = Len(C) + 1
<1> DEFINE n == Len(C)
           U == Seq(Byte)
           A == SubSeq(C, 1, k - 1)
           B == SubSeq(C, k, n)
           D == InsertAt(C, k, u)
<1>1. C \in Seq(U) /\ n \in Nat /\ k \in Nat /\ \A i \in 1 .. n : C[i] \in U
  BY DEF Reading
<1>2. \A i \in 1 .. n : \E j, y : /\ Reads(C[i], need, strict, j, y)
                                  /\ ~Refused(st[i - 1], j, y)
                                  /\ st[i] = Put(st[i - 1], j, y)
  BY DEF Reading
<1>3. u \in U
  BY DEF Reads
<1>4. D = A \o << u >> \o B
  BY DEF InsertAt
<1> HIDE DEF D, U
<1>5. /\ A \in Seq(U) /\ Len(A) = k - 1 /\ \A i \in 1 .. k - 1 : A[i] = C[i]
      /\ B \in Seq(U) /\ Len(B) = n - k + 1 /\ \A i \in 1 .. n - k + 1 : B[i] = C[k + i - 1]
  BY <1>1
<1> HIDE DEF A, B, n
<1>6. /\ A \o << u >> \in Seq(U) /\ Len(A \o << u >>) = k
      /\ \A i \in 1 .. k - 1 : (A \o << u >>)[i] = C[i]
      /\ (A \o << u >>)[k] = u
  BY <1>1, <1>3, <1>5
<1>7. /\ D \in Seq(U) /\ Len(D) = n + 1
      /\ \A i \in 1 .. k - 1 : D[i] = C[i]
      /\ D[k] = u
      /\ \A i \in k + 1 .. n + 1 : D[i] = C[i - 1]
  <2> DEFINE V == A \o << u >>
  <2> HIDE DEF V
  <2>1. /\ V \in Seq(U) /\ Len(V) = k /\ D = V \o B /\ V[k] = u
        /\ \A i \in 1 .. k - 1 : V[i] = C[i]
    BY <1>4, <1>6 DEF V
  <2>2. k \in 1 .. n + 1
    BY DEF n
  <2>3. /\ V \o B \in Seq(U) /\ Len(V \o B) = Len(V) + Len(B)
        /\ \A i \in 1 .. Len(V) : (V \o B)[i] = V[i]
        /\ \A i \in 1 .. Len(B) : (V \o B)[Len(V) + i] = B[i]
    <3>1. V \in Seq(U) /\ B \in Seq(U)
      BY <1>5, <2>1
    <3> HIDE DEF B
    <3> QED BY <3>1, Joined
  <2>4. D \in Seq(U) /\ Len(D) = n + 1
    BY <1>1, <1>5, <2>1, <2>3
  <2>5. \A i \in 1 .. k : D[i] = V[i]
    BY <2>1, <2>3
  <2>6. \A i \in 1 .. n - k + 1 : D[k + i] = B[i] /\ B[i] = C[k + i - 1]
    BY <1>5, <2>1, <2>3
  <2>7. \A i \in k + 1 .. n + 1 : D[i] = C[i - 1]
    <3> TAKE i \in k + 1 .. n + 1
    <3>1. i - k \in 1 .. n - k + 1 /\ k + (i - k) = i /\ k + (i - k) - 1 = i - 1
      BY <1>1, <2>2
    <3> QED BY <2>6, <3>1
  <2>8. k \in 1 .. k /\ \A i \in 1 .. k - 1 : i \in 1 .. k
    BY <2>2
  <2> QED BY <2>1, <2>4, <2>5, <2>7, <2>8
<1>8. k \in 1 .. n + 1 /\ \A i \in 0 .. n + 1 : ts[i] = IF i < k THEN st[i] ELSE st[i - 1]
  BY DEF n, Shifted
<1>9. ASSUME NEW i \in 1 .. n + 1
      PROVE  \E j, y : /\ Reads(D[i], need, strict, j, y)
                       /\ ~Refused(ts[i - 1], j, y)
                       /\ ts[i] = Put(ts[i - 1], j, y)
  <2>0. i \in 0 .. n + 1 /\ i - 1 \in 0 .. n + 1
    BY <1>1
  <2>1. CASE i < k
    <3>1. D[i] = C[i] /\ i \in 1 .. n /\ ts[i] = st[i] /\ ts[i - 1] = st[i - 1]
      BY <1>1, <1>7, <1>8, <2>0, <2>1
    <3> QED BY <1>2, <3>1
  <2>2. CASE i = k
    <3>1. D[i] = u /\ ts[i] = st[i - 1] /\ ts[i - 1] = st[i - 1] /\ i - 1 \in 0 .. n
      BY <1>1, <1>7, <1>8, <2>0, <2>2
    <3>2. ~Refused(st[i - 1], no, x) /\ Put(st[i - 1], no, x) = st[i - 1]
      BY <3>1 DEF n, Ignores
    <3> QED BY <3>1, <3>2
  <2>3. CASE i > k
    <3>1. i \in k + 1 .. n + 1 /\ i - 1 \in 1 .. n
      BY <1>1, <1>8, <2>3
    <3>2. D[i] = C[i - 1]
      BY <1>7, <3>1
    <3>3. ts[i] = st[i - 1]
      BY <1>1, <1>8, <2>0, <2>3
    <3>4. ts[i - 1] = st[i - 1 - 1]
      BY <1>1, <1>8, <2>0, <2>3
    <3> QED BY <1>2, <3>1, <3>2, <3>3, <3>4
  <2> QED BY <1>1, <2>1, <2>2, <2>3
<1>10. Reading(D, ts, need, strict)
  BY <1>7, <1>9 DEF Reading, U
<1> QED BY <1>7, <1>10 DEF D, n

\* A field that is not one of a frame is skipped.
LEMMA UnknownSkipped ==
  ASSUME NEW f, NEW i, NEW x
  PROVE  ~Refused(ReadSoFar(f, i), 10, x) /\ Put(ReadSoFar(f, i), 10, x) = ReadSoFar(f, i)
<1>1. DOMAIN ReadSoFar(f, i) = 1 .. 9
  BY DEF ReadSoFar
<1>2. 10 \notin DOMAIN ReadSoFar(f, i)
  BY <1>1
<1> QED BY <1>2, Zenon DEF Refused, Put

\* A frame that carries an unknown field, wherever it is, is read as it was sent.
THEOREM UnknownFieldIgnored ==
  ASSUME NEW f, IsFrame(f), NEW wt \in {0, 1, 2, 5}, NEW k \in 1 .. Len(MarshalFields(f)) + 1
  PROVE  Unmarshal(Extended(f, k, wt)) = [ok |-> TRUE, f |-> Stored(f)]
<1> DEFINE M == MarshalFields(f)
           m == BlockCount(f)
           st == [i \in 0 .. m |-> ReadSoFar(f, i)]
           ts == [i \in 0 .. m + 1 |-> IF i < k THEN st[i] ELSE st[i - 1]]
           u == UnknownField(wt)
           D == InsertAt(M, k, u)
           d == FlattenSeq(D)
<1>1. Len(M) = m /\ m \in Nat \ {0} /\ ReadSoFar(f, 0) = NoFields
  BY FrameReads
<1>2. \A i \in 0 .. m : st[i] = ReadSoFar(f, i)
  OBVIOUS
<1> HIDE DEF st
<1>3. Reading(M, st, FrameWire, TRUE)
  BY <1>2, FrameReading
<1>4. PICK x : Reads(u, FrameWire, TRUE, 10, x)
  BY UnknownRead
<1>5. \A i \in 0 .. m : ~Refused(st[i], 10, x) /\ Put(st[i], 10, x) = st[i]
  BY <1>2, UnknownSkipped
<1>6. k \in 1 .. m + 1 /\ \A i \in 0 .. m + 1 : ts[i] = IF i < k THEN st[i] ELSE st[i - 1]
  BY <1>1
<1>7. ts[0] = NoFields /\ ts[m + 1] = ReadSoFar(f, m)
  <2>1. 0 \in 0 .. m + 1 /\ m + 1 \in 0 .. m + 1 /\ 0 < k /\ ~(m + 1 < k) /\ m + 1 - 1 = m
        /\ 0 \in 0 .. m /\ m \in 0 .. m
    BY <1>1, <1>6
  <2>2. ts[0] = st[0] /\ ts[m + 1] = st[m]
    BY <1>6, <2>1
  <2> QED BY <1>1, <1>2, <2>1, <2>2
<1> HIDE DEF M, m, ts, u
<1>8. Reading(D, ts, FrameWire, TRUE) /\ Len(D) = m + 1
  <2>1. k \in 1 .. Len(M) + 1
    BY <1>1, <1>6
  <2>2. Ignores(st, Len(M), 10, x)
    BY <1>1, <1>5 DEF Ignores
  <2>3. Shifted(ts, st, Len(M), k)
    BY <1>1, <1>6 DEF Shifted
  <2>4. Reading(InsertAt(M, k, u), ts, FrameWire, TRUE) /\ Len(InsertAt(M, k, u)) = Len(M) + 1
    BY <1>3, <1>4, <2>1, <2>2, <2>3, InsertedReading
  <2> QED BY <1>1, <2>4
<1> HIDE DEF D
<1>9. readFields(d, FrameWire, TRUE, ts[0]) = [ok |-> TRUE, at |-> Len(d), f |-> ts[m + 1]]
  BY <1>8, BlocksRead
<1> DEFINE e == Len(d)
<1>10. readFields(d, FrameWire, TRUE, NoFields) = [ok |-> TRUE, at |-> e, f |-> ReadSoFar(f, m)]
  BY <1>7, <1>9
<1> HIDE DEF e
<1>11. Decoded(readFields(d, FrameWire, TRUE, NoFields)) = [ok |-> TRUE, f |-> Stored(f)]
  BY <1>10, FrameDecoded DEF m
<1>12. Extended(f, k, wt) = d
  BY DEF Extended, D, M, u
<1> QED BY <1>11, <1>12 DEF Unmarshal

-----------------------------------------------------------------------------
(* A frame that was cut                                                    *)

\* Two sequences of bytes are one.
LEMMA BytesJoined ==
  \A s, t \in Seq(Byte) : s \o t \in Seq(Byte) /\ Len(s \o t) = Len(s) + Len(t)
OBVIOUS

\* The beginning of two sequences of bytes in a row.
LEMMA CutConcat ==
  ASSUME NEW s \in Seq(Byte), NEW t \in Seq(Byte), NEW n \in 0 .. Len(t)
  PROVE  SubSeq(s \o t, 1, Len(s) + n) = s \o SubSeq(t, 1, n)
<1> DEFINE d == s \o t
           u == SubSeq(t, 1, n)
           l == SubSeq(d, 1, Len(s) + n)
           r == s \o u
<1>1. /\ d \in Seq(Byte) /\ Len(d) = Len(s) + Len(t) /\ Len(s) \in Nat /\ Len(t) \in Nat /\ n \in Nat
      /\ \A i \in 1 .. Len(s) : d[i] = s[i]
      /\ \A i \in 1 .. Len(t) : d[Len(s) + i] = t[i]
  OBVIOUS
<1>2. u \in Seq(Byte) /\ Len(u) = n /\ \A i \in 1 .. n : u[i] = t[i]
  OBVIOUS
<1> HIDE DEF d, u
<1>3. /\ l \in Seq(Byte) /\ Len(l) = Len(s) + n
      /\ \A i \in 1 .. Len(s) + n : l[i] = d[i]
  BY <1>1
<1>4. /\ r \in Seq(Byte) /\ Len(r) = Len(s) + n
      /\ \A i \in 1 .. Len(s) : r[i] = s[i]
      /\ \A i \in 1 .. n : r[Len(s) + i] = u[i]
  <2>1. u \in Seq(Byte)
    BY <1>2
  <2>2. /\ r \in Seq(Byte) /\ Len(r) = Len(s) + Len(u)
        /\ \A i \in 1 .. Len(s) : r[i] = s[i]
        /\ \A i \in 1 .. Len(u) : r[Len(s) + i] = u[i]
    BY <2>1, Joined
  <2> HIDE DEF r
  <2> QED BY <1>2, <2>2
<1> HIDE DEF l, r
<1>5. \A i \in 1 .. Len(s) + n : l[i] = r[i]
  <2> TAKE i \in 1 .. Len(s) + n
  <2>1. CASE i \in 1 .. Len(s)
    BY <1>1, <1>3, <1>4, <2>1
  <2>2. CASE i \notin 1 .. Len(s)
    <3>1. i - Len(s) \in 1 .. n /\ Len(s) + (i - Len(s)) = i /\ i - Len(s) \in 1 .. Len(t)
      BY <1>1, <2>2
    <3>2. l[i] = d[i] /\ d[i] = t[i - Len(s)]
      BY <1>1, <1>3, <3>1
    <3>3. r[i] = u[i - Len(s)] /\ u[i - Len(s)] = t[i - Len(s)]
      BY <1>2, <1>4, <3>1
    <3> QED BY <3>2, <3>3
  <2> QED BY <2>1, <2>2
<1>6. l = r
  BY <1>3, <1>4, <1>5, SeqEqual
<1> QED BY <1>6 DEF l, r, d, u

\* A number is no number without its last byte.
LEMMA CutNumber ==
  ASSUME NEW v \in 0 .. MaxWord, NEW t \in Seq(Byte), NEW n \in 0 .. Len(writeVarint[v]) - 1
  PROVE  SubSeq(writeVarint[v] \o t, 1, n) \in Seq(Byte)
         /\ readVarint(SubSeq(writeVarint[v] \o t, 1, n)) = Bad
<1> DEFINE w == writeVarint[v]
           d == w \o t
           r == SubSeq(d, 1, n)
<1>1. IsVarint(w)
  BY VarintShape
<1> HIDE DEF w
<1>2. w \in Seq(Byte) /\ Len(w) \in Nat \ {0} /\ \A i \in 1 .. Len(w) - 1 : w[i] >= Group
  BY <1>1 DEF IsVarint
<1>3. n \in 0 .. Len(w) - 1
  BY DEF w
<1>4. /\ d \in Seq(Byte) /\ Len(d) = Len(w) + Len(t) /\ Len(t) \in Nat
      /\ \A i \in 1 .. Len(w) : d[i] = w[i]
  BY <1>2
<1> HIDE DEF d
<1>5. r \in Seq(Byte) /\ Len(r) = n /\ \A i \in 1 .. n : r[i] = d[i]
  BY <1>2, <1>3, <1>4
<1> HIDE DEF r
<1>6. \A i \in 1 .. Len(r) : r[i] >= Group
  <2> TAKE i \in 1 .. Len(r)
  <2>1. i \in 1 .. Len(w) - 1 /\ i \in 1 .. Len(w) /\ i \in 1 .. n
    BY <1>2, <1>3, <1>5
  <2> QED BY <1>2, <1>4, <1>5, <2>1
<1>7. readVarint(r) = Bad
  BY <1>5, <1>6, ReadUnended
<1> QED BY <1>5, <1>7 DEF r, d, w

\* Bytes are not read when one of them, or of their length, is missing.
LEMMA CutBytes ==
  ASSUME NEW p \in Seq(Byte), Len(p) <= MaxInt32,
         NEW n \in 0 .. Len(writeVarint[Len(p)]) + Len(p) - 1
  PROVE  SubSeq(writeVarint[Len(p)] \o p, 1, n) \in Seq(Byte)
         /\ readBytes(SubSeq(writeVarint[Len(p)] \o p, 1, n)) = Bad
<1> DEFINE w == writeVarint[Len(p)]
           r == SubSeq(w \o p, 1, n)
<1>a. Len(p) \in 0 .. MaxWord /\ Len(p) \in Nat
  BY CodecAssumption
<1>1. IsVarint(w)
  BY <1>a, VarintShape
<1>2. \A rest \in Seq(Byte) : readVarint(w \o rest) = [n |-> Len(w), v |-> Len(p)]
  BY <1>a, VarintRoundTrip
<1>3. n \in 0 .. Len(w) - 1 => r \in Seq(Byte) /\ readVarint(r) = Bad
  BY <1>a, CutNumber
<1>4. n \in 0 .. Len(w) + Len(p) - 1
  OBVIOUS
<1> HIDE DEF w
<1>5. w \in Seq(Byte) /\ Len(w) \in Nat \ {0}
  BY <1>1 DEF IsVarint
<1>6. CASE n < Len(w)
  <2>1. r \in Seq(Byte) /\ readVarint(r) = Bad
    BY <1>3, <1>4, <1>5, <1>6
  <2>2. Bytes(r, Bad) = Bad
    BY DEF Bytes, Bad
  <2> QED BY <2>1, <2>2 DEF readBytes, w
<1>7. CASE n >= Len(w)
  <2> DEFINE j == n - Len(w)
             q == SubSeq(p, 1, j)
             len == [n |-> Len(w), v |-> Len(p)]
  <2>1. j \in 0 .. Len(p) /\ j < Len(p) /\ Len(w) + j = n
    BY <1>4, <1>5, <1>7, <1>a
  <2> HIDE DEF j
  <2>2. q \in Seq(Byte) /\ Len(q) = j
    BY <2>1, <1>a
  <2>3. r = w \o q
    BY <1>5, <2>1, CutConcat
  <2> HIDE DEF q, r
  <2>4. readVarint(r) = len /\ r \in Seq(Byte) /\ Len(r) = Len(w) + j
    <3>1. w \o q \in Seq(Byte) /\ Len(w \o q) = Len(w) + Len(q)
      BY <1>5, <2>2, BytesJoined
    <3> QED BY <1>2, <2>2, <2>3, <3>1
  <2>5. len.n = Len(w) /\ len.v = Len(p)
    OBVIOUS
  <2> HIDE DEF len
  <2>6. len.n = 0 \/ len.v > MaxInt32 \/ Len(r) - len.n < len.v
    BY <1>5, <1>a, <2>1, <2>4, <2>5
  <2>7. Bytes(r, len) = Bad
    BY <2>6, Zenon DEF Bytes
  <2>8. r \in Seq(Byte) /\ readBytes(r) = Bad
    BY <2>4, <2>7 DEF readBytes
  <2> QED BY <2>8 DEF r, w
<1> QED BY <1>4, <1>5, <1>6, <1>7

\* A field of bytes that was cut is no field.
LEMMA CutField ==
  ASSUME NEW k \in 0 .. 10, NEW p \in Seq(Byte), Len(p) <= MaxInt32,
         NEW need, NEW strict \in BOOLEAN, k \in DOMAIN need, need[k] = 2,
         NEW n \in 0 .. Len(tagBytes(k, p)) - 1
  PROVE  Tagged(SubSeq(tagBytes(k, p), 1, n), need, strict) = Bad
<1> DEFINE tag == k * 8 + 2
           t == writeVarint[tag]
           w == writeVarint[Len(p)]
           body == w \o p
           b == tagBytes(k, p)
           r == SubSeq(b, 1, n)
<1>1. tag \in 0 .. MaxWord /\ tag \div 8 = k /\ tag % 8 = 2
  BY CodecAssumption
<1>a. Len(p) \in 0 .. MaxWord /\ Len(p) \in Nat
  BY CodecAssumption
<1>2. IsVarint(w) /\ IsVarint(t)
  BY <1>1, <1>a, VarintShape
<1>3. b = t \o w \o p
  BY DEF tagBytes
<1> HIDE DEF tag, b
<1>4. /\ body \in Seq(Byte) => (n \in 0 .. Len(t) - 1 => readVarint(SubSeq(t \o body, 1, n)) = Bad)
      /\ \A j \in 0 .. Len(w) + Len(p) - 1 :
            SubSeq(body, 1, j) \in Seq(Byte) /\ readBytes(SubSeq(body, 1, j)) = Bad
  <2>1. ASSUME body \in Seq(Byte), n \in 0 .. Len(t) - 1
        PROVE  readVarint(SubSeq(t \o body, 1, n)) = Bad
    <3> HIDE DEF w, body
    <3> QED BY <1>1, <2>1, CutNumber
  <2>2. ASSUME NEW j \in 0 .. Len(w) + Len(p) - 1
        PROVE  SubSeq(body, 1, j) \in Seq(Byte) /\ readBytes(SubSeq(body, 1, j)) = Bad
    BY CutBytes
  <2> HIDE DEF t, w, body
  <2> QED BY <2>1, <2>2
<1> HIDE DEF t, w
<1>5. t \in Seq(Byte) /\ w \in Seq(Byte) /\ Len(t) \in Nat \ {0} /\ Len(w) \in Nat
  BY <1>2 DEF IsVarint
<1>6. b = t \o body /\ body \in Seq(Byte) /\ Len(body) = Len(w) + Len(p)
  <2>1. t \in Seq(Byte) /\ w \in Seq(Byte) /\ p \in Seq(Byte)
    BY <1>5
  <2> QED BY <1>3, <2>1, BytesAssociative, BytesJoined
<1> HIDE DEF body
<1>7. n \in 0 .. Len(t) + Len(body) - 1
  <2>1. n \in 0 .. Len(b) - 1
    BY DEF b
  <2> QED BY <1>5, <1>6, <2>1
<1>8. CASE n < Len(t)
  <2>1. n \in 0 .. Len(t) - 1
    BY <1>5, <1>7, <1>8
  <2>2. readVarint(r) = Bad
    BY <1>4, <1>6, <2>1
  <2>3. TagThen(r, need, strict, Bad) = Bad
    <3>1. Bad.n = 0
      BY DEF Bad
    <3> QED BY <3>1, Zenon DEF TagThen
  <2> QED BY <2>2, <2>3 DEF Tagged, b
<1>9. CASE n >= Len(t)
  <2> DEFINE j == n - Len(t)
             q == SubSeq(body, 1, j)
  <2>1. j \in 0 .. Len(body) - 1 /\ j \in 0 .. Len(body) /\ Len(t) + j = n
    BY <1>5, <1>6, <1>7, <1>9, <1>a
  <2> HIDE DEF j
  <2>2. q \in Seq(Byte) /\ readBytes(q) = Bad
    BY <1>4, <1>6, <2>1
  <2>3. r = t \o q
    BY <1>5, <1>6, <2>1, CutConcat
  <2> HIDE DEF q, r
  <2>4. (t \o q) \o << >> = t \o q /\ q \o << >> = q /\ << >> \in Seq(Byte)
    BY <1>5, <2>2
  <2>5. strict /\ tag \div 8 \in DOMAIN need => tag % 8 = need[tag \div 8]
    BY <1>1
  <2> DEFINE e == << >>
  <2>6. Tagged((t \o q) \o e, need, strict)
          = Field([n |-> Len(t), v |-> tag], Value(q \o e, need, tag \div 8, tag % 8))
    <3> HIDE DEF e
    <3>1. e \in Seq(Byte)
      BY <2>4 DEF e
    <3> QED BY <1>1, <2>2, <2>5, <3>1, TagReads DEF t
  <2>7. Value(q, need, k, 2) = readBytes(q)
    BY DEF Value
  <2>8. Field([n |-> Len(t), v |-> tag], Bad) = Bad
    <3>1. Bad.n = 0
      BY DEF Bad
    <3> QED BY <3>1, Zenon DEF Field
  <2>9. Tagged(r, need, strict) = Bad
    BY <1>1, <2>2, <2>3, <2>4, <2>6, <2>7, <2>8
  <2> QED BY <2>9 DEF r, b
<1> QED BY <1>5, <1>7, <1>8, <1>9

\* The blocks but the last.
LEMMA FrontReading ==
  ASSUME NEW C, NEW st, NEW need, NEW strict, Reading(C, st, need, strict), Len(C) # 0
  PROVE  LET A == SubSeq(C, 1, Len(C) - 1)
         IN  /\ Reading(A, st, need, strict) /\ FlattenSeq(A) \in Seq(Byte)
             /\ C[Len(C)] \in Seq(Byte)
             /\ FlattenSeq(C) = FlattenSeq(A) \o C[Len(C)]
<1> DEFINE n == Len(C) - 1
           A == SubSeq(C, 1, n)
<1>1. C \in Seq(Seq(Byte)) /\ n \in Nat /\ n + 1 = Len(C) /\ C[Len(C)] \in Seq(Byte)
  BY DEF Reading
<1>2. A \in Seq(Seq(Byte)) /\ Len(A) = n /\ \A i \in 1 .. n : A[i] = C[i] /\ i \in 1 .. Len(C)
  BY <1>1
<1>3. SubSeq(C, 1, n + 1) = C
  BY <1>1, SubSeqFull
<1>4. FlattenSeq(SubSeq(C, 1, n + 1)) = FlattenSeq(A) \o C[n + 1]
  <2>1. n \in 0 .. Len(C) - 1
    BY <1>1
  <2> HIDE DEF n
  <2> QED BY <1>1, <2>1, FlattenPrefix
<1>5. \A i \in 1 .. Len(C) : \E k, x : /\ Reads(C[i], need, strict, k, x)
                                       /\ ~Refused(st[i - 1], k, x)
                                       /\ st[i] = Put(st[i - 1], k, x)
  BY DEF Reading
<1> HIDE DEF A, n
<1>6. Reading(A, st, need, strict)
  BY <1>2, <1>5 DEF Reading
<1>7. FlattenSeq(A) \in Seq(Byte)
  BY <1>2, FlattenBytes
<1>8. FlattenSeq(C) = FlattenSeq(A) \o C[Len(C)]
  BY <1>1, <1>3, <1>4
<1> QED BY <1>1, <1>6, <1>7, <1>8 DEF A, n

\* A frame that lost the end of its last field is refused.
THEOREM CutFrameRefused ==
  ASSUME NEW f, IsFrame(f), NEW c \in 1 .. Len(tagBytes(9, f[9])) - 1
  PROVE  Unmarshal(SubSeq(Marshal(f), 1, Len(Marshal(f)) - c)) = Broken
<1> DEFINE M == MarshalFields(f)
           m == BlockCount(f)
           st == [i \in 0 .. m |-> ReadSoFar(f, i)]
           A == SubSeq(M, 1, Len(M) - 1)
           a == FlattenSeq(A)
           b == tagBytes(9, f[9])
           n == Len(b) - c
           r == SubSeq(b, 1, n)
           d == SubSeq(Marshal(f), 1, Len(Marshal(f)) - c)
<1>1. Len(M) = m /\ m \in Nat \ {0} /\ ReadSoFar(f, 0) = NoFields
  BY FrameReads
<1>2. \A i \in 0 .. m : st[i] = ReadSoFar(f, i)
  OBVIOUS
<1>3. Reading(M, st, FrameWire, TRUE)
  BY <1>2, FrameReading
<1>4. st[0] = NoFields
  BY <1>1
<1>5. M[m] = b
  BY FrameBlocks
<1>6. f[9] \in Seq(Byte) /\ Len(f[9]) <= MaxInt32
  BY DEF IsFrame, IsText
<1>7. Marshal(f) = FlattenSeq(M)
  BY DEF Marshal
<1> HIDE DEF M, m, st
<1>8. Len(M) # 0
  BY <1>1
<1>9. Reading(A, st, FrameWire, TRUE) /\ a \in Seq(Byte) /\ b \in Seq(Byte)
      /\ Marshal(f) = a \o b
  BY <1>1, <1>3, <1>5, <1>7, <1>8, FrontReading
<1>10. \A j \in 0 .. Len(b) - 1 : Tagged(SubSeq(b, 1, j), FrameWire, TRUE) = Bad
  <2>1. 9 \in 0 .. 10 /\ 9 \in DOMAIN FrameWire /\ FrameWire[9] = 2 /\ TRUE \in BOOLEAN
    BY FrameWireIs
  <2> QED BY <1>6, <2>1, CutField
<1>11. c \in 1 .. Len(b) - 1
  OBVIOUS
<1> HIDE DEF b
<1>12. n \in 0 .. Len(b) - 1 /\ n \in 0 .. Len(b) /\ n # 0 /\ Len(b) \in Nat /\ c \in Nat /\ Len(b) = n + c
  BY <1>9, <1>11
<1> HIDE DEF n
<1>13. Tagged(r, FrameWire, TRUE) = Bad
  BY <1>10, <1>12
<1>14. r \in Seq(Byte) /\ r # << >>
  <2> HIDE DEF a
  <2>1. \A i \in 1 .. n : b[i] \in Byte
    BY <1>9, <1>12
  <2>2. r \in Seq(Byte) /\ Len(r) = n
    BY <1>12, <2>1, SubSeqProperties
  <2> QED BY <1>12, <2>2
<1>15. d = a \o r
  <2> HIDE DEF a
  <2>1. Len(a \o b) - c = Len(a) + n
    <3>1. Len(a \o b) = Len(a) + Len(b) /\ Len(a) \in Nat
      BY <1>9, BytesJoined
    <3> QED BY <1>12, <3>1
  <2>2. SubSeq(a \o b, 1, Len(a) + n) = a \o r
    BY <1>9, <1>12, CutConcat
  <2> QED BY <1>9, <2>1, <2>2
<1> HIDE DEF r, A
<1>16. readFields(a \o r, FrameWire, TRUE, st[0]) = Broken
  BY <1>9, <1>13, <1>14, BlocksBreak
<1>17. readFields(d, FrameWire, TRUE, NoFields) = Broken
  BY <1>4, <1>15, <1>16
<1>18. Decoded(Broken) = Broken
  <2>1. ~Broken.ok
    BY DEF Broken
  <2> QED BY <2>1, Zenon DEF Decoded
<1> HIDE DEF d
<1>19. Unmarshal(d) = Broken
  BY <1>17, <1>18 DEF Unmarshal
<1> QED BY <1>19 DEF d

-----------------------------------------------------------------------------
(* Every frame on every way                                                *)

\* What the bytes are: the frame as it was encoded, with a field more, or
\* without the end of its last field.
Damaged(f, d, how) ==
    CASE how = "none" -> TRUE
      [] how = "encoded" -> d = Marshal(f)
      [] how = "extended" -> \E wt \in {0, 1, 2, 5}, k \in 1 .. Len(MarshalFields(f)) + 1 :
                                d = Extended(f, k, wt)
      [] how = "cut" -> \E c \in 1 .. Len(tagBytes(9, f[9])) - 1 :
                                d = SubSeq(Marshal(f), 1, Len(Marshal(f)) - c)

CodecInv ==
    /\ IsFrame(frame)
    /\ damage \in {"none", "encoded", "extended", "cut"}
    /\ Damaged(frame, data, damage)

\* The cases of Damaged.
LEMMA DamagedIs ==
  ASSUME NEW f, NEW d
  PROVE  /\ Damaged(f, d, "none")
         /\ Damaged(f, d, "encoded") <=> d = Marshal(f)
         /\ Damaged(f, d, "extended") <=>
               \E wt \in {0, 1, 2, 5}, k \in 1 .. Len(MarshalFields(f)) + 1 : d = Extended(f, k, wt)
         /\ Damaged(f, d, "cut") <=>
               \E c \in 1 .. Len(tagBytes(9, f[9])) - 1 :
                  d = SubSeq(Marshal(f), 1, Len(Marshal(f)) - c)
BY DEF Damaged

\* The frames the system starts with are within the limits of the decoder.
LEMMA CodecInitInv == CodecInit => CodecInv
<1> SUFFICES ASSUME CodecInit PROVE CodecInv
  OBVIOUS
<1>1. PICK n \in Numbers, service \in {0, MaxInt32}, hs \in HeaderLists,
           p \in Texts \cup {Nil}, t \in Texts : frame = FrameOf(n, service, hs, p, t)
  BY DEF CodecInit
<1>2. n \in 0 .. MaxWord /\ service \in 0 .. MaxInt32 /\ 1 \in 0 .. MaxInt32
  BY FrameAssumption, CodecAssumption
<1>3. IsText(t) /\ (p = Nil \/ IsText(p)) /\ IsHeaderList(hs)
  BY FrameAssumption
<1>4. IsText(<< >>)
  BY CodecAssumption DEF IsText
<1>5. frame = << n, n, service, 1, hs, t, << >>, p, t >>
  BY <1>1 DEF FrameOf
<1>6. IsFrame(frame)
  <2>1. /\ frame[1] = n /\ frame[2] = n /\ frame[3] = service /\ frame[4] = 1 /\ frame[5] = hs
        /\ frame[6] = t /\ frame[7] = << >> /\ frame[8] = p /\ frame[9] = t
    BY <1>5
  <2>2. frame = << frame[1], frame[2], frame[3], frame[4], frame[5], frame[6], frame[7],
                   frame[8], frame[9] >>
    BY <1>5, <2>1
  <2> QED BY <1>2, <1>3, <1>4, <2>1, <2>2 DEF IsFrame
<1>7. damage = "none"
  BY DEF CodecInit
<1> QED BY <1>6, <1>7, DamagedIs DEF CodecInv

\* Every step keeps what is known of the bytes.
LEMMA CodecNextInv == CodecInv /\ [CodecNext]_codecVars => CodecInv'
<1> SUFFICES ASSUME CodecInv, [CodecNext]_codecVars PROVE CodecInv'
  OBVIOUS
<1>1. CASE Encode
  <2>1. frame' = frame /\ data' = Marshal(frame) /\ damage' = "encoded"
    BY <1>1 DEF Encode
  <2>2. Damaged(frame, data', "encoded")
    BY <2>1, DamagedIs
  <2> QED BY <2>1, <2>2 DEF CodecInv
<1>2. ASSUME NEW wireType \in {0, 1, 2, 5}, Extend(wireType) PROVE CodecInv'
  <2>1. frame' = frame /\ damage' = "extended"
    BY <1>2 DEF Extend
  <2>2. \E k \in 1 .. Len(MarshalFields(frame)) + 1 : data' = Extended(frame, k, wireType)
    BY <1>2 DEF Extend
  <2>3. Damaged(frame, data', "extended")
    BY <2>2, DamagedIs
  <2> QED BY <2>1, <2>3 DEF CodecInv
<1>3. CASE Cut
  <2>1. frame' = frame /\ damage' = "cut" /\ damage = "encoded"
    BY <1>3 DEF Cut
  <2>2. data = Marshal(frame)
    BY <2>1, DamagedIs DEF CodecInv
  <2>3. \E k \in 1 .. Len(tagBytes(9, frame[9])) - 1 : data' = SubSeq(data, 1, Len(data) - k)
    BY <1>3 DEF Cut
  <2>4. Damaged(frame, data', "cut")
    BY <2>2, <2>3, DamagedIs
  <2> QED BY <2>1, <2>4 DEF CodecInv
<1>4. CASE UNCHANGED codecVars
  BY <1>4 DEF CodecInv, codecVars
<1> QED BY <1>1, <1>2, <1>3, <1>4 DEF CodecNext

\* What is known of the bytes says how they are read.
LEMMA CodecInvFaithful == CodecInv => FramesFaithful
<1> SUFFICES ASSUME CodecInv PROVE FramesFaithful
  OBVIOUS
<1>1. IsFrame(frame) /\ Damaged(frame, data, damage)
      /\ damage \in {"none", "encoded", "extended", "cut"}
  BY DEF CodecInv
<1>2. CASE damage = "none"
  BY <1>2 DEF FramesFaithful
<1>3. CASE damage = "encoded"
  <2>1. data = Marshal(frame)
    BY <1>1, <1>3, DamagedIs
  <2>2. Unmarshal(data) = [ok |-> TRUE, f |-> Stored(frame)]
    BY <1>1, <2>1, RoundTrip
  <2> QED BY <1>3, <2>2 DEF FramesFaithful
<1>4. CASE damage = "extended"
  <2>1. PICK wt \in {0, 1, 2, 5}, k \in 1 .. Len(MarshalFields(frame)) + 1 :
                data = Extended(frame, k, wt)
    BY <1>1, <1>4, DamagedIs
  <2>2. Unmarshal(data) = [ok |-> TRUE, f |-> Stored(frame)]
    BY <1>1, <2>1, UnknownFieldIgnored
  <2> QED BY <1>4, <2>2 DEF FramesFaithful
<1>5. CASE damage = "cut"
  <2>1. PICK c \in 1 .. Len(tagBytes(9, frame[9])) - 1 :
                data = SubSeq(Marshal(frame), 1, Len(Marshal(frame)) - c)
    BY <1>1, <1>5, DamagedIs
  <2>2. Unmarshal(data) = Broken
    BY <1>1, <2>1, CutFrameRefused
  <2> QED BY <1>5, <2>2 DEF FramesFaithful
<1> QED BY <1>1, <1>2, <1>3, <1>4, <1>5

\* Whatever a frame holds within the limits of the decoder, it is read as it
\* was sent, with a field this version does not know or without; a frame that
\* was cut is refused.  This is Marshal and Unmarshal of internal/lark/ws.
THEOREM FramesAreFaithful == CodecSpec => []FramesFaithful
<1>1. CodecInit => CodecInv
  BY CodecInitInv
<1>2. CodecInv /\ [CodecNext]_codecVars => CodecInv'
  BY CodecNextInv
<1>3. CodecInv => FramesFaithful
  BY CodecInvFaithful
<1> QED BY <1>1, <1>2, <1>3, PTL DEF CodecSpec
=============================================================================
