---------------------------- MODULE FramingProofs ----------------------------
(***************************************************************************)
(* TypeOK of Framing, and that it implements FrameChannel, for any sizes   *)
(* of buffers, chunks and lengths and any rate.                            *)
(*                                                                         *)
(* The invariant is about the stream: what the reader has read of a length *)
(* or buffer, what waits in chunks, is on the wire, waits in the queue and *)
(* in pieces are, one after the other, the buffers not yet emitted with    *)
(* their lengths, up to where the writer has closed.  Steps move bytes     *)
(* from one part to the next, so the proofs are about concatenation: first *)
(* the laws of FlattenSeq.                                                 *)
(***************************************************************************)
EXTENDS Framing, TLAPS, SequenceTheorems, WellFoundedInduction

-----------------------------------------------------------------------------
(* Flattened sequences.                                                    *)

(* Induction, for a set: a least number that is not in it would be 0 or    *)
(* follow one that is.                                                     *)
LEMMA Induction ==
  ASSUME NEW T, 0 \in T, \A n \in Nat : n \in T => n + 1 \in T
  PROVE  Nat \subseteq T
<1> DEFINE U == Nat \ T
<1>1. SUFFICES ASSUME U # {} PROVE FALSE
  OBVIOUS
<1>2. PICK n \in U : \A m \in U : ~(<<m, n>> \in OpToRel(<, Nat))
  BY <1>1, WFMin, NatLessThanWellFounded
<1>3. n - 1 \in Nat /\ n - 1 < n
  BY SMT
<1>4. <<n - 1, n>> \in OpToRel(<, Nat)
  BY <1>3 DEF OpToRel
<1>5. n - 1 \in T
  BY <1>2, <1>3, <1>4
<1> QED  BY <1>3, <1>5

(* g[i] is the first i elements of s, one after the other.                 *)
Joins(g, s, k) ==
  /\ DOMAIN g = 0..k
  /\ g[0] = << >>
  /\ \A i \in 1..k : g[i] = g[i - 1] \o s[i]

LEMMA JoinsExist ==
  ASSUME NEW S, NEW s \in Seq(Seq(S))
  PROVE  \E g \in [0..Len(s) -> Seq(S)] : Joins(g, s, Len(s))
<1> DEFINE T == {k \in Nat : k <= Len(s) => \E g \in [0..k -> Seq(S)] : Joins(g, s, k)}
<1>1. 0 \in T
  <2> DEFINE g == [i \in 0..0 |-> << >>]
  <2>1. g \in [0..0 -> Seq(S)]
    BY EmptySeq
  <2>2. Joins(g, s, 0)
    BY DEF Joins
  <2> QED  BY <2>1, <2>2
<1>2. ASSUME NEW k \in Nat, k \in T PROVE k + 1 \in T
  <2> SUFFICES ASSUME k + 1 <= Len(s)
               PROVE  \E h \in [0..(k + 1) -> Seq(S)] : Joins(h, s, k + 1)
    OBVIOUS
  <2>1. PICK g \in [0..k -> Seq(S)] : Joins(g, s, k)
    BY <1>2
  <2> DEFINE h == [i \in 0..(k + 1) |-> IF i <= k THEN g[i] ELSE g[k] \o s[k + 1]]
  <2>2. s[k + 1] \in Seq(S) /\ g[k] \in Seq(S)
    OBVIOUS
  <2>3. g[k] \o s[k + 1] \in Seq(S)
    BY <2>2, ConcatProperties
  <2>4. h \in [0..(k + 1) -> Seq(S)]
    BY <2>3
  <2>5. \A i \in 0..(k + 1) : h[i] = IF i <= k THEN g[i] ELSE g[k] \o s[k + 1]
    OBVIOUS
  <2>6. DOMAIN h = 0..(k + 1)
    OBVIOUS
  <2> HIDE DEF h
  <2>7. Joins(h, s, k + 1)
    <3>1. h[0] = << >>
      BY <2>1, <2>5 DEF Joins
    <3>2. ASSUME NEW i \in 1..(k + 1) PROVE h[i] = h[i - 1] \o s[i]
      <4>1. i \in 0..(k + 1) /\ i - 1 \in 0..(k + 1) /\ i - 1 <= k
        OBVIOUS
      <4>2. CASE i <= k
        <5>1. i \in 1..k
          BY <4>2
        <5>2. h[i] = g[i] /\ h[i - 1] = g[i - 1]
          BY <2>5, <4>1, <4>2
        <5> QED  BY <2>1, <5>1, <5>2 DEF Joins
      <4>3. CASE i = k + 1
        <5>1. i - 1 = k /\ ~(i <= k) /\ k <= k
          BY <4>3
        <5>2. h[i] = g[k] \o s[i] /\ h[k] = g[k]
          BY <2>5, <4>1, <4>3, <5>1
        <5> QED  BY <5>1, <5>2
      <4>4. i <= k \/ i = k + 1
        OBVIOUS
      <4> QED  BY <4>2, <4>3, <4>4
    <3> QED  BY <2>6, <3>1, <3>2 DEF Joins
  <2> QED  BY <2>4, <2>7
<1>3. Len(s) \in T
  <2> HIDE DEF T
  <2> QED  BY <1>1, <1>2, Induction
<1> QED  BY <1>3

LEMMA FlattenJoins ==
  ASSUME NEW S, NEW s \in Seq(Seq(S)), NEW g \in [0..Len(s) -> Seq(S)], Joins(g, s, Len(s))
  PROVE  FlattenSeq(s) = g[Len(s)]
<1>1. CASE Len(s) = 0
  <2>1. s = << >>
    BY <1>1
  <2>2. FlattenSeq(s) = s
    BY <1>1 DEF FlattenSeq
  <2> QED  BY <1>1, <2>1, <2>2 DEF Joins
<1>2. CASE Len(s) # 0
  <2> DEFINE Is(f) == f = [i \in 1..Len(s) |-> IF i = 1 THEN s[i] ELSE f[i - 1] \o s[i]]
             h == CHOOSE f : Is(f)
  <2>1. FlattenSeq(s) = h[Len(s)]
    BY <1>2 DEF FlattenSeq
  <2>2. Is([i \in 1..Len(s) |-> g[i]])
    <3> DEFINE f == [i \in 1..Len(s) |-> g[i]]
    <3>1. ASSUME NEW i \in 1..Len(s)
          PROVE  g[i] = IF i = 1 THEN s[i] ELSE f[i - 1] \o s[i]
      <4>1. g[i] = g[i - 1] \o s[i]
        BY DEF Joins
      <4>2. CASE i = 1
        <5>1. s[i] \in Seq(S)
          OBVIOUS
        <5>2. g[i] = << >> \o s[i]
          <6>1. i - 1 = 0
            BY <4>2
          <6> QED  BY <4>1, <6>1 DEF Joins
        <5> QED  BY <4>2, <5>1, <5>2, ConcatEmptySeq
      <4>3. CASE i # 1
        <5>1. i - 1 \in 1..Len(s)
          BY <4>3
        <5> QED  BY <4>1, <4>3, <5>1
      <4> QED  BY <4>2, <4>3
    <3> QED  BY <3>1
  <2>3. Is(h)
    BY <2>2
  <2> HIDE DEF h
  <2> DEFINE T == {k \in Nat : k \in 1..Len(s) => h[k] = g[k]}
  <2>4. \A i \in 1..Len(s) : h[i] = IF i = 1 THEN s[i] ELSE h[i - 1] \o s[i]
    BY <2>3
  <2>5. 0 \in T
    OBVIOUS
  <2>6. ASSUME NEW k \in Nat, k \in T PROVE k + 1 \in T
    <3> SUFFICES ASSUME k + 1 \in 1..Len(s) PROVE h[k + 1] = g[k + 1]
      OBVIOUS
    <3>1. g[k + 1] = g[k] \o s[k + 1]
      <4>1. (k + 1) - 1 = k
        OBVIOUS
      <4> QED  BY <4>1 DEF Joins
    <3>2. CASE k = 0
      <4>1. s[1] \in Seq(S) /\ 1 \in 1..Len(s) /\ k + 1 = 1
        BY <3>2
      <4>2. << >> \o s[1] = s[1]
        BY <4>1, ConcatEmptySeq
      <4>3. h[1] = s[1]
        BY <2>4, <4>1
      <4>4. g[1] = << >> \o s[1]
        BY <3>1, <3>2, <4>1 DEF Joins
      <4> QED  BY <4>1, <4>2, <4>3, <4>4
    <3>3. CASE k # 0
      <4>1. k \in 1..Len(s) /\ (k + 1) - 1 = k /\ k + 1 # 1
        BY <3>3
      <4>2. h[k] = g[k]
        BY <2>6, <4>1
      <4>3. h[k + 1] = h[k] \o s[k + 1]
        BY <2>4, <4>1
      <4> QED  BY <3>1, <4>2, <4>3
    <3> QED  BY <3>2, <3>3
  <2>7. Len(s) \in T
    <3>1. Len(s) \in Nat
      OBVIOUS
    <3> HIDE DEF T
    <3> QED  BY <2>5, <2>6, <3>1, Induction
  <2> QED  BY <1>2, <2>1, <2>7
<1> QED  BY <1>1, <1>2

LEMMA FlattenEmpty ==
  FlattenSeq(<< >>) = << >>
BY EmptySeq DEF FlattenSeq

LEMMA FlattenAppend ==
  ASSUME NEW S, NEW s \in Seq(Seq(S)), NEW x \in Seq(S)
  PROVE  /\ FlattenSeq(s) \in Seq(S)
         /\ FlattenSeq(Append(s, x)) = FlattenSeq(s) \o x
<1>1. PICK g \in [0..Len(s) -> Seq(S)] : Joins(g, s, Len(s))
  BY JoinsExist
<1>2. FlattenSeq(s) = g[Len(s)]
  BY <1>1, FlattenJoins
<1>3. g[Len(s)] \in Seq(S)
  OBVIOUS
<1> DEFINE t == Append(s, x)
           h == [i \in 0..(Len(s) + 1) |-> IF i <= Len(s) THEN g[i] ELSE g[Len(s)] \o x]
<1>4. /\ t \in Seq(Seq(S)) /\ Len(t) = Len(s) + 1 /\ Len(s) \in Nat
      /\ \A i \in 1..Len(s) : t[i] = s[i]
      /\ t[Len(s) + 1] = x
  BY AppendProperties
<1>5. g[Len(s)] \o x \in Seq(S)
  BY <1>3, ConcatProperties
<1>6. h \in [0..Len(t) -> Seq(S)]
  BY <1>4, <1>5
<1>7. \A i \in 0..(Len(s) + 1) : h[i] = IF i <= Len(s) THEN g[i] ELSE g[Len(s)] \o x
  OBVIOUS
<1>8. DOMAIN h = 0..Len(t)
  BY <1>4
<1> HIDE DEF h, t
<1>9. Joins(h, t, Len(t))
  <2>1. h[0] = << >>
    BY <1>1, <1>4, <1>7 DEF Joins
  <2>2. ASSUME NEW i \in 1..Len(t) PROVE h[i] = h[i - 1] \o t[i]
    <3>1. i \in 0..(Len(s) + 1) /\ i - 1 \in 0..(Len(s) + 1) /\ i - 1 <= Len(s)
      BY <1>4
    <3>2. CASE i <= Len(s)
      <4>1. i \in 1..Len(s)
        BY <1>4, <3>2
      <4>2. h[i] = g[i] /\ h[i - 1] = g[i - 1]
        BY <1>7, <3>1, <3>2
      <4> QED  BY <1>1, <1>4, <4>1, <4>2 DEF Joins
    <3>3. CASE i = Len(s) + 1
      <4>1. i - 1 = Len(s) /\ ~(i <= Len(s)) /\ Len(s) <= Len(s)
        BY <1>4, <3>3
      <4>2. h[i] = g[Len(s)] \o x /\ h[Len(s)] = g[Len(s)]
        BY <1>7, <3>1, <4>1
      <4> QED  BY <1>4, <3>3, <4>1, <4>2
    <3> QED  BY <1>4, <3>2, <3>3
  <2> QED  BY <1>8, <2>1, <2>2 DEF Joins
<1>10. FlattenSeq(t) = h[Len(t)]
  BY <1>4, <1>6, <1>9, FlattenJoins
<1>11. h[Len(t)] = g[Len(s)] \o x
  <2>1. Len(t) \in 0..(Len(s) + 1) /\ ~(Len(t) <= Len(s))
    BY <1>4
  <2> QED  BY <1>7, <2>1
<1> QED  BY <1>2, <1>3, <1>10, <1>11 DEF t

LEMMA FlattenType ==
  ASSUME NEW S, NEW s \in Seq(Seq(S))
  PROVE  FlattenSeq(s) \in Seq(S)
BY FlattenAppend, EmptySeq

LEMMA FlattenOne ==
  ASSUME NEW S, NEW x \in Seq(S)
  PROVE  FlattenSeq(<<x>>) = x
<1>1. << >> \in Seq(Seq(S)) /\ << >> \in Seq(S)
  BY EmptySeq
<1>2. Append(<< >>, x) = <<x>>
  BY <1>1
<1>3. FlattenSeq(Append(<< >>, x)) = FlattenSeq(<< >>) \o x
  BY <1>1, FlattenAppend
<1> QED  BY <1>2, <1>3, FlattenEmpty, ConcatEmptySeq

LEMMA FlattenConcatOne ==
  ASSUME NEW S, NEW s \in Seq(Seq(S)), NEW t \in Seq(Seq(S)), NEW x \in Seq(S)
  PROVE  FlattenSeq(s \o t) = FlattenSeq(s) \o FlattenSeq(t) =>
           FlattenSeq(s \o Append(t, x)) = FlattenSeq(s) \o FlattenSeq(Append(t, x))
<1>1. s \o t \in Seq(Seq(S)) /\ s \o Append(t, x) = Append(s \o t, x)
  OBVIOUS
<1>2. FlattenSeq(s \o Append(t, x)) = FlattenSeq(s \o t) \o x
  BY <1>1, FlattenAppend
<1>3. FlattenSeq(Append(t, x)) = FlattenSeq(t) \o x
  BY FlattenAppend
<1>4. FlattenSeq(s) \in Seq(S) /\ FlattenSeq(t) \in Seq(S)
  BY FlattenType
<1>5. (FlattenSeq(s) \o FlattenSeq(t)) \o x = FlattenSeq(s) \o (FlattenSeq(t) \o x)
  BY <1>4, ConcatAssociative
<1> QED  BY <1>2, <1>3, <1>5

LEMMA FlattenConcat ==
  ASSUME NEW S, NEW s \in Seq(Seq(S)), NEW t \in Seq(Seq(S))
  PROVE  FlattenSeq(s \o t) = FlattenSeq(s) \o FlattenSeq(t)
<1> DEFINE Holds(u) == FlattenSeq(s \o u) = FlattenSeq(s) \o FlattenSeq(u)
           T == {n \in Nat : \A u \in Seq(Seq(S)) : Len(u) = n => Holds(u)}
<1>1. 0 \in T
  <2> SUFFICES ASSUME NEW u \in Seq(Seq(S)), Len(u) = 0 PROVE Holds(u)
    OBVIOUS
  <2>1. u = << >>
    OBVIOUS
  <2>2. s \o << >> = s /\ FlattenSeq(s) \o << >> = FlattenSeq(s)
    BY FlattenType, ConcatEmptySeq
  <2> QED  BY <2>1, <2>2, FlattenEmpty
<1>2. ASSUME NEW n \in Nat, n \in T PROVE n + 1 \in T
  <2> SUFFICES ASSUME NEW u \in Seq(Seq(S)), Len(u) = n + 1 PROVE Holds(u)
    OBVIOUS
  <2>1. PICK v \in Seq(Seq(S)), x \in Seq(S) : u = Append(v, x)
    <3>1. u # << >>
      OBVIOUS
    <3> QED  BY <3>1, SequenceEmptyOrAppend
  <2>2. Len(v) = n
    BY <2>1, AppendProperties
  <2>3. Holds(v)
    BY <1>2, <2>1, <2>2
  <2> QED  BY <2>1, <2>3, FlattenConcatOne
<1>3. Len(t) \in T
  <2>1. Len(t) \in Nat
    OBVIOUS
  <2> HIDE DEF T
  <2> QED  BY <1>1, <1>2, <2>1, Induction
<1> QED  BY <1>3

LEMMA FlattenFirst ==
  ASSUME NEW S, NEW s \in Seq(Seq(S)), s # << >>
  PROVE  /\ FlattenSeq(s) = Head(s) \o FlattenSeq(Tail(s))
         /\ Head(s) \in Seq(S) /\ Tail(s) \in Seq(Seq(S))
<1>1. Head(s) \in Seq(S) /\ Tail(s) \in Seq(Seq(S))
  OBVIOUS
<1>2. <<Head(s)>> \in Seq(Seq(S)) /\ s = <<Head(s)>> \o Tail(s)
  BY <1>1
<1>3. FlattenSeq(s) = FlattenSeq(<<Head(s)>>) \o FlattenSeq(Tail(s))
  BY <1>1, <1>2, FlattenConcat
<1> QED  BY <1>1, <1>3, FlattenOne

LEMMA FlattenSplit ==
  ASSUME NEW S, NEW s \in Seq(Seq(S)), NEW k \in 0..Len(s)
  PROVE  FlattenSeq(s) = FlattenSeq(SubSeq(s, 1, k)) \o FlattenSeq(SubSeq(s, k + 1, Len(s)))
<1>1. /\ SubSeq(s, 1, k) \in Seq(Seq(S)) /\ SubSeq(s, k + 1, Len(s)) \in Seq(Seq(S))
      /\ Len(s) \in Nat
  OBVIOUS
<1>2. SubSeq(s, 1, k) \o SubSeq(s, k + 1, Len(s)) = SubSeq(s, 1, Len(s))
  <2>1. 1 \in 1..(Len(s) + 1) /\ k \in (1 - 1)..Len(s) /\ Len(s) \in k..Len(s)
    BY <1>1
  <2> QED  BY <2>1, ConcatAdjacentSubSeq
<1>3. SubSeq(s, 1, Len(s)) = s
  BY SubSeqFull
<1> QED  BY <1>1, <1>2, <1>3, FlattenConcat

-----------------------------------------------------------------------------
(* Division, and cutting a buffer into chunks.                             *)

LEMMA Division ==
  ASSUME NEW a \in Nat, NEW b \in Nat \ {0}
  PROVE  a \div b \in Nat /\ \E r \in 0..(b - 1) : a = b * (a \div b) + r
OBVIOUS

LEMMA Multiples ==
  ASSUME NEW i \in Nat, NEW k \in Nat, i <= k, NEW b \in Nat
  PROVE  i * b \in Nat /\ k * b \in Nat /\ i * b <= k * b
OBVIOUS

LEMMA CutBytes ==
  ASSUME NEW bytes \in Bytes, bytes # << >>
  PROVE  Cut(bytes) \in Seq(Bytes) /\ FlattenSeq(Cut(bytes)) = bytes
<1> DEFINE L == Len(bytes)
           M == MaximumChunkSize
           n == (L + M - 1) \div M
           End(i) == IF i = n THEN L ELSE i * M
<1> USE DEF Bytes
<1>1. L \in Nat \ {0} /\ M \in Nat \ {0}
  BY FramingAssumption
<1>2. n \in Nat \ {0} /\ (n - 1) * M \in Nat /\ (n - 1) * M < L /\ L <= n * M
  <2>1. L + M - 1 \in Nat
    BY <1>1
  <2>2. n \in Nat /\ \E r \in 0..(M - 1) : L + M - 1 = M * n + r
    BY <1>1, <2>1, Division
  <2>3. n # 0
    BY <1>1, <2>2
  <2>4. n - 1 \in Nat /\ n * M = M * n /\ (n - 1) * M = M * n - M /\ M * n \in Nat
    BY <1>1, <2>2, <2>3
  <2> HIDE DEF n
  <2> QED  BY <1>1, <2>2, <2>3, <2>4
<1> HIDE DEF n, L, M
<1>3. ASSUME NEW i \in 1..n
      PROVE  /\ (i - 1) * M \in 0..L /\ End(i) \in (i - 1) * M..L
             /\ i # 1 => End(i - 1) = (i - 1) * M
  <2>1. i - 1 \in Nat /\ n - 1 \in Nat /\ i - 1 <= n - 1 /\ i \in Nat /\ i - 1 <= i
    BY <1>2
  <2>2. (i - 1) * M \in Nat /\ (i - 1) * M <= (n - 1) * M
    BY <1>1, <2>1, Multiples
  <2>3. i * M \in Nat /\ (i - 1) * M <= i * M
    BY <1>1, <2>1, Multiples
  <2>4. i # n => i * M <= (n - 1) * M
    <3>1. i # n => i <= n - 1
      BY <1>2
    <3> QED  BY <1>1, <2>1, <3>1, Multiples
  <2>5. i - 1 # n
    BY <1>2
  <2> QED  BY <1>1, <1>2, <2>2, <2>3, <2>4, <2>5
<1>4. Cut(bytes) = [i \in 1..n |-> SubSeq(bytes, (i - 1) * M + 1, End(i))]
  BY DEF Cut, n, L, M
<1>5. \A i \in 1..n : SubSeq(bytes, (i - 1) * M + 1, End(i)) \in Seq(Byte)
  <2> TAKE i \in 1..n
  <2> DEFINE a == (i - 1) * M
             z == End(i)
  <2>1. a \in 0..L /\ z \in a..L
    BY <1>3
  <2> HIDE DEF a, z
  <2>2. SubSeq(bytes, a + 1, z) \in Seq(Byte)
    BY <1>1, <2>1 DEF L
  <2> QED  BY <2>2 DEF a, z
<1>6. /\ Cut(bytes) \in Seq(Bytes) /\ Len(Cut(bytes)) = n
      /\ \A i \in 1..n : Cut(bytes)[i] = SubSeq(bytes, (i - 1) * M + 1, End(i))
  <2> DEFINE e(i) == SubSeq(bytes, (i - 1) * M + 1, End(i))
  <2>1. n \in Nat /\ \A i \in 1..n : e(i) \in Bytes
    BY <1>2, <1>5
  <2> HIDE DEF e
  <2>2. [i \in 1..n |-> e(i)] \in Seq(Bytes)
    BY <2>1
  <2>3. Len([i \in 1..n |-> e(i)]) = n
    BY <2>1
  <2> QED  BY <1>4, <2>2, <2>3 DEF e
<1> DEFINE g == [i \in 0..n |-> SubSeq(bytes, 1, IF i = 0 THEN 0 ELSE End(i))]
<1>7. /\ g \in [0..n -> Seq(Byte)] /\ DOMAIN g = 0..n
      /\ \A i \in 0..n : g[i] = SubSeq(bytes, 1, IF i = 0 THEN 0 ELSE End(i))
  <2>1. \A i \in 0..n : (IF i = 0 THEN 0 ELSE End(i)) \in 0..L
    BY <1>1, <1>2, <1>3
  <2>2. \A j \in 0..L : SubSeq(bytes, 1, j) \in Seq(Byte)
    BY <1>1 DEF L
  <2> QED  BY <2>1, <2>2
<1> HIDE DEF g
<1>8. Joins(g, Cut(bytes), n)
  <2>1. g[0] = << >>
    <3>1. SubSeq(bytes, 1, 0) = << >>
      BY SubSeqEmpty
    <3> QED  BY <1>2, <1>7, <3>1
  <2>2. ASSUME NEW i \in 1..n PROVE g[i] = g[i - 1] \o Cut(bytes)[i]
    <3> DEFINE a == (i - 1) * M
               z == End(i)
    <3>1. a \in 0..L /\ z \in a..L
      BY <1>3
    <3>2. g[i] = SubSeq(bytes, 1, z) /\ Cut(bytes)[i] = SubSeq(bytes, a + 1, z)
      <4>1. i \in 0..n /\ i # 0
        BY <1>2
      <4> QED  BY <1>6, <1>7, <4>1
    <3>3. g[i - 1] = SubSeq(bytes, 1, a)
      <4>1. i - 1 \in 0..n
        BY <1>2
      <4>2. CASE i = 1
        <5>1. i - 1 = 0 /\ a = 0
          BY <1>1, <4>2
        <5> QED  BY <1>7, <4>1, <5>1
      <4>3. CASE i # 1
        BY <1>3, <1>7, <4>1, <4>3
      <4> QED  BY <4>2, <4>3
    <3> HIDE DEF a, z
    <3>4. SubSeq(bytes, 1, a) \o SubSeq(bytes, a + 1, z) = SubSeq(bytes, 1, z)
      <4>1. 1 \in 1..(Len(bytes) + 1) /\ a \in (1 - 1)..Len(bytes) /\ z \in a..Len(bytes)
        BY <1>1, <3>1 DEF L
      <4> QED  BY <4>1, ConcatAdjacentSubSeq
    <3> QED  BY <3>2, <3>3, <3>4
  <2> QED  BY <1>7, <2>1, <2>2 DEF Joins
<1>9. FlattenSeq(Cut(bytes)) = g[n]
  BY <1>6, <1>7, <1>8, FlattenJoins
<1>10. g[n] = SubSeq(bytes, 1, L)
  BY <1>2, <1>7
<1> QED  BY <1>6, <1>9, <1>10, SubSeqFull DEF L

-----------------------------------------------------------------------------
(* Sequences of bytes.                                                     *)

LEMMA BytesConcat ==
  \A a, b \in Bytes : a \o b \in Bytes /\ Len(a \o b) = Len(a) + Len(b) /\ Len(a) \in Nat
BY ConcatProperties DEF Bytes

LEMMA BytesEmpty ==
  /\ << >> \in Bytes
  /\ \A a \in Bytes : a \o << >> = a /\ << >> \o a = a
BY EmptySeq, ConcatEmptySeq DEF Bytes

LEMMA BytesRegroup ==
  \A a, b, c \in Bytes : (a \o b) \o c = a \o (b \o c)
<1> SUFFICES ASSUME NEW a \in Bytes, NEW b \in Bytes, NEW c \in Bytes
             PROVE  (a \o b) \o c = a \o (b \o c)
  OBVIOUS
<1> QED  BY ConcatAssociative DEF Bytes

LEMMA SubSeqOfAppend ==
  ASSUME NEW S, NEW s \in Seq(S), NEW x \in S, NEW m \in 1..(Len(s) + 1)
  PROVE  /\ SubSeq(s, m, Len(s)) \in Seq(S)
         /\ SubSeq(Append(s, x), m, Len(s) + 1) = Append(SubSeq(s, m, Len(s)), x)
<1>1. SubSeq(s, m, Len(s)) \in Seq(S) /\ Append(s, x) \in Seq(S) /\ Len(s) \in Nat
  OBVIOUS
<1>2. /\ SubSeq(Append(s, x), m, Len(s) + 1) \in Seq(S)
      /\ Len(SubSeq(Append(s, x), m, Len(s) + 1)) = Len(s) + 2 - m
      /\ \A i \in 1..(Len(s) + 2 - m) :
           SubSeq(Append(s, x), m, Len(s) + 1)[i] = Append(s, x)[m + i - 1]
  BY <1>1
<1>3. /\ Append(SubSeq(s, m, Len(s)), x) \in Seq(S)
      /\ Len(Append(SubSeq(s, m, Len(s)), x)) = Len(s) + 2 - m
      /\ \A i \in 1..(Len(s) + 1 - m) :
           Append(SubSeq(s, m, Len(s)), x)[i] = s[m + i - 1]
      /\ Append(SubSeq(s, m, Len(s)), x)[Len(s) + 2 - m] = x
  BY <1>1
<1>4. \A i \in 1..(Len(s) + 2 - m) :
        SubSeq(Append(s, x), m, Len(s) + 1)[i] = Append(SubSeq(s, m, Len(s)), x)[i]
  BY <1>1, <1>2, <1>3
<1> QED  BY <1>1, <1>2, <1>3, <1>4, SeqEqual

LEMMA BytesSplit ==
  ASSUME NEW a \in Bytes, NEW k \in 0..Len(a)
  PROVE  /\ SubSeq(a, 1, k) \in Bytes /\ SubSeq(a, k + 1, Len(a)) \in Bytes
         /\ Len(SubSeq(a, 1, k)) = k /\ Len(SubSeq(a, k + 1, Len(a))) = Len(a) - k
         /\ a = SubSeq(a, 1, k) \o SubSeq(a, k + 1, Len(a))
<1>1. /\ SubSeq(a, 1, k) \in Bytes /\ SubSeq(a, k + 1, Len(a)) \in Bytes
      /\ Len(SubSeq(a, 1, k)) = k /\ Len(SubSeq(a, k + 1, Len(a))) = Len(a) - k
      /\ Len(a) \in Nat
  BY DEF Bytes
<1>2. SubSeq(a, 1, k) \o SubSeq(a, k + 1, Len(a)) = SubSeq(a, 1, Len(a))
  <2>1. 1 \in 1..(Len(a) + 1) /\ k \in (1 - 1)..Len(a) /\ Len(a) \in k..Len(a)
    BY <1>1
  <2> QED  BY <2>1, ConcatAdjacentSubSeq DEF Bytes
<1>3. SubSeq(a, 1, Len(a)) = a
  BY SubSeqFull DEF Bytes
<1> QED  BY <1>1, <1>2, <1>3

(* Two ways to divide the same bytes after the same number of them.        *)
LEMMA BytesEqual ==
  ASSUME NEW a \in Bytes, NEW b \in Bytes, NEW c \in Bytes, NEW d \in Bytes, Len(a) = Len(c)
  PROVE  a \o b = c \o d => a = c /\ b = d
<1> SUFFICES ASSUME a \o b = c \o d PROVE a = c /\ b = d
  OBVIOUS
<1>1. /\ Len(a \o b) = Len(a) + Len(b) /\ Len(c \o d) = Len(c) + Len(d)
      /\ \A i \in 1..(Len(a) + Len(b)) :
           (a \o b)[i] = IF i <= Len(a) THEN a[i] ELSE b[i - Len(a)]
      /\ \A i \in 1..(Len(c) + Len(d)) :
           (c \o d)[i] = IF i <= Len(c) THEN c[i] ELSE d[i - Len(c)]
      /\ Len(a) \in Nat /\ Len(b) \in Nat /\ Len(c) \in Nat /\ Len(d) \in Nat
  BY ConcatProperties DEF Bytes
<1>2. Len(b) = Len(d)
  BY <1>1
<1>3. \A i \in 1..Len(a) : a[i] = c[i]
  BY <1>1, <1>2
<1>4. ASSUME NEW i \in 1..Len(b) PROVE b[i] = d[i]
  <2>1. i + Len(a) \in 1..(Len(a) + Len(b)) /\ ~(i + Len(a) <= Len(a)) /\ (i + Len(a)) - Len(a) = i
    BY <1>1
  <2> QED  BY <1>1, <1>2, <2>1
<1> QED  BY <1>2, <1>3, <1>4, SeqEqual DEF Bytes

LEMMA FlattenBytes ==
  /\ \A s \in Seq(Bytes) :
       /\ FlattenSeq(s) \in Bytes
       /\ s # << >> => /\ FlattenSeq(s) = Head(s) \o FlattenSeq(Tail(s))
                       /\ Head(s) \in Bytes /\ Tail(s) \in Seq(Bytes)
  /\ \A s \in Seq(Bytes), x \in Bytes :
       /\ Append(s, x) \in Seq(Bytes) /\ <<x>> \in Seq(Bytes)
       /\ FlattenSeq(Append(s, x)) = FlattenSeq(s) \o x
       /\ FlattenSeq(<<x>>) = x
  /\ \A s, t \in Seq(Bytes) :
       s \o t \in Seq(Bytes) /\ FlattenSeq(s \o t) = FlattenSeq(s) \o FlattenSeq(t)
<1> USE DEF Bytes
<1>1. \A s \in Seq(Bytes) :
       /\ FlattenSeq(s) \in Bytes
       /\ s # << >> => /\ FlattenSeq(s) = Head(s) \o FlattenSeq(Tail(s))
                       /\ Head(s) \in Bytes /\ Tail(s) \in Seq(Bytes)
  BY FlattenType, FlattenFirst
<1>2. \A s \in Seq(Bytes), x \in Bytes :
       /\ FlattenSeq(Append(s, x)) = FlattenSeq(s) \o x
       /\ FlattenSeq(<<x>>) = x
  BY FlattenAppend, FlattenOne
<1>3. \A s \in Seq(Bytes), x \in Bytes : Append(s, x) \in Seq(Bytes) /\ <<x>> \in Seq(Bytes)
  OBVIOUS
<1>4. \A s, t \in Seq(Bytes) : FlattenSeq(s \o t) = FlattenSeq(s) \o FlattenSeq(t)
  BY FlattenConcat
<1>5. \A s, t \in Seq(Bytes) : s \o t \in Seq(Bytes)
  OBVIOUS
<1> QED  BY <1>1, <1>2, <1>3, <1>4, <1>5

LEMMA FlattenPrepend ==
  ASSUME NEW x \in Bytes, NEW s \in Seq(Bytes)
  PROVE  <<x>> \o s \in Seq(Bytes) /\ FlattenSeq(<<x>> \o s) = x \o FlattenSeq(s)
<1> DEFINE one == <<x>>
<1>1. one \in Seq(Bytes) /\ FlattenSeq(one) = x
  BY FlattenBytes
<1> HIDE DEF one
<1>2. one \o s \in Seq(Bytes) /\ FlattenSeq(one \o s) = FlattenSeq(one) \o FlattenSeq(s)
  BY <1>1, FlattenBytes
<1> QED  BY <1>1, <1>2 DEF one

(* What is left of a chunk goes back to the front of the others.           *)
LEMMA FlattenRest ==
  ASSUME NEW x \in Bytes, NEW s \in Seq(Bytes)
  PROVE  /\ (IF x = << >> THEN << >> ELSE <<x>>) \o s \in Seq(Bytes)
         /\ FlattenSeq((IF x = << >> THEN << >> ELSE <<x>>) \o s) = x \o FlattenSeq(s)
<1>1. CASE x = << >>
  <2>1. << >> \o s = s
    BY ConcatEmptySeq
  <2>2. x \o FlattenSeq(s) = FlattenSeq(s)
    BY <1>1, FlattenBytes, BytesEmpty
  <2> QED  BY <1>1, <2>1, <2>2
<1>2. CASE x # << >>
  BY <1>2, FlattenPrepend
<1> QED  BY <1>1, <1>2

(* What is moved from one part of the stream to the next.                  *)
Row(a, b, c, d) == ((a \o b) \o c) \o d

LEMMA RowType ==
  \A a, b, c, d \in Bytes : Row(a, b, c, d) \in Bytes
BY BytesConcat DEF Row

LEMMA MoveFirst ==
  ASSUME NEW a \in Bytes, NEW b \in Bytes, NEW c \in Bytes, NEW d \in Bytes, NEW x \in Bytes
  PROVE  Row(a, x \o b, c, d) = Row(a \o x, b, c, d)
BY BytesRegroup, BytesConcat DEF Row

LEMMA MoveSecond ==
  ASSUME NEW a \in Bytes, NEW b \in Bytes, NEW c \in Bytes, NEW d \in Bytes, NEW x \in Bytes
  PROVE  Row(a, b, x \o c, d) = Row(a, b \o x, c, d)
<1>1. (a \o b) \o (x \o c) = ((a \o b) \o x) \o c
  <2>1. a \o b \in Bytes
    BY BytesConcat
  <2> QED  BY <2>1, BytesRegroup
<1>2. (a \o b) \o x = a \o (b \o x)
  BY BytesRegroup
<1> QED  BY <1>1, <1>2 DEF Row

LEMMA MoveThird ==
  ASSUME NEW a \in Bytes, NEW b \in Bytes, NEW c \in Bytes, NEW d \in Bytes, NEW x \in Bytes
  PROVE  Row(a, b, c, x \o d) = Row(a, b, c \o x, d)
<1> DEFINE u == a \o b
<1>1. u \in Bytes
  BY BytesConcat
<1> HIDE DEF u
<1>2. (u \o c) \o x = u \o (c \o x)
  BY <1>1, BytesRegroup
<1> DEFINE v == u \o c
<1>3. v \in Bytes
  BY <1>1, BytesConcat
<1> HIDE DEF v
<1>4. v \o (x \o d) = (v \o x) \o d
  BY <1>3, BytesRegroup
<1> QED  BY <1>2, <1>4 DEF u, v, Row

(* The provers take an equation with s \o t apart: here it has a name.     *)
Joined(s, t) == s \o t

LEMMA RowStart ==
  ASSUME NEW a \in Bytes, NEW b \in Bytes, NEW c \in Bytes, NEW d \in Bytes, NEW x \in Bytes
  PROVE  Row(x \o a, b, c, d) = Joined(x, Row(a, b, c, d))
<1> DEFINE u == a \o b
           v == u \o c
<1>1. u \in Bytes /\ v \in Bytes
  BY BytesConcat
<1>2. (x \o a) \o b = x \o u
  BY BytesRegroup
<1> HIDE DEF u
<1>3. (x \o u) \o c = x \o v
  BY <1>1, BytesRegroup
<1> HIDE DEF v
<1>4. (x \o v) \o d = x \o (v \o d)
  BY <1>1, BytesRegroup
<1> QED  BY <1>2, <1>3, <1>4 DEF u, v, Row, Joined

-----------------------------------------------------------------------------
(* The stream.                                                             *)

FrameOf(buffer) == LengthBytes(Len(buffer)) \o buffer
Frames == [i \in 1..Len(written) |-> FrameOf(written[i])]

(* What makes up the buffers that the reader has still to emit; what of it *)
(* it has read already, the length of the first; and where the rest is.    *)
ToCome == FlattenSeq(SubSeq(Frames, Len(emitted) + 1, Len(written)))
HasRead == IF state = "STATE_READ_LENGTH" THEN << >> ELSE LengthBytes(sizeToRead)
UnderWay == Row(FlattenSeq(chunks), wire, FlattenSeq(queue), FlattenSeq(pieces))

(* It all is there, until the writer closes: then an end of it is lost.    *)
StreamInv ==
  "reader" \in open =>
    \E k \in 0..Len(ToCome) :
      /\ HasRead \o UnderWay = SubSeq(ToCome, 1, k)
      /\ "writer" \in open => k = Len(ToCome)

WriterInv ==
  /\ "writer" \notin open => pieces = << >> /\ queue = << >>
  /\ ~limited => queue = << >>

ReaderInv ==
  /\ Len(emitted) <= Len(written)
  /\ state = "STATE_READ_LENGTH" => sizeToRead = LengthSize
  /\ state = "STATE_READ_BUFFER" =>
       /\ Len(emitted) < Len(written)
       /\ sizeToRead = Len(written[Len(emitted) + 1])
  /\ "reader" \notin open => chunks = << >>

(* The buffers are those of writeBuffer, so none is empty.                 *)
WrittenInv == \A i \in 1..Len(written) : written[i] # << >> /\ Len(written[i]) \in Sizes

IInv == TypeOK /\ WrittenInv /\ WriterInv /\ ReaderInv /\ StreamInv

LEMMA Lost ==
  ASSUME NEW a \in Bytes, NEW c \in Bytes
  PROVE  /\ \A k \in 0..Len(c) : a = SubSeq(c, 1, k) =>
              \E lost \in Bytes : c = a \o lost /\ (k = Len(c) => lost = << >>)
         /\ \A lost \in Bytes : c = a \o lost =>
              \E k \in 0..Len(c) : a = SubSeq(c, 1, k) /\ (lost = << >> => k = Len(c))
<1>1. ASSUME NEW k \in 0..Len(c), a = SubSeq(c, 1, k)
      PROVE  \E lost \in Bytes : c = a \o lost /\ (k = Len(c) => lost = << >>)
  <2> DEFINE lost == SubSeq(c, k + 1, Len(c))
  <2>1. lost \in Bytes /\ c = a \o lost
    BY <1>1, BytesSplit
  <2>2. k = Len(c) => lost = << >>
    <3>1. Len(c) \in Nat
      BY BytesConcat
    <3> QED  BY <3>1, SubSeqEmpty
  <2> QED  BY <2>1, <2>2
<1>2. ASSUME NEW lost \in Bytes, c = a \o lost
      PROVE  \E k \in 0..Len(c) : a = SubSeq(c, 1, k) /\ (lost = << >> => k = Len(c))
  <2>1. Len(c) = Len(a) + Len(lost) /\ Len(a) \in Nat /\ Len(lost) \in Nat
    BY <1>2, BytesConcat
  <2> DEFINE first == SubSeq(c, 1, Len(a))
             last == SubSeq(c, Len(a) + 1, Len(c))
  <2>2. Len(a) \in 0..Len(c)
    BY <2>1
  <2>3. first \in Bytes /\ last \in Bytes /\ Len(first) = Len(a) /\ c = first \o last
    BY <2>2, BytesSplit
  <2> HIDE DEF first, last
  <2>4. a = first
    BY <1>2, <2>3, BytesEqual
  <2>5. lost = << >> => Len(a) = Len(c)
    BY <1>2, <2>1, BytesEmpty
  <2> QED  BY <2>2, <2>4, <2>5 DEF first
<1> QED  BY <1>1, <1>2

LEMMA LengthTypes ==
  ASSUME NEW n \in Sizes
  PROVE  /\ LengthBytes(n) \in Bytes /\ Len(LengthBytes(n)) = LengthSize
         /\ Decoded(LengthBytes(n)) = n
         /\ n \in Nat \ {0}
<1>1. LengthSize \in Nat \ {0} /\ n \in Nat \ {0}
  BY FramingAssumption
<1>2. \A i \in 1..LengthSize : <<"length", n, i>> \in Byte
  BY DEF Byte
<1>3. LengthBytes(n) \in Bytes /\ Len(LengthBytes(n)) = LengthSize
  BY <1>1, <1>2 DEF LengthBytes, Bytes
<1>4. LengthBytes(n)[1] = <<"length", n, 1>>
  BY <1>1 DEF LengthBytes
<1> QED  BY <1>1, <1>3, <1>4 DEF Decoded

LEMMA BufferTypes ==
  ASSUME NEW b \in 1..MaxBuffers, NEW n \in Sizes
  PROVE  /\ BufferBytes(b, n) \in Bytes /\ Len(BufferBytes(b, n)) = n
         /\ BufferBytes(b, n) # << >> /\ BufferBytes(b, n) \in Buffers
<1>1. n \in Nat \ {0}
  BY FramingAssumption
<1>2. \A i \in 1..n : <<"buffer", b, i>> \in Byte
  BY <1>1 DEF Byte
<1>3. BufferBytes(b, n) \in Bytes /\ Len(BufferBytes(b, n)) = n
  BY <1>1, <1>2 DEF BufferBytes, Bytes
<1>4. BufferBytes(b, n) \in Buffers
  BY DEF Buffers
<1> QED  BY <1>1, <1>3, <1>4

LEMMA BuffersAreBytes ==
  \A b \in Buffers : b \in Bytes /\ b # << >> /\ Len(b) \in Sizes
BY BufferTypes DEF Buffers

LEMMA FrameTypes ==
  ASSUME NEW b \in Bytes, Len(b) \in Sizes
  PROVE  FrameOf(b) \in Bytes /\ Len(FrameOf(b)) = LengthSize + Len(b)
BY LengthTypes, BytesConcat DEF FrameOf

LEMMA Types ==
  ASSUME TypeOK, WrittenInv, ReaderInv
  PROVE  /\ queue \in Seq(Bytes) /\ pieces \in Seq(Bytes) /\ chunks \in Seq(Bytes)
         /\ FlattenSeq(queue) \in Bytes /\ FlattenSeq(pieces) \in Bytes
         /\ FlattenSeq(chunks) \in Bytes /\ wire \in Bytes
         /\ UnderWay \in Bytes /\ HasRead \in Bytes /\ ToCome \in Bytes
         /\ Frames \in Seq(Bytes) /\ Len(Frames) = Len(written)
         /\ Len(emitted) \in 0..Len(written) /\ Len(written) \in Nat
<1>1. /\ queue \in Seq(Bytes) /\ pieces \in Seq(Bytes) /\ chunks \in Seq(Bytes)
      /\ FlattenSeq(queue) \in Bytes /\ FlattenSeq(pieces) \in Bytes
      /\ FlattenSeq(chunks) \in Bytes /\ wire \in Bytes
  BY FlattenBytes DEF TypeOK
<1>2. UnderWay \in Bytes
  BY <1>1, RowType DEF UnderWay
<1>3. Len(emitted) \in 0..Len(written) /\ Len(written) \in Nat
  BY DEF TypeOK, ReaderInv
<1>4. \A i \in 1..Len(written) : written[i] \in Bytes /\ Len(written[i]) \in Sizes
  BY BuffersAreBytes DEF TypeOK, WrittenInv
<1>5. HasRead \in Bytes
  <2>1. CASE state = "STATE_READ_LENGTH"
    BY <2>1, BytesEmpty DEF HasRead
  <2>2. CASE state = "STATE_READ_BUFFER"
    <3>1. Len(emitted) + 1 \in 1..Len(written)
      BY <1>3, <2>2 DEF ReaderInv
    <3>2. sizeToRead \in Sizes
      BY <1>4, <2>2, <3>1 DEF ReaderInv
    <3> QED  BY <2>2, <3>2, LengthTypes DEF HasRead
  <2> QED  BY <2>1, <2>2 DEF TypeOK
<1>6. Frames \in Seq(Bytes) /\ Len(Frames) = Len(written)
  <2>1. \A i \in 1..Len(written) : FrameOf(written[i]) \in Bytes
    BY <1>4, FrameTypes
  <2> QED  BY <1>3, <2>1 DEF Frames
<1>7. ToCome \in Bytes
  <2>1. SubSeq(Frames, Len(emitted) + 1, Len(written)) \in Seq(Bytes)
    BY <1>3, <1>6
  <2> QED  BY <2>1, FlattenBytes DEF ToCome
<1> QED  BY <1>1, <1>2, <1>3, <1>5, <1>6, <1>7

(* What the reader has still to read, as the parts of the stream.          *)
LEMMA StreamParts ==
  ASSUME TypeOK, WrittenInv, ReaderInv, StreamInv, "reader" \in open
  PROVE  \E lost \in Bytes : /\ ToCome = (HasRead \o UnderWay) \o lost
                             /\ "writer" \in open => lost = << >>
<1> DEFINE here == HasRead \o UnderWay
           all == ToCome
<1>1. here \in Bytes /\ all \in Bytes
  BY Types, BytesConcat
<1>2. \E k \in 0..Len(all) : here = SubSeq(all, 1, k) /\ ("writer" \in open => k = Len(all))
  BY DEF StreamInv
<1> SUFFICES \E lost \in Bytes : all = here \o lost /\ ("writer" \in open => lost = << >>)
  OBVIOUS
<1> HIDE DEF here, all
<1>3. PICK k \in 0..Len(all) : here = SubSeq(all, 1, k) /\ ("writer" \in open => k = Len(all))
  BY <1>2
<1>4. \A a, c \in Bytes : \A j \in 0..Len(c) : a = SubSeq(c, 1, j) =>
        \E lost \in Bytes : c = a \o lost /\ (j = Len(c) => lost = << >>)
  BY Lost
<1>5. \E lost \in Bytes : all = here \o lost /\ (k = Len(all) => lost = << >>)
  BY <1>1, <1>3, <1>4, Zenon
<1> QED  BY <1>3, <1>5

LEMMA StreamHolds ==
  ASSUME NEW lost \in Bytes, HasRead' \in Bytes, UnderWay' \in Bytes,
         ToCome' = (HasRead' \o UnderWay') \o lost, "writer" \in open' => lost = << >>
  PROVE  StreamInv'
<1> DEFINE here == HasRead' \o UnderWay'
           all == ToCome'
<1>1. here \in Bytes /\ all \in Bytes /\ all = here \o lost
  BY BytesConcat
<1> SUFFICES \E k \in 0..Len(all) : here = SubSeq(all, 1, k) /\ ("writer" \in open' => k = Len(all))
  BY DEF StreamInv
<1> HIDE DEF here, all
<1>2. \E k \in 0..Len(all) : here = SubSeq(all, 1, k) /\ (lost = << >> => k = Len(all))
  BY <1>1, Lost
<1> QED  BY <1>2

LEMMA StreamStays ==
  ASSUME StreamInv, UnderWay' = UnderWay,
         UNCHANGED <<written, emitted, state, sizeToRead, open>>
  PROVE  StreamInv'
<1>1. Frames' = Frames
  BY DEF Frames
<1>2. ToCome' = ToCome /\ HasRead' = HasRead
  BY <1>1 DEF ToCome, HasRead
<1> QED  BY <1>2 DEF StreamInv

-----------------------------------------------------------------------------
(* The writer.                                                             *)

LEMMA IntervalType ==
  rateLimitBytesPerInterval \in Nat
BY FramingAssumption DEF rateLimitBytesPerInterval

LEMMA InitInv ==
  Init => IInv
<1> SUFFICES ASSUME Init PROVE IInv
  OBVIOUS
<1>1. TypeOK
  <2>1. rateLimitBytesPerInterval \in Nat
    BY IntervalType
  <2>2. Len(FlattenSeq(<< >>)) = 0
    BY FlattenEmpty
  <2>3. << >> \in Bytes /\ << >> \in Seq(Bytes) /\ << >> \in Seq(Buffers)
    BY BytesEmpty, EmptySeq
  <2>4. /\ written \in Seq(Buffers) /\ Len(written) <= MaxBuffers
        /\ sizeToRead \in Nat \ {0}
    BY <2>3, FramingAssumption DEF Init
  <2>5. chunksTotalSize = Len(FlattenSeq(chunks))
    BY <2>2 DEF Init
  <2>6. pieces \in Seq(Bytes) /\ queue \in Seq(Bytes) /\ chunks \in Seq(Bytes)
    BY <2>3 DEF Init
  <2>7. wire \in Bytes /\ emitted \in Seq(Bytes)
    BY <2>3 DEF Init
  <2>8. spent \in 0..rateLimitBytesPerInterval
    BY <2>1 DEF Init
  <2>9. /\ limited \in BOOLEAN /\ open \subseteq {"writer", "reader"} /\ timers \in Nat
        /\ processing \in BOOLEAN /\ elapsed \in BOOLEAN
        /\ state \in {"STATE_READ_LENGTH", "STATE_READ_BUFFER"}
    BY DEF Init
  <2> QED  BY <2>4, <2>5, <2>6, <2>7, <2>8, <2>9 DEF TypeOK
<1>2. WrittenInv /\ WriterInv /\ ReaderInv
  BY DEF Init, WrittenInv, WriterInv, ReaderInv
<1>3. StreamInv
  <2>1. HasRead = << >>
    BY DEF Init, HasRead
  <2>2. UnderWay = << >>
    BY FlattenEmpty, BytesEmpty DEF Init, UnderWay, Row
  <2>3. ToCome = << >>
    <3>1. Len(emitted) + 1 = 1 /\ Len(written) = 0
      BY DEF Init
    <3>2. SubSeq(Frames, 1, 0) = << >>
      BY SubSeqEmpty
    <3> QED  BY <3>1, <3>2, FlattenEmpty DEF ToCome
  <2>4. Len(ToCome) = 0 /\ HasRead \o UnderWay = << >> /\ SubSeq(ToCome, 1, 0) = << >>
    BY <2>1, <2>2, <2>3, BytesEmpty, SubSeqEmpty
  <2> QED  BY <2>4 DEF StreamInv
<1> QED  BY <1>1, <1>2, <1>3 DEF IInv

LEMMA WriteBufferInv ==
  ASSUME IInv, NEW n \in Sizes, writeBuffer(n)
  PROVE  IInv'
<1> DEFINE buffer == BufferBytes(Len(written) + 1, n)
           frame == FrameOf(buffer)
<1>1. /\ pieces = << >> /\ "writer" \in open /\ Len(written) < MaxBuffers
      /\ written' = Append(written, buffer)
      /\ pieces' = <<LengthBytes(n)>> \o Cut(buffer)
      /\ UNCHANGED <<open, limited, queue, processing, spent, elapsed, timers, wire,
                     chunks, chunksTotalSize, sizeToRead, state, emitted>>
  BY DEF writeBuffer, Idle, limiterVars, readerVars
<1>2. /\ buffer \in Bytes /\ buffer # << >> /\ Len(buffer) = n /\ buffer \in Buffers
  <2>1. Len(written) + 1 \in 1..MaxBuffers
    BY <1>1, FramingAssumption DEF IInv, TypeOK
  <2> QED  BY <2>1, BufferTypes
<1>3. Cut(buffer) \in Seq(Bytes) /\ FlattenSeq(Cut(buffer)) = buffer
  BY <1>2, CutBytes
<1>4. frame \in Bytes /\ frame = LengthBytes(n) \o buffer /\ LengthBytes(n) \in Bytes
  BY <1>2, FrameTypes, LengthTypes DEF FrameOf
<1> HIDE DEF buffer, frame
<1>5. pieces' \in Seq(Bytes) /\ FlattenSeq(pieces') = frame
  <2> DEFINE length == LengthBytes(n)
             cut == Cut(buffer)
  <2>1. /\ length \in Bytes /\ cut \in Seq(Bytes) /\ FlattenSeq(cut) = buffer
        /\ pieces' = <<length>> \o cut /\ frame = length \o buffer
    BY <1>1, <1>3, <1>4
  <2> HIDE DEF length, cut
  <2> QED  BY <2>1, FlattenPrepend
<1>6. /\ written' \in Seq(Buffers) /\ Len(written') = Len(written) + 1
      /\ \A i \in 1..Len(written) : written'[i] = written[i]
      /\ written'[Len(written) + 1] = buffer
      /\ Len(written) \in Nat /\ Len(written') <= MaxBuffers
  <2>1. written \in Seq(Buffers) /\ MaxBuffers \in Nat
    BY FramingAssumption DEF IInv, TypeOK
  <2> QED  BY <1>1, <1>2, <2>1, AppendProperties
<1>7. TypeOK'
  BY <1>1, <1>5, <1>6 DEF IInv, TypeOK
<1>8. WrittenInv'
  <2>1. \A i \in 1..Len(written') : i \in 1..Len(written) \/ i = Len(written) + 1
    BY <1>6
  <2> QED  BY <1>2, <1>6, <2>1 DEF IInv, WrittenInv
<1>9. WriterInv'
  BY <1>1 DEF IInv, WriterInv
<1>10. ReaderInv'
  <2>1. Len(emitted) \in Nat
    BY DEF IInv, TypeOK
  <2>2. Len(emitted) < Len(written) => Len(emitted) + 1 \in 1..Len(written)
    BY <1>6, <2>1
  <2> QED  BY <1>1, <1>6, <2>1, <2>2 DEF IInv, ReaderInv
<1>11. StreamInv'
  <2> SUFFICES ASSUME "reader" \in open PROVE StreamInv'
    BY <1>1 DEF StreamInv
  <2>1. ToCome = (HasRead \o UnderWay) \o << >>
    BY <1>1, StreamParts DEF IInv
  <2>2. HasRead \in Bytes /\ UnderWay \in Bytes
    BY Types DEF IInv
  <2>3. ToCome = HasRead \o UnderWay
    BY <2>1, <2>2, BytesEmpty, BytesConcat
  <2>4. UnderWay' = UnderWay \o frame
    <3>1. FlattenSeq(pieces) = << >>
      BY <1>1, FlattenEmpty
    <3> DEFINE first == (FlattenSeq(chunks) \o wire) \o FlattenSeq(queue)
    <3>2. first \in Bytes
      BY Types, BytesConcat DEF IInv
    <3>3. UnderWay = first
      BY <3>1, <3>2, BytesEmpty DEF UnderWay, Row
    <3> QED  BY <1>1, <1>5, <3>3 DEF UnderWay, Row
  <2>5. ToCome' = ToCome \o frame
    <3>1. Frames \in Seq(Bytes) /\ Len(Frames) = Len(written) /\ Len(emitted) \in 0..Len(written)
      BY Types DEF IInv
    <3>2. Frames' = Append(Frames, frame)
      <4>1. /\ Append(Frames, frame) \in Seq(Bytes) /\ Len(Append(Frames, frame)) = Len(written) + 1
            /\ \A i \in 1..Len(written) : Append(Frames, frame)[i] = Frames[i]
            /\ Append(Frames, frame)[Len(written) + 1] = frame
        BY <1>4, <3>1, AppendProperties
      <4>2. Frames' \in Seq(Bytes) /\ Len(Frames') = Len(written) + 1
        <5>1. \A i \in 1..Len(written') : written'[i] \in Bytes /\ Len(written'[i]) \in Sizes
          BY <1>6, BuffersAreBytes
        <5>2. \A i \in 1..Len(written') : FrameOf(written'[i]) \in Bytes
          BY <5>1, FrameTypes
        <5> QED  BY <1>6, <5>2 DEF Frames
      <4>3. \A i \in 1..(Len(written) + 1) : Frames'[i] = FrameOf(written'[i])
        BY <1>6 DEF Frames
      <4>4. \A i \in 1..Len(written) : Frames[i] = FrameOf(written[i])
        BY DEF Frames
      <4>5. \A i \in 1..(Len(written) + 1) : Frames'[i] = Append(Frames, frame)[i]
        <5>1. \A i \in 1..(Len(written) + 1) : i \in 1..Len(written) \/ i = Len(written) + 1
          BY <1>6
        <5> QED  BY <1>6, <4>1, <4>3, <4>4, <5>1 DEF frame
      <4> QED  BY <4>1, <4>2, <4>5, SeqEqual
    <3> DEFINE e == Len(emitted) + 1
               l == Len(written)
               rest == SubSeq(Frames, e, l)
    <3>3. rest \in Seq(Bytes) /\ SubSeq(Append(Frames, frame), e, l + 1) = Append(rest, frame)
      <4>1. e \in 1..(Len(Frames) + 1) /\ l = Len(Frames)
        BY <3>1
      <4> HIDE DEF e, l
      <4> QED  BY <1>4, <3>1, <4>1, SubSeqOfAppend
    <3>4. ToCome' = FlattenSeq(Append(rest, frame))
      BY <1>1, <1>6, <3>2, <3>3 DEF ToCome
    <3> QED  BY <1>4, <3>3, <3>4, FlattenBytes DEF ToCome
  <2>6. ToCome' = HasRead \o (UnderWay \o frame)
    BY <1>4, <2>2, <2>3, <2>5, BytesRegroup
  <2>7. HasRead' = HasRead /\ UnderWay' \in Bytes
    BY <1>1, <1>4, <2>2, <2>4, BytesConcat DEF HasRead
  <2>8. ToCome' = (HasRead' \o UnderWay') \o << >>
    BY <2>2, <2>4, <2>6, <2>7, BytesEmpty, BytesConcat
  <2> QED  BY <2>2, <2>7, <2>8, BytesEmpty, StreamHolds
<1> QED  BY <1>7, <1>8, <1>9, <1>10, <1>11 DEF IInv

(* A step that moves bytes on within the stream.                           *)
LEMMA StepWithin ==
  ASSUME IInv, UnderWay' = UnderWay,
         UNCHANGED <<open, limited, written, emitted, state, sizeToRead>>,
         "reader" \notin open => chunks' = chunks,
         TypeOK', WriterInv'
  PROVE  IInv'
<1>1. WrittenInv'
  BY DEF IInv, WrittenInv
<1>2. ReaderInv'
  BY DEF IInv, ReaderInv
<1>3. StreamInv'
  BY StreamStays DEF IInv
<1> QED  BY <1>1, <1>2, <1>3 DEF IInv

LEMMA WriteDataInv ==
  ASSUME IInv, writeData
  PROVE  IInv'
<1> DEFINE first == Head(pieces)
           rest == Tail(pieces)
           a == FlattenSeq(chunks)
           q == FlattenSeq(queue)
           d == FlattenSeq(rest)
<1>1. /\ pieces # << >> /\ pieces' = rest
      /\ UNCHANGED <<open, limited, written, chunks, chunksTotalSize, sizeToRead, state, emitted>>
  BY DEF writeData, readerVars
<1>2. first \in Bytes /\ rest \in Seq(Bytes) /\ FlattenSeq(pieces) = first \o d
  BY <1>1, Types, FlattenBytes DEF IInv
<1>3. a \in Bytes /\ q \in Bytes /\ wire \in Bytes /\ d \in Bytes
  BY <1>2, Types, FlattenBytes DEF IInv
<1>4. UnderWay = Row(a, wire, q, first \o d)
  BY <1>2 DEF UnderWay
<1>5. "writer" \in open
  BY <1>1 DEF IInv, WriterInv
<1>6. CASE limited /\ queue' = Append(queue, first) /\ processRateLimitQueue
           /\ UNCHANGED <<timers, wire>>
  <2>1. queue' \in Seq(Bytes) /\ FlattenSeq(queue') = q \o first
    BY <1>2, <1>6, FlattenBytes, Types DEF IInv
  <2>2. UnderWay' = Row(a, wire, q \o first, d)
    BY <1>1, <1>6, <2>1 DEF UnderWay
  <2>3. spent' \in 0..rateLimitBytesPerInterval /\ processing' \in BOOLEAN /\ elapsed' \in BOOLEAN
    <3>1. 0 \in 0..rateLimitBytesPerInterval
      BY IntervalType
    <3> QED  BY <1>6, <3>1 DEF processRateLimitQueue, IInv, TypeOK
  <2>4. TypeOK'
    BY <1>1, <1>2, <1>6, <2>1, <2>3 DEF IInv, TypeOK
  <2>5. WriterInv'
    BY <1>1, <1>5, <1>6 DEF WriterInv
  <2> HIDE DEF first, rest, a, q, d
  <2>6. UnderWay' = UnderWay
    BY <1>2, <1>3, <1>4, <2>2, MoveThird
  <2> QED  BY <1>1, <2>4, <2>5, <2>6, StepWithin
<1>7. CASE ~limited /\ wire' = wire \o first /\ UNCHANGED limiterVars
  <2>1. queue = << >> /\ q = << >>
    BY <1>7, FlattenEmpty DEF IInv, WriterInv
  <2>2. UnderWay' = Row(a, wire \o first, q, d)
    BY <1>1, <1>7 DEF UnderWay, limiterVars
  <2>3. wire' \in Bytes
    BY <1>2, <1>3, <1>7, BytesConcat
  <2>4. TypeOK'
    BY <1>1, <1>2, <1>7, <2>3 DEF IInv, TypeOK, limiterVars
  <2>5. WriterInv'
    BY <1>1, <1>5, <1>7, <2>1 DEF WriterInv, limiterVars
  <2> HIDE DEF first, rest, a, q, d
  <2>6. Row(a, wire, q, first \o d) = Row(a, wire, q \o first, d)
    BY <1>2, <1>3, MoveThird
  <2>7. q \o first = first \o q
    BY <1>2, <2>1, BytesEmpty
  <2>8. Row(a, wire, first \o q, d) = Row(a, wire \o first, q, d)
    BY <1>2, <1>3, MoveSecond
  <2>9. UnderWay' = UnderWay
    BY <1>4, <2>2, <2>6, <2>7, <2>8
  <2> QED  BY <1>1, <2>4, <2>5, <2>9, StepWithin
<1> QED  BY <1>6, <1>7 DEF writeData

LEMMA SendFromQueueInv ==
  ASSUME IInv, sendFromQueue
  PROVE  IInv'
<1> DEFINE current == Head(queue)
           remaining == rateLimitBytesPerInterval - spent
           sent == IF Len(current) <= remaining THEN current ELSE SubSeq(current, 1, remaining)
           rest == SubSeq(current, Len(sent) + 1, Len(current))
           a == FlattenSeq(chunks)
           d == FlattenSeq(pieces)
           t == Tail(queue)
<1>1. /\ queue # << >> /\ spent < rateLimitBytesPerInterval
      /\ queue' = (IF rest = << >> THEN << >> ELSE <<rest>>) \o t
      /\ wire' = wire \o sent /\ spent' = spent + Len(sent)
      /\ UNCHANGED <<open, limited, written, pieces, processing, elapsed, timers,
                     chunks, chunksTotalSize, sizeToRead, state, emitted>>
  BY DEF sendFromQueue, MaySend, readerVars
<1>2. current \in Bytes /\ t \in Seq(Bytes) /\ FlattenSeq(queue) = current \o FlattenSeq(t)
  BY <1>1, Types, FlattenBytes DEF IInv
<1>3. /\ remaining \in Nat /\ spent \in Nat /\ spent + remaining = rateLimitBytesPerInterval
      /\ rateLimitBytesPerInterval \in Nat
  <2>1. rateLimitBytesPerInterval \in Nat
    BY IntervalType
  <2>2. spent \in 0..rateLimitBytesPerInterval
    BY DEF IInv, TypeOK
  <2> QED  BY <1>1, <2>1, <2>2
<1>4. sent \in Bytes /\ rest \in Bytes /\ current = sent \o rest /\ Len(sent) \in 0..remaining
  <2>1. Len(current) \in Nat
    BY <1>2, BytesConcat
  <2> DEFINE k == IF Len(current) <= remaining THEN Len(current) ELSE remaining
  <2>2. k \in 0..Len(current) /\ k \in 0..remaining
    BY <1>3, <2>1
  <2>3. sent = SubSeq(current, 1, k)
    <3>1. SubSeq(current, 1, Len(current)) = current
      BY <1>2, SubSeqFull DEF Bytes
    <3> QED  BY <3>1
  <2> HIDE DEF k, current
  <2>4. /\ SubSeq(current, 1, k) \in Bytes /\ SubSeq(current, k + 1, Len(current)) \in Bytes
        /\ Len(SubSeq(current, 1, k)) = k
        /\ current = SubSeq(current, 1, k) \o SubSeq(current, k + 1, Len(current))
    BY <1>2, <2>2, BytesSplit
  <2> QED  BY <2>2, <2>3, <2>4
<1>5. a \in Bytes /\ wire \in Bytes /\ d \in Bytes /\ FlattenSeq(t) \in Bytes
  BY <1>2, Types, FlattenBytes DEF IInv
<1>6. /\ UnderWay = Row(a, wire, FlattenSeq(queue), d)
      /\ UnderWay' = Row(a, wire', FlattenSeq(queue'), d)
  BY <1>1 DEF UnderWay
<1> HIDE DEF current, remaining, sent, rest, a, d, t
<1>7. queue' \in Seq(Bytes) /\ FlattenSeq(queue') = rest \o FlattenSeq(t)
  BY <1>1, <1>2, <1>4, FlattenRest
<1>8. TypeOK'
  <2>1. wire' \in Bytes
    BY <1>1, <1>4, <1>5, BytesConcat
  <2>2. spent' \in 0..rateLimitBytesPerInterval
    BY <1>1, <1>3, <1>4
  <2> QED  BY <1>1, <1>7, <2>1, <2>2 DEF IInv, TypeOK
<1>9. WriterInv'
  BY <1>1 DEF IInv, WriterInv
<1>10. UnderWay' = UnderWay
  <2> DEFINE f == FlattenSeq(t)
             q == FlattenSeq(queue)
  <2>1. f \in Bytes /\ q = (sent \o rest) \o f /\ FlattenSeq(queue') = rest \o f
    BY <1>2, <1>4, <1>5, <1>7
  <2>2. UnderWay = Row(a, wire, q, d) /\ UnderWay' = Row(a, wire \o sent, rest \o f, d)
    BY <1>1, <1>6, <2>1
  <2> HIDE DEF f, q
  <2>3. q = sent \o (rest \o f) /\ rest \o f \in Bytes
    BY <1>4, <2>1, BytesRegroup, BytesConcat
  <2> DEFINE z == rest \o f
  <2>4. UnderWay = Row(a, wire, sent \o z, d) /\ UnderWay' = Row(a, wire \o sent, z, d)
    BY <2>2, <2>3
  <2>5. z \in Bytes
    BY <2>3
  <2> HIDE DEF z
  <2>6. Row(a, wire, sent \o z, d) = Row(a, wire \o sent, z, d)
    BY <1>4, <1>5, <2>5, MoveSecond
  <2> QED  BY <2>4, <2>6
<1> QED  BY <1>1, <1>8, <1>9, <1>10, StepWithin

(* The steps of the limiter that move no byte.                             *)
LEMMA LimiterInv ==
  ASSUME IInv, endProcessing \/ rateLimitTimer \/ TimePasses
  PROVE  IInv'
<1>1. /\ UNCHANGED <<open, limited, written, pieces, queue, wire,
                     chunks, chunksTotalSize, sizeToRead, state, emitted>>
      /\ spent' = spent \/ spent' = 0
      /\ processing' \in BOOLEAN /\ elapsed' \in BOOLEAN /\ timers' \in Nat
  <2>1. processing \in BOOLEAN /\ elapsed \in BOOLEAN /\ timers \in Nat
    BY DEF IInv, TypeOK
  <2>2. CASE endProcessing
    <3>1. timers' \in Nat
      BY <2>1, <2>2 DEF endProcessing
    <3> QED  BY <2>1, <2>2, <3>1 DEF endProcessing, readerVars
  <2>3. CASE rateLimitTimer
    <3>1. timers' \in Nat
      BY <2>1, <2>3 DEF rateLimitTimer
    <3> QED  BY <2>1, <2>3, <3>1 DEF rateLimitTimer, processRateLimitQueue, readerVars
  <2>4. CASE TimePasses
    BY <2>1, <2>4 DEF TimePasses, readerVars
  <2> QED  BY <2>2, <2>3, <2>4
<1>2. spent' \in 0..rateLimitBytesPerInterval
  BY <1>1, IntervalType DEF IInv, TypeOK
<1>3. TypeOK'
  BY <1>1, <1>2 DEF IInv, TypeOK
<1>4. WriterInv'
  BY <1>1 DEF IInv, WriterInv
<1>5. UnderWay' = UnderWay
  BY <1>1 DEF UnderWay
<1> QED  BY <1>1, <1>3, <1>4, <1>5, StepWithin

-----------------------------------------------------------------------------
(* The reader.                                                             *)

LEMMA HandleOnDataInv ==
  ASSUME IInv, handleOnData
  PROVE  IInv'
<1>1. PICK k \in 1..Len(wire) :
        /\ chunks' = Append(chunks, SubSeq(wire, 1, k))
        /\ chunksTotalSize' = chunksTotalSize + k
        /\ wire' = SubSeq(wire, k + 1, Len(wire))
  BY DEF handleOnData
<1>2. /\ "reader" \in open
      /\ UNCHANGED <<open, limited, written, pieces, queue, processing, spent, elapsed, timers,
                     sizeToRead, state, emitted>>
  BY DEF handleOnData, writerVars, limiterVars
<1> DEFINE x == SubSeq(wire, 1, k)
           b == SubSeq(wire, k + 1, Len(wire))
           a == FlattenSeq(chunks)
           q == FlattenSeq(queue)
           d == FlattenSeq(pieces)
<1>3. x \in Bytes /\ b \in Bytes /\ Len(x) = k /\ wire = x \o b
  <2>1. wire \in Bytes /\ k \in 0..Len(wire)
    BY DEF IInv, TypeOK
  <2> QED  BY <2>1, BytesSplit
<1>4. a \in Bytes /\ q \in Bytes /\ d \in Bytes /\ chunks \in Seq(Bytes)
  BY Types DEF IInv
<1>5. UnderWay = Row(a, wire, q, d) /\ UnderWay' = Row(FlattenSeq(chunks'), wire', q, d)
  BY <1>2 DEF UnderWay
<1>6. chunks' = Append(chunks, x) /\ wire' = b
  BY <1>1
<1> HIDE DEF x, b
<1>7. chunks' \in Seq(Bytes) /\ FlattenSeq(chunks') = a \o x
  BY <1>3, <1>4, <1>6, FlattenBytes
<1>8. chunksTotalSize' = Len(FlattenSeq(chunks'))
  <2>1. chunksTotalSize = Len(a)
    BY DEF IInv, TypeOK
  <2> QED  BY <1>1, <1>3, <1>4, <1>7, <2>1, BytesConcat
<1>9. TypeOK'
  BY <1>2, <1>3, <1>6, <1>7, <1>8 DEF IInv, TypeOK
<1>10. WriterInv'
  BY <1>2 DEF IInv, WriterInv
<1> HIDE DEF a, q, d
<1>11. Row(a, x \o b, q, d) = Row(a \o x, b, q, d)
  BY <1>3, <1>4, MoveFirst
<1>12. UnderWay' = UnderWay
  BY <1>3, <1>5, <1>6, <1>7, <1>11
<1> QED  BY <1>2, <1>9, <1>10, <1>12, StepWithin

(* The chunks hold what is to be read, then what chunks' holds.            *)
LEMMA ChunksExist ==
  ASSUME TypeOK, Complete
  PROVE  /\ ChunksToRead \in 1..Len(chunks)
         /\ Len(readAhead) >= sizeToRead
<1> DEFINE ahead(n) == Len(FlattenSeq(SubSeq(chunks, 1, n)))
           Is(n) == ahead(n) >= sizeToRead /\ ahead(n - 1) < sizeToRead
           T == {n \in Nat : n <= Len(chunks) => ahead(n) < sizeToRead}
<1>1. chunks \in Seq(Bytes) /\ sizeToRead \in Nat \ {0} /\ Len(chunks) \in Nat
  BY DEF TypeOK
<1>2. \A n \in 0..Len(chunks) : ahead(n) \in Nat
  <2> TAKE n \in 0..Len(chunks)
  <2>1. SubSeq(chunks, 1, n) \in Seq(Bytes)
    BY <1>1
  <2> DEFINE s == SubSeq(chunks, 1, n)
  <2> HIDE DEF s
  <2>2. Len(FlattenSeq(s)) \in Nat
    BY <2>1, FlattenBytes, BytesConcat DEF s
  <2> QED  BY <2>2 DEF s
<1>3. \E n \in 1..Len(chunks) : Is(n)
  <2> SUFFICES ASSUME \A n \in 1..Len(chunks) : ~Is(n) PROVE FALSE
    OBVIOUS
  <2>1. 0 \in T
    <3>1. SubSeq(chunks, 1, 0) = << >>
      BY SubSeqEmpty
    <3>2. ahead(0) = 0
      <4> DEFINE none == SubSeq(chunks, 1, 0)
      <4>1. none = << >>
        BY <3>1
      <4> HIDE DEF none
      <4>2. Len(FlattenSeq(none)) = 0
        BY <4>1, FlattenEmpty
      <4> QED  BY <4>2 DEF none
    <3> QED  BY <1>1, <3>2
  <2>2. ASSUME NEW n \in Nat, n \in T PROVE n + 1 \in T
    <3> SUFFICES ASSUME n + 1 <= Len(chunks) PROVE ahead(n + 1) < sizeToRead
      OBVIOUS
    <3>1. n + 1 \in 1..Len(chunks) /\ (n + 1) - 1 = n /\ n <= Len(chunks) /\ n + 1 \in 0..Len(chunks)
      BY <1>1
    <3>2. ahead(n) < sizeToRead
      BY <2>2, <3>1
    <3>3. ~Is(n + 1)
      BY <3>1
    <3> HIDE DEF ahead
    <3>4. ~(ahead(n + 1) >= sizeToRead)
      BY <3>1, <3>2, <3>3
    <3> QED  BY <1>1, <1>2, <3>1, <3>4
  <2>3. Len(chunks) \in T
    <3> HIDE DEF T
    <3> QED  BY <1>1, <2>1, <2>2, Induction
  <2>4. SubSeq(chunks, 1, Len(chunks)) = chunks
    BY <1>1, SubSeqFull
  <2>5. Len(FlattenSeq(chunks)) < sizeToRead
    <3> DEFINE all == SubSeq(chunks, 1, Len(chunks))
    <3>1. Len(FlattenSeq(all)) < sizeToRead
      BY <1>1, <2>3
    <3>2. all = chunks
      BY <2>4
    <3> HIDE DEF all
    <3> QED  BY <3>1, <3>2
  <2>6. Len(FlattenSeq(chunks)) >= sizeToRead
    BY DEF TypeOK, Complete
  <2>7. Len(FlattenSeq(chunks)) \in Nat
    BY <1>1, FlattenBytes, BytesConcat
  <2> QED  BY <1>1, <2>5, <2>6, <2>7
<1>4. ChunksToRead = CHOOSE n \in 1..Len(chunks) : Is(n)
  BY DEF ChunksToRead
<1> DEFINE m == CHOOSE n \in 1..Len(chunks) : Is(n)
<1>5. m \in 1..Len(chunks) /\ Is(m)
  <2> HIDE DEF Is
  <2> QED  BY <1>3
<1> QED  BY <1>4, <1>5 DEF readAhead

LEMMA ReadAhead ==
  ASSUME TypeOK, Complete, processData
  PROVE  /\ SubSeq(readAhead, 1, sizeToRead) \in Bytes
         /\ Len(SubSeq(readAhead, 1, sizeToRead)) = sizeToRead
         /\ chunks # << >> /\ chunks' \in Seq(Bytes)
         /\ FlattenSeq(chunks) = SubSeq(readAhead, 1, sizeToRead) \o FlattenSeq(chunks')
<1> DEFINE n == ChunksToRead
           first == SubSeq(chunks, 1, n)
           others == SubSeq(chunks, n + 1, Len(chunks))
           ahead == readAhead
           read == SubSeq(ahead, 1, sizeToRead)
           rest == SubSeq(ahead, sizeToRead + 1, Len(ahead))
<1>1. chunks \in Seq(Bytes) /\ sizeToRead \in Nat \ {0} /\ Len(chunks) \in Nat
  BY DEF TypeOK
<1>2. n \in 1..Len(chunks) /\ Len(ahead) >= sizeToRead
  BY ChunksExist
<1>3. ahead = FlattenSeq(first)
  BY DEF readAhead
<1> HIDE DEF n, ahead
<1>4. first \in Seq(Bytes) /\ others \in Seq(Bytes)
  BY <1>1, <1>2
<1>5. FlattenSeq(chunks) = FlattenSeq(first) \o FlattenSeq(others)
  <2>1. n \in 0..Len(chunks)
    BY <1>2
  <2> QED  BY <1>1, <2>1, FlattenSplit DEF Bytes
<1>6. chunks' = (IF rest = << >> THEN << >> ELSE <<rest>>) \o others
  BY DEF processData, n, ahead
<1> HIDE DEF first, others
<1>7. ahead \in Bytes /\ Len(ahead) \in Nat
  BY <1>3, <1>4, FlattenBytes, BytesConcat
<1>8. /\ read \in Bytes /\ rest \in Bytes /\ Len(read) = sizeToRead
      /\ ahead = read \o rest
  <2>1. sizeToRead \in 0..Len(ahead)
    BY <1>1, <1>2, <1>7
  <2> QED  BY <1>7, <2>1, BytesSplit
<1> SUFFICES /\ chunks # << >> /\ chunks' \in Seq(Bytes)
             /\ FlattenSeq(chunks) = read \o FlattenSeq(chunks')
  BY <1>8 DEF ahead
<1> HIDE DEF read, rest
<1>9. chunks' \in Seq(Bytes) /\ FlattenSeq(chunks') = rest \o FlattenSeq(others)
  BY <1>4, <1>6, <1>8, FlattenRest
<1> DEFINE more == FlattenSeq(others)
<1>10. more \in Bytes
  BY <1>4, FlattenBytes
<1> HIDE DEF more
<1>11. (read \o rest) \o more = read \o (rest \o more)
  BY <1>8, <1>10, BytesRegroup
<1>12. chunks # << >>
  BY <1>1, <1>2
<1> QED  BY <1>3, <1>5, <1>8, <1>9, <1>11, <1>12 DEF more

(* The stream begins with the first buffer that is not emitted.            *)
LEMMA FirstFrame ==
  ASSUME TypeOK, WrittenInv, ReaderInv, Len(emitted) < Len(written)
  PROVE  LET b == written[Len(emitted) + 1]
             more == FlattenSeq(SubSeq(Frames, Len(emitted) + 2, Len(written)))
         IN  /\ ToCome = FrameOf(b) \o more
             /\ b \in Bytes /\ Len(b) \in Sizes /\ b # << >> /\ more \in Bytes
<1> DEFINE e == Len(emitted)
           l == Len(written)
           b == written[e + 1]
           s == SubSeq(Frames, e + 1, l)
           t == SubSeq(Frames, e + 2, l)
<1>1. e \in 0..l /\ l \in Nat /\ e < l /\ Frames \in Seq(Bytes) /\ Len(Frames) = l
  BY Types
<1>2. e + 1 \in 1..l
  BY <1>1
<1>3. b \in Bytes /\ Len(b) \in Sizes /\ b # << >>
  BY <1>2, BuffersAreBytes DEF TypeOK, WrittenInv
<1>4. Frames[e + 1] = FrameOf(b)
  BY <1>2 DEF Frames
<1> HIDE DEF e, l, b
<1>5. s \in Seq(Bytes) /\ s # << >> /\ Head(s) = Frames[e + 1] /\ Tail(s) = t
  <2>1. s \in Seq(Bytes) /\ Len(s) = l - e /\ \A i \in 1..(l - e) : s[i] = Frames[e + i]
    BY <1>1
  <2>2. t \in Seq(Bytes) /\ Len(t) = l - e - 1 /\ \A i \in 1..(l - e - 1) : t[i] = Frames[e + 1 + i]
    BY <1>1
  <2>3. Tail(s) \in Seq(Bytes) /\ Len(Tail(s)) = l - e - 1 /\ \A i \in 1..(l - e - 1) : Tail(s)[i] = s[i + 1]
    <3> HIDE DEF s
    <3> QED  BY <1>1, <2>1
  <2>4. \A i \in 1..(l - e - 1) : Tail(s)[i] = t[i]
    <3> HIDE DEF s, t
    <3> TAKE i \in 1..(l - e - 1)
    <3>1. i + 1 \in 1..(l - e) /\ e + (i + 1) = e + 1 + i
      BY <1>1
    <3> QED  BY <2>1, <2>2, <2>3, <3>1
  <2>5. Tail(s) = t
    <3> HIDE DEF s, t
    <3> QED  BY <2>2, <2>3, <2>4, SeqEqual
  <2>6. s # << >> /\ Head(s) = s[1] /\ s[1] = Frames[e + 1]
    <3> HIDE DEF s
    <3> QED  BY <1>1, <2>1
  <2> QED  BY <2>1, <2>5, <2>6
<1>6. ToCome = FlattenSeq(s)
  BY DEF ToCome, e, l
<1> HIDE DEF s, t
<1>7. FlattenSeq(s) = FrameOf(b) \o FlattenSeq(t) /\ FlattenSeq(t) \in Bytes
  BY <1>4, <1>5, FlattenBytes
<1> QED  BY <1>3, <1>6, <1>7 DEF e, l, b, t

LEMMA ProcessDataInv ==
  ASSUME IInv, processData
  PROVE  /\ IInv'
         /\ \/ UNCHANGED emitted
            \/ /\ "reader" \in open /\ Len(emitted) < Len(written)
               /\ emitted' = Append(emitted, written[Len(emitted) + 1])
<1> DEFINE read == SubSeq(readAhead, 1, sizeToRead)
           e == Len(emitted)
           l == Len(written)
           b == written[e + 1]
           more == FlattenSeq(SubSeq(Frames, e + 2, l))
           beyond == UnderWay'
           emits == /\ "reader" \in open /\ e < l
                    /\ emitted' = Append(emitted, b)
<1>1. Complete /\ Interpret(read) /\ chunksTotalSize' = chunksTotalSize - sizeToRead
  BY DEF processData
<1>2. UNCHANGED <<open, limited, written, pieces, queue, processing, spent, elapsed, timers, wire>>
  BY DEF processData, writerVars, limiterVars
<1>3. /\ read \in Bytes /\ Len(read) = sizeToRead
      /\ chunks # << >> /\ chunks' \in Seq(Bytes)
      /\ FlattenSeq(chunks) = read \o FlattenSeq(chunks')
  BY <1>1, ReadAhead DEF IInv
<1> HIDE DEF read
<1>4. /\ "reader" \in open
      /\ e \in 0..l /\ l \in Nat /\ HasRead \in Bytes /\ ToCome \in Bytes
      /\ LengthSize \in Nat \ {0} /\ Frames' = Frames
      /\ emitted \in Seq(Bytes) /\ sizeToRead \in Nat \ {0}
  <2>1. Frames' = Frames
    BY <1>2 DEF Frames
  <2> QED  BY <1>3, <2>1, Types, FramingAssumption DEF IInv, ReaderInv, TypeOK
<1>5. beyond \in Bytes /\ UnderWay = read \o beyond
  <2> DEFINE a == FlattenSeq(chunks')
             q == FlattenSeq(queue)
             d == FlattenSeq(pieces)
             r == Row(a, wire, q, d)
  <2>1. a \in Bytes /\ wire \in Bytes /\ q \in Bytes /\ d \in Bytes
    BY <1>3, FlattenBytes, Types DEF IInv
  <2>2. UnderWay = Row(read \o a, wire, q, d) /\ UnderWay' = Row(a, wire, q, d)
    BY <1>2, <1>3 DEF UnderWay
  <2> HIDE DEF a, q, d
  <2>3. r \in Bytes /\ r = Row(a, wire, q, d)
    BY <2>1, RowType
  <2> HIDE DEF r
  <2>4. read \in Bytes
    BY <1>3
  <2>5. Row(read \o a, wire, q, d) = Joined(read, Row(a, wire, q, d))
    BY <2>1, <2>4, RowStart
  <2> QED  BY <2>2, <2>3, <2>5 DEF Joined
<1>6. chunksTotalSize' = Len(FlattenSeq(chunks'))
  <2>1. chunksTotalSize = Len(FlattenSeq(chunks))
    BY DEF IInv, TypeOK
  <2> DEFINE a == FlattenSeq(chunks')
  <2>2. a \in Bytes
    BY <1>3, FlattenBytes
  <2> HIDE DEF a
  <2>3. Len(read \o a) = Len(read) + Len(a) /\ Len(read) \in Nat /\ Len(a) \in Nat
    BY <1>3, <2>2, BytesConcat
  <2> QED  BY <1>1, <1>3, <2>1, <2>3 DEF a
<1>7. PICK lost \in Bytes : /\ ToCome = (HasRead \o UnderWay) \o lost
                            /\ "writer" \in open => lost = << >>
  BY <1>4, StreamParts DEF IInv
<1> DEFINE after == beyond \o lost
<1>8. /\ after \in Bytes
      /\ ToCome = HasRead \o (read \o after)
  <2>1. after \in Bytes
    BY <1>5, BytesConcat
  <2> HIDE DEF beyond
  <2> DEFINE u == read \o beyond
  <2>2. u \in Bytes
    BY <1>3, <1>5, BytesConcat
  <2>3. ToCome = (HasRead \o u) \o lost
    BY <1>5, <1>7
  <2> HIDE DEF u
  <2>4. (HasRead \o u) \o lost = HasRead \o (u \o lost)
    BY <1>4, <2>2, BytesRegroup
  <2>5. (read \o beyond) \o lost = read \o (beyond \o lost)
    BY <1>3, <1>5, BytesRegroup
  <2> QED  BY <2>1, <2>3, <2>4, <2>5 DEF u
<1>9. WrittenInv' /\ WriterInv'
  BY <1>2 DEF IInv, WrittenInv, WriterInv
<1>10. ASSUME sizeToRead' \in Nat \ {0}, emitted' \in Seq(Bytes),
              state' \in {"STATE_READ_LENGTH", "STATE_READ_BUFFER"}
       PROVE  TypeOK'
  BY <1>2, <1>3, <1>6, <1>10 DEF IInv, TypeOK
<1>11. ASSUME HasRead' \in Bytes, ToCome' = HasRead' \o after PROVE StreamInv'
  <2>1. ToCome' = (HasRead' \o beyond) \o lost
    <3> DEFINE h == HasRead'
    <3>1. h \in Bytes
      BY <1>11
    <3> HIDE DEF beyond, h
    <3>2. h \o (beyond \o lost) = (h \o beyond) \o lost
      BY <1>5, <3>1, BytesRegroup
    <3> QED  BY <1>11, <3>2 DEF h
  <2>2. "writer" \in open' => lost = << >>
    BY <1>2, <1>7
  <2> QED  BY <1>5, <1>11, <2>1, <2>2, StreamHolds
<1>12. ASSUME e < l
       PROVE  /\ ToCome = LengthBytes(Len(b)) \o (b \o more)
              /\ b \in Bytes /\ Len(b) \in Sizes /\ more \in Bytes
              /\ LengthBytes(Len(b)) \in Bytes /\ Len(LengthBytes(Len(b))) = LengthSize
              /\ Decoded(LengthBytes(Len(b))) = Len(b) /\ Len(b) \in Nat \ {0}
  <2>1. ToCome = FrameOf(b) \o more /\ b \in Bytes /\ Len(b) \in Sizes /\ more \in Bytes
    BY <1>12, FirstFrame DEF IInv
  <2> HIDE DEF b, more
  <2> DEFINE length == LengthBytes(Len(b))
  <2>2. /\ length \in Bytes /\ Len(length) = LengthSize
        /\ Decoded(length) = Len(b) /\ Len(b) \in Nat \ {0}
    BY <2>1, LengthTypes
  <2>3. ToCome = (length \o b) \o more
    BY <2>1 DEF FrameOf
  <2> HIDE DEF length
  <2>4. (length \o b) \o more = length \o (b \o more)
    BY <2>1, <2>2, BytesRegroup
  <2> QED  BY <2>1, <2>2, <2>3, <2>4 DEF length
<1> SUFFICES IInv' /\ (UNCHANGED emitted \/ emits)
  OBVIOUS
<1> HIDE DEF after, beyond
<1>13. CASE /\ state = "STATE_READ_LENGTH" /\ state' = "STATE_READ_BUFFER"
            /\ sizeToRead' = Decoded(read) /\ UNCHANGED emitted
  <2>1. sizeToRead = LengthSize /\ HasRead = << >>
    BY <1>13 DEF IInv, ReaderInv, HasRead
  <2>2. ToCome = read \o after
    <3>1. read \o after \in Bytes
      BY <1>3, <1>8, BytesConcat
    <3> QED  BY <1>8, <2>1, <3>1, BytesEmpty
  <2>3. e < l
    <3> SUFFICES ASSUME e = l PROVE FALSE
      BY <1>4
    <3>1. SubSeq(Frames, e + 1, l) = << >>
      BY <1>4, SubSeqEmpty
    <3>2. ToCome = << >>
      BY <3>1, FlattenEmpty DEF ToCome
    <3>3. Len(ToCome) = 0
      BY <3>2
    <3>4. Len(read \o after) = Len(read) + Len(after) /\ Len(after) \in Nat
      BY <1>3, <1>8, BytesConcat
    <3> QED  BY <1>3, <1>4, <2>1, <2>2, <3>3, <3>4
  <2> DEFINE length == LengthBytes(Len(b))
             rest == b \o more
  <2>4. /\ length \in Bytes /\ Len(length) = LengthSize /\ Decoded(length) = Len(b)
        /\ Len(b) \in Nat \ {0} /\ rest \in Bytes /\ ToCome = length \o rest
    BY <1>12, <2>3, BytesConcat
  <2> HIDE DEF b, length, rest
  <2>5. read = length /\ after = rest
    BY <1>3, <1>8, <2>1, <2>2, <2>4, BytesEqual
  <2>6. sizeToRead' = Len(b) /\ HasRead' = length
    BY <1>13, <2>4, <2>5 DEF HasRead, length
  <2>7. ToCome' = ToCome
    BY <1>2, <1>4, <1>13 DEF ToCome
  <2>8. StreamInv'
    BY <1>11, <2>2, <2>4, <2>5, <2>6, <2>7
  <2>9. ReaderInv'
    BY <1>2, <1>4, <1>13, <2>3, <2>6 DEF IInv, ReaderInv, b
  <2>10. TypeOK'
    BY <1>4, <1>10, <1>13, <2>4, <2>6
  <2> QED  BY <1>9, <1>13, <2>8, <2>9, <2>10 DEF IInv
<1>14. CASE /\ state = "STATE_READ_BUFFER" /\ state' = "STATE_READ_LENGTH"
            /\ sizeToRead' = LengthSize /\ emitted' = Append(emitted, read)
  <2>1. e < l /\ sizeToRead = Len(b)
    BY <1>14 DEF IInv, ReaderInv
  <2> DEFINE length == LengthBytes(Len(b))
  <2>2. /\ length \in Bytes /\ b \in Bytes /\ more \in Bytes
        /\ ToCome = length \o (b \o more)
    BY <1>12, <2>1
  <2>3. HasRead = length
    BY <1>14, <2>1 DEF HasRead
  <2> HIDE DEF length
  <2>4. ToCome = length \o (read \o after)
    BY <1>8, <2>3
  <2>5. read = b /\ after = more
    <3> HIDE DEF b, more
    <3>1. b \o more \in Bytes /\ read \o after \in Bytes
      BY <1>3, <1>8, <2>2, BytesConcat
    <3> DEFINE x == b \o more
               y == read \o after
    <3>2. x \in Bytes /\ y \in Bytes /\ length \o x = length \o y
      BY <2>2, <2>4, <3>1
    <3> HIDE DEF x, y
    <3>3. x = y
      BY <2>2, <3>2, BytesEqual
    <3>4. Len(read) = Len(b)
      BY <1>3, <2>1
    <3> QED  BY <1>3, <1>8, <2>2, <3>3, <3>4, BytesEqual DEF x, y
  <2>6. emitted' = Append(emitted, b) /\ emitted' \in Seq(Bytes) /\ Len(emitted') = e + 1
    <3> HIDE DEF b
    <3> QED  BY <1>4, <1>14, <2>2, <2>5, AppendProperties
  <2>7. ToCome' = more
    <3>1. Len(emitted') + 1 = e + 2
      BY <1>4, <2>6
    <3> QED  BY <1>2, <1>4, <3>1 DEF ToCome
  <2>8. HasRead' = << >>
    BY <1>14 DEF HasRead
  <2> HIDE DEF more
  <2>9. StreamInv'
    BY <1>8, <1>11, <2>5, <2>7, <2>8, BytesEmpty
  <2>10. ReaderInv'
    BY <1>2, <1>4, <1>14, <2>1, <2>6 DEF IInv, ReaderInv
  <2>11. TypeOK'
    BY <1>4, <1>10, <1>14, <2>6
  <2> QED  BY <1>4, <1>9, <2>1, <2>6, <2>9, <2>10, <2>11 DEF IInv
<1> QED  BY <1>1, <1>13, <1>14 DEF Interpret

LEMMA WriterEndsInv ==
  ASSUME IInv, WriterCloses \/ writeBufferThrows
  PROVE  IInv'
<1> DEFINE q == FlattenSeq(queue)
           d == FlattenSeq(pieces)
           a == FlattenSeq(chunks)
           here == a \o wire
<1>1. /\ open' = open \ {"writer"} /\ queue' = << >> /\ elapsed' = TRUE /\ timers' \in Nat
      /\ pieces = << >>
      /\ UNCHANGED <<limited, written, pieces, processing, spent, wire,
                     chunks, chunksTotalSize, sizeToRead, state, emitted>>
  BY DEF WriterCloses, writeBufferThrows, WriterEnds, Idle, readerVars
<1>2. << >> \in Seq(Bytes)
  BY EmptySeq
<1>3. TypeOK'
  BY <1>1, <1>2 DEF IInv, TypeOK
<1>4. WrittenInv' /\ WriterInv' /\ ReaderInv'
  BY <1>1 DEF IInv, WrittenInv, WriterInv, ReaderInv
<1>5. CASE "reader" \in open
  <2>1. PICK lost \in Bytes : ToCome = (HasRead \o UnderWay) \o lost
    BY <1>5, StreamParts DEF IInv
  <2>2. /\ q \in Bytes /\ d = << >> /\ FlattenSeq(queue') = << >>
        /\ HasRead \in Bytes /\ UnderWay \in Bytes
    BY <1>1, FlattenEmpty, Types DEF IInv
  <2>3. here \in Bytes
    BY Types, BytesConcat DEF IInv
  <2>4. UnderWay = (here \o q) \o d /\ UnderWay' = (here \o << >>) \o << >>
    BY <1>1, <2>2 DEF UnderWay, Row
  <2> HIDE DEF here, q, d
  <2>5. UnderWay = here \o q /\ UnderWay' = here
    BY <2>2, <2>3, <2>4, BytesEmpty, BytesConcat
  <2> DEFINE after == q \o lost
             h == HasRead
  <2>6. h \in Bytes
    BY <2>2
  <2>7. ToCome = (h \o (here \o q)) \o lost
    BY <2>1, <2>5
  <2>8. (h \o (here \o q)) \o lost = (h \o here) \o (q \o lost)
    <3> HIDE DEF h
    <3>1. h \o (here \o q) = (h \o here) \o q
      <4>1. q \in Bytes
        BY <2>2
      <4> QED  BY <2>3, <2>6, <4>1, BytesRegroup
    <3> DEFINE u == h \o here
    <3>2. u \in Bytes
      BY <2>3, <2>6, BytesConcat
    <3> HIDE DEF u
    <3>3. (u \o q) \o lost = u \o (q \o lost)
      BY <2>2, <3>2, BytesRegroup
    <3> QED  BY <3>1, <3>3 DEF u
  <2>9. ToCome' = ToCome /\ HasRead' = HasRead
    <3>1. Frames' = Frames
      BY <1>1 DEF Frames
    <3> QED  BY <1>1, <3>1 DEF ToCome, HasRead
  <2>10. ToCome' = (HasRead' \o UnderWay') \o after
    BY <2>5, <2>7, <2>8, <2>9
  <2>11. "writer" \notin open'
    BY <1>1
  <2>12. after \in Bytes
    BY <2>2, BytesConcat
  <2> HIDE DEF after, h
  <2>13. StreamInv'
    BY <2>2, <2>3, <2>5, <2>9, <2>10, <2>11, <2>12, StreamHolds
  <2> QED  BY <1>3, <1>4, <2>13 DEF IInv
<1>6. CASE "reader" \notin open
  <2>1. StreamInv'
    BY <1>1, <1>6 DEF StreamInv
  <2> QED  BY <1>3, <1>4, <2>1 DEF IInv
<1> QED  BY <1>5, <1>6

LEMMA ReaderClosesInv ==
  ASSUME IInv, ReaderCloses
  PROVE  IInv'
<1>1. /\ open' = open \ {"reader"}
      /\ wire' = << >> /\ chunks' = << >> /\ chunksTotalSize' = 0
      /\ sizeToRead' = LengthSize /\ state' = "STATE_READ_LENGTH"
      /\ UNCHANGED <<limited, written, pieces, queue, processing, spent, elapsed, timers, emitted>>
  BY DEF ReaderCloses, writerVars, limiterVars
<1>2. << >> \in Seq(Bytes) /\ << >> \in Bytes /\ LengthSize \in Nat \ {0}
  BY EmptySeq, BytesEmpty, FramingAssumption
<1>3. chunksTotalSize' = Len(FlattenSeq(chunks'))
  <2>1. Len(FlattenSeq(<< >>)) = 0
    BY FlattenEmpty
  <2> QED  BY <1>1, <2>1
<1>4. TypeOK'
  BY <1>1, <1>2, <1>3 DEF IInv, TypeOK
<1>5. WrittenInv' /\ WriterInv' /\ ReaderInv' /\ StreamInv'
  BY <1>1 DEF IInv, WrittenInv, WriterInv, ReaderInv, StreamInv
<1> QED  BY <1>4, <1>5 DEF IInv

-----------------------------------------------------------------------------
LEMMA StutterInv ==
  ASSUME IInv, UNCHANGED vars
  PROVE  IInv'
BY DEF IInv, TypeOK, WrittenInv, WriterInv, ReaderInv, StreamInv, ToCome, HasRead, UnderWay,
       Frames, vars, writerVars, limiterVars, readerVars

(* Nothing is lost, added or swapped between writeBuffer and processData:  *)
(* the invariant of the stream holds in every state.                       *)
THEOREM IInvInductive ==
  Spec => []IInv
<1>1. Init => IInv
  BY InitInv
<1>2. IInv /\ [Next]_vars => IInv'
  BY StutterInv, WriteBufferInv, WriteDataInv, SendFromQueueInv, LimiterInv, HandleOnDataInv,
     ProcessDataInv, WriterEndsInv, ReaderClosesInv DEF Next
<1> QED  BY <1>1, <1>2, PTL DEF Spec

(* The sizes that DataRateLimiter and processData keep are those of the    *)
(* bytes they stand for, and an interval never sends more than its share.  *)
THEOREM FramingTypes ==
  Spec => []TypeOK
<1>1. IInv => TypeOK
  BY DEF IInv
<1> QED  BY <1>1, IInvInductive, PTL

(* Every step of the two TransportSockets is one of the channel, or none.  *)
LEMMA StepIsChannel ==
  ASSUME IInv, [Next]_vars
  PROVE  [Channel!Next]_(Channel!channelVars)
<1> USE DEF Channel!channelVars
<1>1. ASSUME UNCHANGED <<written, emitted, open>> PROVE [Channel!Next]_(Channel!channelVars)
  BY <1>1
<1>2. ASSUME NEW n \in Sizes, writeBuffer(n) PROVE Channel!Next
  <2> DEFINE buffer == BufferBytes(Len(written) + 1, n)
  <2>1. Len(written) + 1 \in 1..MaxBuffers
    BY <1>2, FramingAssumption DEF IInv, TypeOK, writeBuffer
  <2>2. buffer \in Buffers
    BY <2>1, BufferTypes
  <2>3. /\ "writer" \in open /\ written' = Append(written, buffer)
        /\ UNCHANGED <<open, emitted>>
    BY <1>2 DEF writeBuffer, readerVars
  <2> HIDE DEF buffer
  <2> QED  BY <2>2, <2>3 DEF Channel!Next, Channel!Write
<1>3. ASSUME processData PROVE [Channel!Next]_(Channel!channelVars)
  <2>1. \/ UNCHANGED emitted
        \/ /\ "reader" \in open /\ Len(emitted) < Len(written)
           /\ emitted' = Append(emitted, written[Len(emitted) + 1])
    BY <1>3, ProcessDataInv
  <2>2. UNCHANGED <<written, open>>
    BY <1>3 DEF processData, writerVars
  <2> QED  BY <1>1, <2>1, <2>2 DEF Channel!Next, Channel!Emit
<1>4. ASSUME WriterCloses \/ writeBufferThrows PROVE Channel!Next
  BY <1>4 DEF WriterCloses, writeBufferThrows, WriterEnds, readerVars, Channel!Next, Channel!Close
<1>5. ASSUME ReaderCloses PROVE Channel!Next
  BY <1>5 DEF ReaderCloses, writerVars, Channel!Next, Channel!Close
<1>6. ASSUME writeData \/ sendFromQueue \/ endProcessing \/ rateLimitTimer \/ TimePasses
             \/ handleOnData \/ UNCHANGED vars
      PROVE  UNCHANGED <<written, emitted, open>>
  BY <1>6 DEF writeData, sendFromQueue, endProcessing, rateLimitTimer, TimePasses, handleOnData,
              vars, writerVars, readerVars
<1> QED  BY <1>1, <1>2, <1>3, <1>4, <1>5, <1>6 DEF Next

(* The TransportSockets implement the channel of whole buffers: whatever   *)
(* writeData, DataRateLimiter and the network do to the bytes, processData *)
(* emits the buffers given to writeBuffer, in order and once each.         *)
THEOREM FramingImplementsChannel ==
  Spec => IsChannel
<1>1. Init => Channel!Init
  BY DEF Init, Channel!Init
<1> QED  BY <1>1, StepIsChannel, IInvInductive, PTL DEF Spec, IsChannel, Channel!Spec

=============================================================================
