-------------------------- MODULE TokenReconProofs --------------------------
(***************************************************************************)
(* What a report of tokenrecon says, for every configuration, any number   *)
(* of tokens and any size of chunks, and whatever answers are missing.     *)
(***************************************************************************)
EXTENDS TokenRecon, FiniteSetTheorems, WellFoundedInduction, TLAPS

-----------------------------------------------------------------------------
(* Joining sequences *)

\* Induction: a set of numbers up to n that holds 0 and with each number below
\* n the next one holds all of them.
LEMMA NumbersUpTo ==
  ASSUME NEW n \in Nat, NEW S \in SUBSET (0..n), 0 \in S, \A i \in S : i < n => i + 1 \in S
  PROVE  S = 0..n
  <1>. DEFINE T == 0..n \ S
  <1>. SUFFICES ASSUME T # {} PROVE FALSE
    OBVIOUS
  <1>1. PICK m \in T : \A i \in T : ~(<<i, m>> \in OpToRel(<, Nat))
    <2>1. T \subseteq Nat /\ T # {}
      OBVIOUS
    <2>. HIDE DEF T
    <2>. QED
      BY <2>1, NatLessThanWellFounded, WFMin
  <1>2. ASSUME NEW i \in T PROVE ~(i < m)
    <2>1. i \in Nat /\ m \in Nat
      OBVIOUS
    <2>2. ~(<<i, m>> \in OpToRel(<, Nat))
      BY <1>1
    <2>. QED
      BY <2>1, <2>2 DEF OpToRel
  <1>3. m \in 0..n /\ m # 0 /\ m \notin S
    BY <1>1
  <1>4. m - 1 \in 0..n /\ m - 1 < m /\ m - 1 < n /\ (m - 1) + 1 = m
    BY <1>3
  <1>5. m - 1 \in S
    BY <1>2, <1>4
  <1>. QED
    BY <1>3, <1>4, <1>5

\* What has been joined of s, up to each of its first n positions.
Joins(s, n, g) == g[0] = <<>> /\ \A i \in 1..n : g[i] = g[i - 1] \o s[i]

Lists(s, n, S) == \A i \in 1..n : s[i] \in Seq(S)

\* Joining typed sequences.
LEMMA Concatenated ==
  ASSUME NEW S, NEW a \in Seq(S), NEW b \in Seq(S)
  PROVE  a \o b \in Seq(S) /\ <<>> \o a = a /\ a \o <<>> = a /\ <<>> \in Seq(S)
  OBVIOUS

\* What two joined sequences contain.
LEMMA ElementsOfBoth ==
  ASSUME NEW S, NEW a \in Seq(S), NEW b \in Seq(S), NEW x
  PROVE  x \in ToSet(a \o b) <=> x \in ToSet(a) \/ x \in ToSet(b)
  <1>. DEFINE both == a \o b
  <1>1. /\ Len(a) \in Nat /\ Len(b) \in Nat /\ DOMAIN both = 1..Len(a) + Len(b)
        /\ DOMAIN a = 1..Len(a) /\ DOMAIN b = 1..Len(b)
        /\ \A i \in 1..Len(a) : both[i] = a[i]
        /\ \A i \in 1..Len(b) : both[Len(a) + i] = b[i]
    OBVIOUS
  <1>2. \A i \in DOMAIN both : i \in 1..Len(a) \/ \E j \in 1..Len(b) : i = Len(a) + j
    <2>1. ASSUME NEW i \in 1..Len(a) + Len(b), i \notin 1..Len(a)
          PROVE  i - Len(a) \in 1..Len(b) /\ i = Len(a) + (i - Len(a))
      BY <1>1, <2>1
    <2>. QED
      BY <1>1, <2>1
  <1>3. \A i \in 1..Len(a) : i \in DOMAIN both
    BY <1>1
  <1>4. \A j \in 1..Len(b) : Len(a) + j \in DOMAIN both
    BY <1>1
  <1>. HIDE DEF both
  <1>5. x \in ToSet(both) <=> x \in ToSet(a) \/ x \in ToSet(b)
    <2>1. ASSUME x \in ToSet(both) PROVE x \in ToSet(a) \/ x \in ToSet(b)
      <3>1. PICK i \in DOMAIN both : x = both[i]
        BY <2>1 DEF ToSet
      <3>2. CASE i \in 1..Len(a)
        BY <1>1, <3>1, <3>2 DEF ToSet
      <3>3. CASE \E j \in 1..Len(b) : i = Len(a) + j
        BY <1>1, <3>1, <3>3 DEF ToSet
      <3>. QED
        BY <1>2, <3>2, <3>3
    <2>2. ASSUME x \in ToSet(a) PROVE x \in ToSet(both)
      BY <1>1, <1>3, <2>2 DEF ToSet
    <2>3. ASSUME x \in ToSet(b) PROVE x \in ToSet(both)
      BY <1>1, <1>4, <2>3 DEF ToSet
    <2>. QED
      BY <2>1, <2>2, <2>3
  <1>. QED
    BY <1>5 DEF both

\* Sequences can be joined one after the other.
LEMMA JoinsExist ==
  ASSUME NEW S, NEW n \in Nat, NEW s, Lists(s, n, S)
  PROVE  \E g \in [0..n -> Seq(S)] : Joins(s, n, g)
  <1>. DEFINE Good == {m \in 0..n : \E g \in [0..m -> Seq(S)] : Joins(s, m, g)}
  <1>1. 0 \in Good
    <2>. DEFINE g == [i \in 0..0 |-> <<>>]
    <2>1. g \in [0..0 -> Seq(S)] /\ g[0] = <<>>
      OBVIOUS
    <2>2. Joins(s, 0, g)
      BY <2>1 DEF Joins
    <2>. HIDE DEF g
    <2>. QED
      BY <2>1, <2>2
  <1>2. ASSUME NEW m \in Good, m < n PROVE m + 1 \in Good
    <2>1. m \in Nat /\ m + 1 \in 0..n /\ m + 1 \in 1..n
      BY <1>2
    <2>2. PICK g \in [0..m -> Seq(S)] : Joins(s, m, g)
      OBVIOUS
    <2>3. g[m] \o s[m + 1] \in Seq(S)
      <3>1. g[m] \in Seq(S) /\ s[m + 1] \in Seq(S)
        BY <2>1 DEF Lists
      <3>. QED
        BY <3>1, Concatenated
    <2>. DEFINE x == g[m] \o s[m + 1]
                h == [i \in 0..m + 1 |-> IF i <= m THEN g[i] ELSE x]
    <2>4. h \in [0..m + 1 -> Seq(S)]
      <3>1. x \in Seq(S)
        BY <2>3
      <3>. HIDE DEF x
      <3>. QED
        BY <2>1, <3>1
    <2>5. h[0] = <<>>
      BY <2>1, <2>2 DEF Joins
    <2>6. ASSUME NEW i \in 1..m + 1 PROVE h[i] = h[i - 1] \o s[i]
      <3>1. CASE i <= m
        <4>. HIDE DEF h
        <4>0. i \in 1..m
          BY <2>1, <3>1
        <4>1. g[i] = g[i - 1] \o s[i]
          BY <2>2, <4>0, Zenon DEF Joins
        <4>. USE DEF h
        <4>2. h[i] = g[i] /\ h[i - 1] = g[i - 1]
          BY <2>1, <3>1
        <4>. QED
          BY <4>1, <4>2, Zenon
      <3>2. CASE i = m + 1
        <4>1. h[i] = x /\ h[i - 1] = g[m] /\ s[i] = s[m + 1]
          BY <2>1, <3>2
        <4>. QED
          BY <4>1, Zenon
      <3>3. i <= m \/ i = m + 1
        BY <2>1
      <3>. QED
        BY <3>1, <3>2, <3>3, Zenon
    <2>7. Joins(s, m + 1, h)
      <3>. HIDE DEF h
      <3>. QED
        BY <2>5, <2>6, Zenon DEF Joins
    <2>. HIDE DEF h
    <2>. QED
      BY <2>1, <2>4, <2>7, Zenon
  <1>3. Good = 0..n
    <2>1. Good \in SUBSET (0..n)
      OBVIOUS
    <2>. HIDE DEF Good
    <2>. QED
      BY <1>1, <1>2, <2>1, NumbersUpTo
  <1>4. n \in Good
    BY <1>3
  <1>. QED
    BY <1>4

\* The recursion is solved by what has been joined.
Recurs(s, n, f) == f[1] = s[1] /\ \A i \in 2..n : f[i] = f[i - 1] \o s[i]

Joined(s, n, S, g) == Lists(s, n, S) /\ g \in [0..n -> Seq(S)] /\ Joins(s, n, g)

\* There is one way to join them.
LEMMA JoinsUnique ==
  ASSUME NEW S, NEW n \in Nat, n # 0, NEW s, NEW g, Joined(s, n, S, g), NEW f, Recurs(s, n, f)
  PROVE  f[n] = g[n]
  <1>. USE DEF Joined
  <1>. DEFINE Good == {m \in 0..n : m = 0 \/ f[m] = g[m]}
  <1>1. ASSUME NEW m \in Good, m < n PROVE m + 1 \in Good
    <2>1. m + 1 \in 1..n /\ m + 1 \in 0..n /\ m \in 0..n /\ (m + 1) - 1 = m
      BY <1>1
    <2>3. g[m + 1] = g[(m + 1) - 1] \o s[m + 1]
      BY <2>1, Zenon DEF Joins
    <2>4. CASE m = 0
      <3>1. s[m + 1] \in Seq(S)
        BY <2>1 DEF Lists
      <3>2. g[m] = <<>>
        BY <2>4 DEF Joins
      <3>3. g[m + 1] = s[m + 1]
        BY <2>1, <2>3, <3>1, <3>2, Concatenated
      <3>4. f[m + 1] = s[m + 1]
        BY <2>4 DEF Recurs
      <3>. QED
        BY <2>1, <3>3, <3>4
    <2>5. CASE m # 0
      <3>0. m + 1 \in 2..n
        BY <2>1, <2>5
      <3>1. f[m + 1] = f[m] \o s[m + 1]
        BY <2>1, <3>0, Zenon DEF Recurs
      <3>2. f[m] = g[m]
        BY <2>5
      <3>3. f[m + 1] = g[m + 1]
        BY <2>1, <2>3, <3>1, <3>2
      <3>. QED
        BY <2>1, <3>3
    <2>. QED
      BY <2>4, <2>5
  <1>2. Good = 0..n
    <2>1. Good \in SUBSET (0..n) /\ 0 \in Good
      OBVIOUS
    <2>. HIDE DEF Good
    <2>. QED
      BY <1>1, <2>1, NumbersUpTo
  <1>3. n \in Good
    <2>. HIDE DEF Good
    <2>. QED
      BY <1>2
  <1>. QED
    BY <1>3

\* FlattenSeq is such a recursion.
LEMMA FlattenRecurs ==
  ASSUME NEW S, NEW n \in Nat, NEW s, Len(s) = n, n # 0, Lists(s, n, S)
  PROVE  \E f : Recurs(s, n, f) /\ FlattenSeq(s) = f[n]
  <1>. DEFINE Rec(f) == [i \in 1..Len(s) |-> IF i = 1 THEN s[i] ELSE f[i - 1] \o s[i]]
              flat == CHOOSE f : f = Rec(f)
  <1>1. FlattenSeq(s) = flat[n]
    BY DEF FlattenSeq
  <1>2. \E h : h = Rec(h)
    <2>1. PICK g \in [0..n -> Seq(S)] : Joins(s, n, g)
      BY JoinsExist
    <2>. DEFINE h == [i \in 1..n |-> g[i]]
    <2>2. ASSUME NEW i \in 1..n PROVE h[i] = IF i = 1 THEN s[i] ELSE h[i - 1] \o s[i]
      <3>1. g[i] = g[i - 1] \o s[i]
        BY <2>1 DEF Joins
      <3>2. CASE i = 1
        <4>1. g[1 - 1] = <<>>
          BY <2>1 DEF Joins
        <4>2. s[1] \in Seq(S)
          BY <3>2 DEF Lists
        <4>3. g[1] = s[1]
          BY <3>1, <3>2, <4>1, <4>2, Concatenated
        <4>. QED
          BY <3>2, <4>3
      <3>3. CASE i # 1
        <4>1. i - 1 \in 1..n /\ h[i - 1] = g[i - 1] /\ h[i] = g[i]
          BY <3>3
        <4>. QED
          BY <3>1, <3>3, <4>1, Zenon
      <3>. QED
        BY <3>2, <3>3
    <2>3. h = [i \in 1..n |-> IF i = 1 THEN s[i] ELSE h[i - 1] \o s[i]]
      BY <2>2
    <2>. HIDE DEF h
    <2>. QED
      BY <2>3
  <1>3. flat = Rec(flat)
    <2>. HIDE DEF Rec
    <2>. QED
      BY <1>2
  <1>. HIDE DEF flat
  <1>4. flat = [i \in 1..n |-> IF i = 1 THEN s[i] ELSE flat[i - 1] \o s[i]]
    BY <1>3
  <1>5. 1 \in 1..n /\ \A i \in 2..n : i \in 1..n /\ i # 1
    OBVIOUS
  <1>6. Recurs(s, n, flat)
    BY <1>4, <1>5 DEF Recurs
  <1>. HIDE DEF Rec
  <1>. QED
    BY <1>1, <1>6

\* FlattenSeq, without its recursion.
Solves(s, n, S, g) ==
  /\ n \in Nat /\ Len(s) = n /\ (n = 0 => s = <<>>)
  /\ Joined(s, n, S, g)

LEMMA FlattenJoins ==
  ASSUME NEW S, NEW n, NEW s, NEW g, Solves(s, n, S, g)
  PROVE  FlattenSeq(s) = g[n]
  <1>. USE DEF Solves
  <1>1. CASE n = 0
    BY <1>1 DEF FlattenSeq, Joined, Joins
  <1>2. CASE n # 0
    <2>1. PICK f : Recurs(s, n, f) /\ FlattenSeq(s) = f[n]
      BY <1>2, FlattenRecurs DEF Joined
    <2>2. Recurs(s, n, f) /\ Joined(s, n, S, g)
      BY <2>1 DEF Joined
    <2>3. f[n] = g[n]
      BY <1>2, <2>2, JoinsUnique
    <2>. QED
      BY <2>1, <2>3
  <1>. QED
    BY <1>1, <1>2

LEMMA FlattenEmpty == FlattenSeq(<<>>) = <<>>
  BY DEF FlattenSeq

\* FlattenSeq of any sequence of sequences is its last joint.
LEMMA FlattenSolved ==
  ASSUME NEW S, NEW s \in Seq(Seq(S))
  PROVE  \E g \in [0..Len(s) -> Seq(S)] : Joins(s, Len(s), g) /\ FlattenSeq(s) = g[Len(s)]
  <1>. DEFINE n == Len(s)
  <1>1. n \in Nat /\ Lists(s, n, S) /\ (n = 0 => s = <<>>)
    BY DEF Lists
  <1>. HIDE DEF n
  <1>2. PICK g \in [0..n -> Seq(S)] : Joins(s, n, g)
    BY <1>1, JoinsExist
  <1>3. FlattenSeq(s) = g[n]
    <2>1. Len(s) = n
      BY DEF n
    <2>2. Solves(s, n, S, g)
      BY <1>1, <1>2, <2>1 DEF Solves, Joined
    <2>. QED
      BY <2>2, FlattenJoins
  <1>. QED
    BY <1>2, <1>3 DEF n

\* FlattenSeq keeps the type of the elements.
LEMMA FlattenTyped ==
  ASSUME NEW S, NEW s \in Seq(Seq(S))
  PROVE  FlattenSeq(s) \in Seq(S)
  <1>1. Len(s) \in 0..Len(s)
    OBVIOUS
  <1>. QED
    BY <1>1, FlattenSolved

Associates(a, b, c) == a \o (b \o c) = (a \o b) \o c

LEMMA JoinAssociates ==
  ASSUME NEW S, NEW a \in Seq(S), NEW b \in Seq(S), NEW c \in Seq(S)
  PROVE  Associates(a, b, c)
  BY DEF Associates

\* FlattenSeq of two joined sequences joins their results.
LEMMA FlattenBoth ==
  ASSUME NEW S, NEW s \in Seq(Seq(S)), NEW t \in Seq(Seq(S))
  PROVE  FlattenSeq(s \o t) = FlattenSeq(s) \o FlattenSeq(t)
  <1>. DEFINE m == Len(s)
              n == Len(t)
              both == s \o t
  <1>1. /\ m \in Nat /\ n \in Nat /\ Len(both) = m + n /\ both \in Seq(Seq(S))
        /\ \A i \in 1..m : both[i] = s[i]
        /\ \A i \in 1..m + n : i > m => both[i] = t[i - m]
    OBVIOUS
  <1>2. PICK g \in [0..m -> Seq(S)] : Joins(s, m, g) /\ FlattenSeq(s) = g[m]
    BY FlattenSolved
  <1>3. PICK h \in [0..n -> Seq(S)] : Joins(t, n, h) /\ FlattenSeq(t) = h[n]
    BY FlattenSolved
  <1>4. \A i \in 1..m + n : both[i] \in Seq(S)
    BY <1>1
  <1>5. \A i \in 1..n : t[i] \in Seq(S)
    OBVIOUS
  <1>. HIDE DEF m, n, both
  <1>. DEFINE k == [i \in 0..m + n |-> IF i <= m THEN g[i] ELSE g[m] \o h[i - m]]
  <1>6. g[m] \in Seq(S) /\ \A i \in 0..n : g[m] \o h[i] \in Seq(S)
    BY <1>1, Concatenated
  <1>7. k \in [0..m + n -> Seq(S)]
    <2>1. ASSUME NEW i \in 0..m + n PROVE k[i] \in Seq(S)
      <3>1. CASE i <= m
        BY <1>1, <3>1
      <3>2. CASE i > m
        <4>1. i - m \in 0..n /\ ~(i <= m)
          BY <1>1, <3>2
        <4>2. k[i] = g[m] \o h[i - m]
          BY <4>1, Zenon
        <4>. QED
          BY <1>6, <4>1, <4>2, Zenon
      <3>. QED
        BY <1>1, <3>1, <3>2
    <2>. QED
      BY <2>1
  <1>8. k[0] = <<>>
    <2>1. 0 \in 0..m + n /\ 0 <= m
      BY <1>1
    <2>2. k[0] = g[0]
      BY <2>1, Zenon
    <2>. QED
      BY <1>2, <2>2, Zenon DEF Joins
  <1>9. ASSUME NEW i \in 1..m + n PROVE k[i] = k[i - 1] \o both[i]
    <2>1. CASE i <= m
      <3>1. i \in 1..m /\ i \in 0..m + n /\ i - 1 \in 0..m + n /\ i - 1 <= m
        BY <1>1, <2>1
      <3>2. k[i] = g[i] /\ k[i - 1] = g[i - 1]
        BY <2>1, <3>1, Zenon
      <3>3. g[i] = g[i - 1] \o s[i] /\ both[i] = s[i]
        BY <1>1, <1>2, <3>1, Zenon DEF Joins
      <3>. QED
        BY <3>2, <3>3, Zenon
    <2>2. CASE i > m
      <3>1. /\ i - m \in 1..n /\ i - m \in 0..n /\ (i - m) - 1 \in 0..n /\ i \in 0..m + n
            /\ i - 1 \in 0..m + n /\ ~(i <= m)
        BY <1>1, <2>2
      <3>2. k[i] = g[m] \o h[i - m]
        BY <3>1, Zenon
      <3>3. h[i - m] = h[(i - m) - 1] \o t[i - m]
        BY <1>3, <3>1, Zenon DEF Joins
      <3>4. k[i - 1] = g[m] \o h[(i - m) - 1]
        <4>1. CASE i - 1 <= m
          <5>1. i - 1 = m /\ (i - m) - 1 = 0
            BY <1>1, <2>2, <4>1
          <5>2. k[i - 1] = g[m]
            BY <3>1, <4>1, <5>1, Zenon
          <5>3. h[(i - m) - 1] = <<>>
            BY <1>3, <5>1, Zenon DEF Joins
          <5>. QED
            BY <1>6, <5>2, <5>3, Concatenated
        <4>2. CASE ~(i - 1 <= m)
          <5>1. (i - 1) - m = (i - m) - 1
            BY <1>1, <3>1
          <5>2. k[i - 1] = g[m] \o h[(i - 1) - m]
            BY <3>1, <4>2, Zenon
          <5>. QED
            BY <5>1, <5>2, Zenon
        <4>. QED
          BY <4>1, <4>2
      <3>5. g[m] \o (h[(i - m) - 1] \o t[i - m]) = (g[m] \o h[(i - m) - 1]) \o t[i - m]
        <4>1. h[(i - m) - 1] \in Seq(S)
          BY <3>1
        <4>2. t[i - m] \in Seq(S)
          BY <1>5, <3>1, Zenon
        <4>. DEFINE a == g[m]
                    b == h[(i - m) - 1]
                    c == t[i - m]
        <4>3. a \in Seq(S) /\ b \in Seq(S) /\ c \in Seq(S)
          BY <1>6, <4>1, <4>2
        <4>. HIDE DEF a, b, c
        <4>4. Associates(a, b, c)
          BY <4>3, JoinAssociates
        <4>. QED
          BY <4>4, Zenon DEF a, b, c, Associates
      <3>6. both[i] = t[i - m]
        BY <1>1, <2>2
      <3>. QED
        BY <3>2, <3>3, <3>4, <3>5, <3>6, Zenon
    <2>3. i <= m \/ i > m
      BY <1>1
    <2>. QED
      BY <2>1, <2>2, <2>3, Zenon
  <1>. HIDE DEF k
  <1>10. Joins(both, m + n, k)
    BY <1>8, <1>9, Zenon DEF Joins
  <1>11. FlattenSeq(both) = k[m + n]
    <2>1. m + n \in Nat /\ (m + n = 0 => both = <<>>) /\ Lists(both, m + n, S) /\ Len(both) = m + n
      BY <1>1, <1>4 DEF Lists
    <2>2. Solves(both, m + n, S, k)
      BY <1>7, <1>10, <2>1, Zenon DEF Solves, Joined
    <2>. QED
      BY <2>2, FlattenJoins
  <1>12. k[m + n] = g[m] \o h[n]
    <2>1. CASE n = 0
      <3>1. k[m + n] = g[m] /\ h[n] = <<>>
        BY <1>1, <1>3, <2>1 DEF k, Joins
      <3>. QED
        BY <1>6, <3>1, Concatenated
    <2>2. CASE n # 0
      <3>1. m + n \in 0..m + n /\ ~(m + n <= m) /\ (m + n) - m = n
        BY <1>1, <2>2
      <3>. QED
        BY <3>1, Zenon DEF k
    <2>. QED
      BY <2>1, <2>2
  <1>. QED
    BY <1>2, <1>3, <1>11, <1>12 DEF both

\* FlattenSeq drops nothing and adds nothing.
LEMMA FlattenElements ==
  ASSUME NEW S, NEW s \in Seq(Seq(S)), NEW x
  PROVE  x \in ToSet(FlattenSeq(s)) <=> \E i \in DOMAIN s : x \in ToSet(s[i])
  <1>. DEFINE n == Len(s)
  <1>1. PICK g \in [0..n -> Seq(S)] : Joins(s, n, g) /\ FlattenSeq(s) = g[n]
    BY FlattenSolved
  <1>2. n \in Nat /\ DOMAIN s = 1..n /\ \A i \in 1..n : s[i] \in Seq(S)
    OBVIOUS
  <1>. HIDE DEF n
  <1>. DEFINE Good == {m \in 0..n : x \in ToSet(g[m]) <=> \E i \in 1..m : x \in ToSet(s[i])}
  <1>3. 0 \in Good
    <2>1. ToSet(g[0]) = {} /\ 0 \in 0..n
      BY <1>1, <1>2 DEF Joins, ToSet
    <2>. QED
      BY <2>1
  <1>4. ASSUME NEW m \in Good, m < n PROVE m + 1 \in Good
    <2>1. m + 1 \in 1..n /\ m + 1 \in 0..n /\ m \in 0..n /\ (m + 1) - 1 = m
      BY <1>2, <1>4
    <2>2. g[m + 1] = g[m] \o s[m + 1]
      BY <1>1, <2>1 DEF Joins
    <2>3. g[m] \in Seq(S) /\ s[m + 1] \in Seq(S)
      BY <1>2, <2>1
    <2>4. x \in ToSet(g[m + 1]) <=> x \in ToSet(g[m]) \/ x \in ToSet(s[m + 1])
      BY <2>2, <2>3, ElementsOfBoth
    <2>5. 1..m + 1 = 1..m \cup {m + 1}
      BY <2>1
    <2>. QED
      BY <2>1, <2>4, <2>5
  <1>5. Good = 0..n
    <2>1. Good \in SUBSET (0..n)
      OBVIOUS
    <2>. HIDE DEF Good
    <2>. QED
      BY <1>2, <1>3, <1>4, <2>1, NumbersUpTo
  <1>6. n \in Good
    <2>. HIDE DEF Good
    <2>. QED
      BY <1>2, <1>5
  <1>. QED
    BY <1>1, <1>2, <1>6

-----------------------------------------------------------------------------
(* What is asked of a token *)

LEMMA ElementsOf ==
  ASSUME NEW S, NEW s \in Seq(S)
  PROVE  /\ DOMAIN s = 1..Len(s) /\ Len(s) \in Nat
         /\ \A i \in 1..Len(s) : s[i] \in S
  OBVIOUS

LEMMA ListDomain ==
  ASSUME NEW s, IsList(s)
  PROVE  /\ DOMAIN s = 1..Len(s) /\ Len(s) \in Nat
         /\ \A i \in 1..Len(s) : s[i] \in ToSet(s)
  BY ElementsOf DEF IsList

LEMMA IsSequence ==
  ASSUME NEW S, NEW n \in Nat, NEW s, DOMAIN s = 1..n, s = [i \in 1..n |-> s[i]],
         \A i \in 1..n : s[i] \in S
  PROVE  s \in Seq(S)
  OBVIOUS

ReadableToken(t) ==
  /\ t.standard \in Standard
  /\ IsList(t.entry.holders) /\ IsList(t.entry.storages) /\ IsList(t.entry.rules)

PerHolder(standard) == IF standard = "erc20" THEN {"balanceOf", "nonces"} ELSE {"balanceOf"}

\* A holder's balance, and nonce if the standard has one.
LEMMA BalanceSpecsTyped ==
  ASSUME NEW standard, NEW holder, NEW S, \A name \in PerHolder(standard) : Field(name, holder) \in S
  PROVE  /\ BalanceSpecs(holder, standard) \in Seq(S)
         /\ \A name \in PerHolder(standard) :
              Field(name, holder) \in ToSet(BalanceSpecs(holder, standard))
  <1>1. CASE standard = "erc20"
    <2>. DEFINE two == <<Field("balanceOf", holder), Field("nonces", holder)>>
    <2>1. /\ two \in Seq(S) /\ DOMAIN two = 1..2
          /\ two[1] = Field("balanceOf", holder) /\ two[2] = Field("nonces", holder)
      BY <1>1 DEF PerHolder
    <2>2. BalanceSpecs(holder, standard) = two /\ PerHolder(standard) = {"balanceOf", "nonces"}
      BY <1>1 DEF BalanceSpecs, PerHolder
    <2>3. 1 \in 1..2 /\ 2 \in 1..2
      OBVIOUS
    <2>. HIDE DEF two
    <2>. QED
      BY <2>1, <2>2, <2>3 DEF ToSet
  <1>2. CASE standard # "erc20"
    <2>. DEFINE one == <<Field("balanceOf", holder)>>
    <2>1. /\ one \in Seq(S) /\ DOMAIN one = 1..1 /\ one[1] = Field("balanceOf", holder)
      BY <1>2 DEF PerHolder
    <2>2. BalanceSpecs(holder, standard) = one /\ PerHolder(standard) = {"balanceOf"}
      BY <1>2 DEF BalanceSpecs, PerHolder
    <2>3. 1 \in 1..1
      OBVIOUS
    <2>. HIDE DEF one
    <2>. QED
      BY <2>1, <2>2, <2>3 DEF ToSet
  <1>. QED
    BY <1>1, <1>2

\* Every well-formed holder is asked about, whatever malformed ones come before.
LEMMA AddrSpecsTyped ==
  ASSUME NEW standard, NEW holders, IsList(holders), NEW S,
         \A name \in PerHolder(standard), holder \in ToSet(holders) \ {Malformed} :
           Field(name, holder) \in S
  PROVE  /\ BuildAddrSpecs(holders, standard) \in Seq(S)
         /\ \A name \in PerHolder(standard), holder \in ToSet(holders) \ {Malformed} :
              Field(name, holder) \in ToSet(BuildAddrSpecs(holders, standard))
  <1>. DEFINE parts == [i \in DOMAIN holders |->
                          IF holders[i] = Malformed THEN <<>> ELSE BalanceSpecs(holders[i], standard)]
  <1>1. DOMAIN holders = 1..Len(holders) /\ Len(holders) \in Nat
    BY ListDomain
  <1>2. ASSUME NEW i \in DOMAIN holders PROVE parts[i] \in Seq(S)
    <2>1. CASE holders[i] = Malformed
      <3>1. parts[i] = <<>> /\ <<>> \in Seq(S)
        BY <2>1
      <3>. QED
        BY <3>1
    <2>2. CASE holders[i] # Malformed
      <3>1. holders[i] \in ToSet(holders) \ {Malformed}
        BY <2>2 DEF ToSet
      <3>2. parts[i] = BalanceSpecs(holders[i], standard)
        BY <2>2
      <3>3. BalanceSpecs(holders[i], standard) \in Seq(S)
        BY <3>1, BalanceSpecsTyped
      <3>. QED
        BY <3>2, <3>3
    <2>. QED
      BY <2>1, <2>2
  <1>3. parts \in Seq(Seq(S))
    BY <1>1, <1>2, IsSequence
  <1>4. FlattenSeq(parts) = BuildAddrSpecs(holders, standard)
    BY DEF BuildAddrSpecs
  <1>5. ASSUME NEW name \in PerHolder(standard), NEW holder \in ToSet(holders) \ {Malformed}
        PROVE  Field(name, holder) \in ToSet(FlattenSeq(parts))
    <2>1. PICK i \in DOMAIN holders : holders[i] = holder
      BY DEF ToSet
    <2>2. parts[i] = BalanceSpecs(holder, standard) /\ i \in DOMAIN parts
      BY <2>1
    <2>3. Field(name, holder) \in ToSet(parts[i])
      BY <2>2, BalanceSpecsTyped
    <2>. HIDE DEF parts
    <2>. QED
      BY <1>3, <2>2, <2>3, FlattenElements
  <1>6. FlattenSeq(parts) \in Seq(S)
    <2>. HIDE DEF parts
    <2>. QED
      BY <1>3, FlattenTyped
  <1>. HIDE DEF parts
  <1>. QED
    BY <1>4, <1>5, <1>6

\* Every function of a list is asked for.
LEMMA FunctionsTyped ==
  ASSUME NEW names, IsList(names), NEW S, \A name \in ToSet(names) : Field(name, NoArg) \in S
  PROVE  /\ Functions(names) \in Seq(S)
         /\ \A name \in ToSet(names) : Field(name, NoArg) \in ToSet(Functions(names))
  <1>1. DOMAIN names = 1..Len(names) /\ Len(names) \in Nat
    BY ListDomain
  <1>2. /\ DOMAIN Functions(names) = DOMAIN names
        /\ \A i \in DOMAIN names : Functions(names)[i] = Field(names[i], NoArg)
        /\ Functions(names) = [i \in DOMAIN names |-> Functions(names)[i]]
    BY DEF Functions
  <1>3. Functions(names) \in Seq(S)
    <2>1. \A i \in 1..Len(names) : Functions(names)[i] \in S
      BY <1>1, <1>2 DEF ToSet
    <2>. QED
      BY <1>1, <1>2, <2>1, IsSequence
  <1>4. ASSUME NEW name \in ToSet(names) PROVE Field(name, NoArg) \in ToSet(Functions(names))
    BY <1>2 DEF ToSet
  <1>. QED
    BY <1>3, <1>4

GeneralOf(standard) == IF standard = "erc20" THEN Erc20General ELSE Erc721General

PlainOf(t) ==
  LET rules == ToSet(t.entry.rules)
  IN  (IF "general" \in rules THEN ToSet(GeneralOf(t.standard)) ELSE {})
        \cup (IF "roles" \in rules /\ t.standard = "erc20" THEN ToSet(Erc20Roles) ELSE {})
        \cup (IF "codehash" \in rules THEN {"code_hash"} ELSE {})
        \cup (IF "storagehash" \in rules THEN {"storage_hash"} ELSE {})

\* A field is asked for by a plain rule, for a holder, or as a slot.
LEMMA AskedFields ==
  ASSUME NEW t, NEW x
  PROVE  x \in AskedOf(t) <=>
           \/ \E name \in PlainOf(t) : x = Field(name, NoArg)
           \/ /\ "balance" \in ToSet(t.entry.rules)
              /\ \E name \in PerHolder(t.standard), holder \in ToSet(t.entry.holders) \ {Malformed} :
                   x = Field(name, holder)
           \/ \E slot \in ToSet(t.entry.storages) : x = Field("storage", slot)
  <1>1. AskedOf(t) =
          {Field(name, NoArg) : name \in PlainOf(t)}
            \cup (IF "balance" \in ToSet(t.entry.rules)
                  THEN {Field(name, holder) : name \in PerHolder(t.standard),
                                              holder \in ToSet(t.entry.holders) \ {Malformed}}
                  ELSE {})
            \cup {Field("storage", slot) : slot \in ToSet(t.entry.storages)}
    BY DEF AskedOf, PlainOf, PerHolder, GeneralOf
  <1>. QED
    BY <1>1

\* A rule asks for what it is documented to.
LEMMA SpecsOfRuleTyped ==
  ASSUME NEW t, ReadableToken(t), NEW rule \in ToSet(t.entry.rules)
  PROVE  /\ SpecsOfRule(rule, t.entry, t.standard) \in Seq(AskedOf(t))
         /\ rule = "general" => \A name \in ToSet(GeneralOf(t.standard)) :
              Field(name, NoArg) \in ToSet(SpecsOfRule(rule, t.entry, t.standard))
         /\ rule = "roles" /\ t.standard = "erc20" => \A name \in ToSet(Erc20Roles) :
              Field(name, NoArg) \in ToSet(SpecsOfRule(rule, t.entry, t.standard))
         /\ rule = "balance" =>
              \A name \in PerHolder(t.standard), holder \in ToSet(t.entry.holders) \ {Malformed} :
                Field(name, holder) \in ToSet(SpecsOfRule(rule, t.entry, t.standard))
  <1>. DEFINE specs == SpecsOfRule(rule, t.entry, t.standard)
  <1>1. CASE rule = "general"
    <2>1. specs = Functions(GeneralOf(t.standard))
      BY <1>1 DEF SpecsOfRule, GeneralOf
    <2>2. IsList(GeneralOf(t.standard))
      BY TokenReconAssumption DEF GeneralOf
    <2>3. \A name \in ToSet(GeneralOf(t.standard)) : Field(name, NoArg) \in AskedOf(t)
      BY <1>1, AskedFields DEF PlainOf
    <2>. HIDE DEF specs
    <2>4. /\ specs \in Seq(AskedOf(t))
          /\ \A name \in ToSet(GeneralOf(t.standard)) : Field(name, NoArg) \in ToSet(specs)
      BY <2>1, <2>2, <2>3, FunctionsTyped
    <2>. QED
      BY <1>1, <2>4 DEF specs
  <1>2. CASE rule = "roles" /\ t.standard = "erc20"
    <2>1. specs = Functions(Erc20Roles)
      BY <1>2 DEF SpecsOfRule
    <2>2. IsList(Erc20Roles)
      BY TokenReconAssumption
    <2>3. \A name \in ToSet(Erc20Roles) : Field(name, NoArg) \in AskedOf(t)
      BY <1>2, AskedFields DEF PlainOf
    <2>. HIDE DEF specs
    <2>4. /\ specs \in Seq(AskedOf(t))
          /\ \A name \in ToSet(Erc20Roles) : Field(name, NoArg) \in ToSet(specs)
      BY <2>1, <2>2, <2>3, FunctionsTyped
    <2>. QED
      BY <1>2, <2>4 DEF specs
  <1>3. CASE rule = "balance"
    <2>1. specs = BuildAddrSpecs(t.entry.holders, t.standard)
      BY <1>3 DEF SpecsOfRule
    <2>2. \A name \in PerHolder(t.standard), holder \in ToSet(t.entry.holders) \ {Malformed} :
            Field(name, holder) \in AskedOf(t)
      BY <1>3, AskedFields
    <2>3. IsList(t.entry.holders)
      BY DEF ReadableToken
    <2>. HIDE DEF specs
    <2>4. /\ specs \in Seq(AskedOf(t))
          /\ \A name \in PerHolder(t.standard), holder \in ToSet(t.entry.holders) \ {Malformed} :
               Field(name, holder) \in ToSet(specs)
      BY <2>1, <2>2, <2>3, AddrSpecsTyped
    <2>. QED
      BY <1>3, <2>4 DEF specs
  <1>4. CASE rule # "general" /\ rule # "balance" /\ ~(rule = "roles" /\ t.standard = "erc20")
    <2>1. specs = <<>>
      BY <1>4 DEF SpecsOfRule
    <2>2. <<>> \in Seq(AskedOf(t))
      OBVIOUS
    <2>. QED
      BY <1>4, <2>1, <2>2
  <1>. QED
    BY <1>1, <1>2, <1>3, <1>4

\* The calls are those of all the rules, repeated or not.
LEMMA BuildSpecsTyped ==
  ASSUME NEW t, ReadableToken(t)
  PROVE  /\ BuildSpecs(t) \in Seq(AskedOf(t))
         /\ \A rule \in ToSet(t.entry.rules) :
              ToSet(SpecsOfRule(rule, t.entry, t.standard)) \subseteq ToSet(BuildSpecs(t))
  <1>. DEFINE rules == t.entry.rules
              parts == [i \in DOMAIN rules |-> SpecsOfRule(rules[i], t.entry, t.standard)]
  <1>1. DOMAIN rules = 1..Len(rules) /\ Len(rules) \in Nat
    BY ListDomain DEF ReadableToken
  <1>2. BuildSpecs(t) = FlattenSeq(parts)
    BY DEF BuildSpecs
  <1>3. parts \in Seq(Seq(AskedOf(t)))
    <2>1. \A i \in DOMAIN rules : parts[i] \in Seq(AskedOf(t))
      BY SpecsOfRuleTyped DEF ToSet
    <2>. QED
      BY <1>1, <2>1, IsSequence
  <1>4. ASSUME NEW rule \in ToSet(rules), NEW x \in ToSet(SpecsOfRule(rule, t.entry, t.standard))
        PROVE  x \in ToSet(FlattenSeq(parts))
    <2>1. PICK i \in DOMAIN rules : rules[i] = rule
      BY DEF ToSet
    <2>2. i \in DOMAIN parts /\ x \in ToSet(parts[i])
      BY <2>1
    <2>. HIDE DEF parts
    <2>. QED
      BY <1>3, <2>2, FlattenElements
  <1>5. FlattenSeq(parts) \in Seq(AskedOf(t))
    <2>. HIDE DEF parts
    <2>. QED
      BY <1>3, FlattenTyped
  <1>. HIDE DEF parts
  <1>. QED
    BY <1>2, <1>4, <1>5 DEF rules

\* One request for each field.
LEMMA SinglesTyped ==
  ASSUME NEW S, NEW fields \in Seq(S), NEW single,
         single = [i \in DOMAIN fields |-> <<fields[i]>>]
  PROVE  /\ single \in Seq(Seq(S) \ {<<>>})
         /\ \A x \in ToSet(fields) : x \in ToSet(FlattenSeq(single))
  <1>1. DOMAIN fields = 1..Len(fields) /\ Len(fields) \in Nat
    OBVIOUS
  <1>2. /\ DOMAIN single = DOMAIN fields /\ single = [i \in DOMAIN fields |-> single[i]]
        /\ \A i \in DOMAIN fields : single[i] = <<fields[i]>>
    OBVIOUS
  <1>3. \A i \in DOMAIN fields : single[i] \in Seq(S) \ {<<>>}
    BY <1>1, <1>2
  <1>4. single \in Seq(Seq(S) \ {<<>>}) /\ single \in Seq(Seq(S))
    BY <1>1, <1>2, <1>3, IsSequence
  <1>5. ASSUME NEW x \in ToSet(fields) PROVE x \in ToSet(FlattenSeq(single))
    <2>1. PICK i \in DOMAIN fields : fields[i] = x
      BY DEF ToSet
    <2>2. x \in ToSet(<<x>>)
      <3>1. DOMAIN <<x>> = 1..1 /\ <<x>>[1] = x /\ 1 \in 1..1
        OBVIOUS
      <3>. QED
        BY <3>1 DEF ToSet
    <2>3. i \in DOMAIN single /\ x \in ToSet(single[i])
      BY <1>2, <2>1, <2>2
    <2>. QED
      BY <1>4, <2>3, FlattenElements
  <1>. QED
    BY <1>4, <1>5

\* The hashes that the rules ask for.
LEMMA ProofFieldsTyped ==
  ASSUME NEW t
  PROVE  /\ ProofFields(t.entry.rules) \in Seq(AskedOf(t))
         /\ HasRule(t.entry.rules, "codehash") =>
              Field("code_hash", NoArg) \in ToSet(ProofFields(t.entry.rules))
         /\ HasRule(t.entry.rules, "storagehash") =>
              Field("storage_hash", NoArg) \in ToSet(ProofFields(t.entry.rules))
  <1>. DEFINE rules == t.entry.rules
              code == IF HasRule(rules, "codehash") THEN <<Field("code_hash", NoArg)>> ELSE <<>>
              storage == IF HasRule(rules, "storagehash") THEN <<Field("storage_hash", NoArg)>>
                         ELSE <<>>
  <1>1. \A x : x \in ToSet(<<x>>)
    <2>1. \A x : DOMAIN <<x>> = 1..1 /\ <<x>>[1] = x /\ 1 \in 1..1
      OBVIOUS
    <2>. QED
      BY <2>1 DEF ToSet
  <1>2. /\ code \in Seq(AskedOf(t))
        /\ HasRule(rules, "codehash") => Field("code_hash", NoArg) \in ToSet(code)
    <2>1. CASE HasRule(rules, "codehash")
      <3>1. Field("code_hash", NoArg) \in AskedOf(t)
        BY <2>1, AskedFields DEF HasRule, PlainOf
      <3>2. code = <<Field("code_hash", NoArg)>>
        BY <2>1
      <3>. HIDE DEF code
      <3>. QED
        BY <1>1, <3>1, <3>2
    <2>2. CASE ~HasRule(rules, "codehash")
      BY <2>2
    <2>. QED
      BY <2>1, <2>2
  <1>3. /\ storage \in Seq(AskedOf(t))
        /\ HasRule(rules, "storagehash") => Field("storage_hash", NoArg) \in ToSet(storage)
    <2>1. CASE HasRule(rules, "storagehash")
      <3>1. Field("storage_hash", NoArg) \in AskedOf(t)
        BY <2>1, AskedFields DEF HasRule, PlainOf
      <3>2. storage = <<Field("storage_hash", NoArg)>>
        BY <2>1
      <3>. HIDE DEF storage
      <3>. QED
        BY <1>1, <3>1, <3>2
    <2>2. CASE ~HasRule(rules, "storagehash")
      BY <2>2
    <2>. QED
      BY <2>1, <2>2
  <1>4. ProofFields(rules) = code \o storage
    BY DEF ProofFields
  <1>. HIDE DEF code, storage
  <1>5. ProofFields(rules) \in Seq(AskedOf(t))
    BY <1>2, <1>3, <1>4
  <1>6. \A x : x \in ToSet(ProofFields(rules)) <=> x \in ToSet(code) \/ x \in ToSet(storage)
    BY <1>2, <1>3, <1>4, ElementsOfBoth
  <1>. QED
    BY <1>2, <1>3, <1>5, <1>6 DEF rules

\* The fields a phase asks for, in order.
AskedIn(t, p) == FlattenSeq(Requests(t, p))

\* The requests of a phase ask for nothing but what the rules ask for.
LEMMA RequestsTyped ==
  ASSUME NEW t, ReadableToken(t), NEW p \in Phases
  PROVE  /\ Requests(t, p) \in Seq(Seq(AskedOf(t)) \ {<<>>})
         /\ Requests(t, p) \in Seq(Seq(AskedOf(t)))
         /\ AskedIn(t, p) \in Seq(AskedOf(t))
         /\ p = "calls" => \A x \in ToSet(BuildSpecs(t)) : x \in ToSet(AskedIn(t, p))
         /\ p = "storage" => \A slot \in ToSet(t.entry.storages) :
              Field("storage", slot) \in ToSet(AskedIn(t, p))
         /\ p = "proof" => \A x \in ToSet(ProofFields(t.entry.rules)) : x \in ToSet(AskedIn(t, p))
  <1>. DEFINE A == AskedOf(t)
              asked == Requests(t, p)
  <1>1. CASE p = "calls"
    <2>. DEFINE fields == BuildSpecs(t)
    <2>1. asked = [i \in DOMAIN fields |-> <<fields[i]>>] /\ fields \in Seq(A)
      BY <1>1, BuildSpecsTyped DEF Requests
    <2>. HIDE DEF fields, asked, A
    <2>2. asked \in Seq(Seq(A) \ {<<>>}) /\ \A x \in ToSet(fields) : x \in ToSet(FlattenSeq(asked))
      BY <2>1, SinglesTyped
    <2>3. asked \in Seq(Seq(A))
      BY <2>2
    <2>4. FlattenSeq(asked) \in Seq(A)
      BY <2>3, FlattenTyped
    <2>. QED
      BY <1>1, <2>2, <2>3, <2>4 DEF fields, asked, A, AskedIn
  <1>2. CASE p = "storage"
    <2>. DEFINE slots == t.entry.storages
                fields == [i \in DOMAIN slots |-> Field("storage", slots[i])]
    <2>1. DOMAIN slots = 1..Len(slots) /\ Len(slots) \in Nat
      BY ListDomain DEF ReadableToken
    <2>2. fields \in Seq(A)
      <3>1. \A i \in DOMAIN slots : Field("storage", slots[i]) \in A
        BY AskedFields DEF ToSet
      <3>. HIDE DEF A, slots
      <3>. QED
        BY <2>1, <3>1
    <2>3. asked = [i \in DOMAIN fields |-> <<fields[i]>>]
      BY <1>2 DEF Requests
    <2>4. \A slot \in ToSet(slots) : Field("storage", slot) \in ToSet(fields)
      BY DEF ToSet
    <2>. HIDE DEF fields, asked, A
    <2>5. asked \in Seq(Seq(A) \ {<<>>}) /\ \A x \in ToSet(fields) : x \in ToSet(FlattenSeq(asked))
      BY <2>2, <2>3, SinglesTyped
    <2>6. asked \in Seq(Seq(A))
      BY <2>5
    <2>7. FlattenSeq(asked) \in Seq(A)
      BY <2>6, FlattenTyped
    <2>. QED
      BY <1>2, <2>4, <2>5, <2>6, <2>7 DEF asked, A, AskedIn
  <1>3. CASE p = "proof"
    <2>. DEFINE proof == ProofFields(t.entry.rules)
    <2>1. proof \in Seq(A)
      BY ProofFieldsTyped
    <2>2. asked = IF proof = <<>> THEN <<>> ELSE <<proof>>
      BY <1>3 DEF Requests
    <2>. HIDE DEF proof, asked, A
    <2>3. asked \in Seq(Seq(A) \ {<<>>}) /\ asked \in Seq(Seq(A))
      <3>1. CASE proof = <<>>
        BY <2>2, <3>1
      <3>2. CASE proof # <<>>
        <4>1. asked = <<proof>> /\ proof \in Seq(A) \ {<<>>}
          BY <2>1, <2>2, <3>2
        <4>. QED
          BY <4>1
      <3>. QED
        BY <3>1, <3>2
    <2>4. ASSUME NEW x \in ToSet(proof) PROVE x \in ToSet(FlattenSeq(asked))
      <3>1. proof # <<>>
        BY DEF ToSet
      <3>2. 1 \in DOMAIN asked /\ asked[1] = proof
        BY <2>2, <3>1
      <3>. QED
        BY <2>3, <3>2, FlattenElements
    <2>5. FlattenSeq(asked) \in Seq(A)
      BY <2>3, FlattenTyped
    <2>. QED
      BY <1>3, <2>3, <2>4, <2>5 DEF proof, asked, A, AskedIn
  <1>. QED
    BY <1>1, <1>2, <1>3 DEF Phases

\* No field is left out of all three phases.
LEMMA RequestsCover ==
  ASSUME NEW t, ReadableToken(t), NEW x \in AskedOf(t)
  PROVE  \E p \in Phases : x \in ToSet(AskedIn(t, p))
  <1>. DEFINE rules == ToSet(t.entry.rules)
  <1>1. "calls" \in Phases /\ "storage" \in Phases /\ "proof" \in Phases
    BY DEF Phases
  <1>2. ASSUME NEW rule \in rules, x \in ToSet(SpecsOfRule(rule, t.entry, t.standard))
        PROVE  x \in ToSet(AskedIn(t, "calls"))
    BY <1>1, <1>2, BuildSpecsTyped, RequestsTyped
  <1>3. CASE \E name \in PlainOf(t) : x = Field(name, NoArg)
    <2>1. PICK name \in PlainOf(t) : x = Field(name, NoArg)
      BY <1>3
    <2>2. CASE "general" \in rules /\ name \in ToSet(GeneralOf(t.standard))
      BY <1>1, <1>2, <2>1, <2>2, SpecsOfRuleTyped
    <2>3. CASE "roles" \in rules /\ t.standard = "erc20" /\ name \in ToSet(Erc20Roles)
      BY <1>1, <1>2, <2>1, <2>3, SpecsOfRuleTyped
    <2>4. CASE "codehash" \in rules /\ name = "code_hash"
      BY <1>1, <2>1, <2>4, ProofFieldsTyped, RequestsTyped DEF HasRule
    <2>5. CASE "storagehash" \in rules /\ name = "storage_hash"
      BY <1>1, <2>1, <2>5, ProofFieldsTyped, RequestsTyped DEF HasRule
    <2>. QED
      BY <2>2, <2>3, <2>4, <2>5 DEF PlainOf
  <1>4. CASE /\ "balance" \in rules
             /\ \E name \in PerHolder(t.standard), holder \in ToSet(t.entry.holders) \ {Malformed} :
                  x = Field(name, holder)
    BY <1>1, <1>2, <1>4, SpecsOfRuleTyped
  <1>5. CASE \E slot \in ToSet(t.entry.storages) : x = Field("storage", slot)
    BY <1>1, <1>5, RequestsTyped
  <1>. QED
    BY <1>3, <1>4, <1>5, AskedFields

-----------------------------------------------------------------------------
(* The tokens of a configuration *)

EntriesIn(f) == UNION {ToSet(f[i].entries) : i \in DOMAIN f}

Parts(f, canonical) ==
  [i \in DOMAIN f |->
     IF CanonicalSectionName(f[i].name) = canonical THEN f[i].entries ELSE <<>>]

\* The sections of a canonical name, the others being empty, have entries of the
\* file; one after the other they are the entries that are read.
LEMMA PartsTyped ==
  ASSUME NEW f, IsConfig(f), NEW canonical
  PROVE  /\ Parts(f, canonical) \in Seq(Seq(EntriesIn(f)))
         /\ EntriesOf(f, canonical) = FlattenSeq(Parts(f, canonical))
  <1>. DEFINE E == EntriesIn(f)
              parts == Parts(f, canonical)
  <1>1. DOMAIN f = 1..Len(f) /\ Len(f) \in Nat
    BY ListDomain DEF IsConfig
  <1>2. ASSUME NEW i \in DOMAIN f PROVE parts[i] \in Seq(E)
    <2>1. f[i].entries \in Seq(E)
      <3>1. IsList(f[i].entries)
        BY DEF IsConfig
      <3>2. ToSet(f[i].entries) \subseteq E
        BY DEF EntriesIn
      <3>3. \A S, T : S \subseteq T => Seq(S) \subseteq Seq(T)
        OBVIOUS
      <3>. HIDE DEF E
      <3>. QED
        BY <3>1, <3>2, <3>3 DEF IsList
    <2>2. <<>> \in Seq(E)
      OBVIOUS
    <2>. QED
      BY <2>1, <2>2 DEF Parts
  <1>3. parts = [i \in 1..Len(f) |-> parts[i]] /\ DOMAIN parts = 1..Len(f)
    BY <1>1 DEF Parts
  <1>4. parts \in Seq(Seq(E))
    <2>. HIDE DEF parts, E
    <2>. QED
      BY <1>1, <1>2, <1>3, IsSequence
  <1>. QED
    BY <1>4 DEF EntriesOf, Parts

\* The entries of a standard are entries of the file.
LEMMA EntriesTyped ==
  ASSUME NEW f, IsConfig(f), NEW canonical
  PROVE  EntriesOf(f, canonical) \in Seq(EntriesIn(f))
  BY PartsTyped, FlattenTyped

\* The lists of a token are sequences.
LEMMA TokensTyped ==
  ASSUME NEW f \in Files
  PROVE  /\ DOMAIN Tokens(f) = 1..Len(Tokens(f)) /\ Len(Tokens(f)) \in Nat
         /\ \A i \in DOMAIN Tokens(f) : ReadableToken(Tokens(f)[i])
  <1>. DEFINE T == [entry : EntriesIn(f), standard : Standard]
              one == [i \in DOMAIN ERC20(f) |-> Token(ERC20(f)[i], "erc20")]
              two == [i \in DOMAIN ERC721(f) |-> Token(ERC721(f)[i], "erc721")]
  <1>1. IsConfig(f)
    BY TokenReconAssumption
  <1>2. ERC20(f) \in Seq(EntriesIn(f)) /\ ERC721(f) \in Seq(EntriesIn(f))
    BY <1>1, EntriesTyped DEF ERC20, ERC721
  <1>3. one \in Seq(T) /\ two \in Seq(T)
    <2>1. /\ \A i \in DOMAIN ERC20(f) : Token(ERC20(f)[i], "erc20") \in T
          /\ \A i \in DOMAIN ERC721(f) : Token(ERC721(f)[i], "erc721") \in T
      BY <1>2 DEF Token, Standard
    <2>. HIDE DEF T
    <2>. QED
      BY <1>2, <2>1
  <1>4. Tokens(f) = one \o two
    BY DEF Tokens, TokensOf
  <1>5. Tokens(f) \in Seq(T)
    <2>. HIDE DEF one, two, T
    <2>. QED
      BY <1>3, <1>4
  <1>6. \A t \in T : ReadableToken(t)
    BY <1>1 DEF ReadableToken, IsConfig, EntriesIn, ToSet
  <1>. HIDE DEF T
  <1>. QED
    BY <1>5, <1>6

-----------------------------------------------------------------------------
(* What a request is answered *)

\* A value as a word of a proof, and as the answer of a phase.
WordOf(v) == [i \in 1..WordLength |-> IF i = WordLength THEN v ELSE 0]

Reading(p, v) == IF p = "proof" THEN WordOf(v) ELSE <<v>>

\* Two values never read the same.
LEMMA ReadingsDiffer ==
  ASSUME NEW p, NEW v, NEW w, Reading(p, v) = Reading(p, w)
  PROVE  v = w
  <1>1. CASE p = "proof"
    <2>1. WordLength \in 1..WordLength
      BY HexWordsAssumption
    <2>2. WordOf(v) = WordOf(w)
      BY <1>1 DEF Reading
    <2>3. WordOf(v)[WordLength] = v /\ WordOf(w)[WordLength] = w
      BY <2>1 DEF WordOf
    <2>. QED
      BY <2>2, <2>3
  <1>2. CASE p # "proof"
    <2>1. <<v>>[1] = v /\ <<w>>[1] = w
      OBVIOUS
    <2>. QED
      BY <1>2, <2>1 DEF Reading
  <1>. QED
    BY <1>1, <1>2

LEMMA SequenceAsFunction ==
  ASSUME NEW S, NEW s \in Seq(S)
  PROVE  s = [i \in 1..Len(s) |-> s[i]]
  OBVIOUS

FormOf(v, n) == [i \in 1..n |-> IF i = n THEN v ELSE 0]

\* Short and long words alike are padded or cut to the same word.
LEMMA WordOfForm ==
  ASSUME NEW v \in 0..1, NEW n \in 1..WordLength + 1, NEW text, text = FormOf(v, n)
  PROVE  FullWord(text) = WordOf(v)
  <1>1. /\ Len(text) = n /\ text \in Seq(Int) /\ WordLength \in Nat /\ n \in Nat
        /\ \A i \in 1..n : text[i] = IF i = n THEN v ELSE 0
    BY HexWordsAssumption DEF FormOf
  <1>2. CASE n = WordLength + 1
    <2>1. FullWord(text) = SubSeq(text, 2, n)
      BY <1>1, <1>2 DEF FullWord, LastDigits
    <2>2. SubSeq(text, 2, n) = [i \in 1..WordLength |-> text[i + 1]]
      BY <1>1, <1>2
    <2>3. \A i \in 1..WordLength : text[i + 1] = IF i = WordLength THEN v ELSE 0
      BY <1>1, <1>2
    <2>4. SubSeq(text, 2, n) = [i \in 1..WordLength |-> IF i = WordLength THEN v ELSE 0]
      <3>. DEFINE last == SubSeq(text, 2, n)
      <3>1. last = [i \in 1..WordLength |-> text[i + 1]]
        BY <2>2
      <3>. HIDE DEF last
      <3>. QED
        BY <2>3, <3>1 DEF last
    <2>. QED
      BY <2>1, <2>4, Zenon DEF WordOf
  <1>3. CASE n <= WordLength
    <2>. DEFINE k == WordLength - n
                zeros == SubSeq(ZeroHash, 1, k)
    <2>1. k \in 0..WordLength /\ k \in Nat /\ k + n = WordLength
      BY <1>1, <1>3
    <2>2. FullWord(text) = zeros \o text
      BY <1>1, <1>3 DEF FullWord, Padded
    <2>3. ZeroHash \in Seq(Int) /\ Len(ZeroHash) = WordLength
      BY <1>1 DEF ZeroHash
    <2>4. zeros \in Seq(Int) /\ Len(zeros) = k /\ \A i \in 1..k : zeros[i] = 0
      <3>. HIDE DEF k
      <3>1. SubSeq(ZeroHash, 1, k) = [i \in 1..k |-> ZeroHash[i]]
        BY <2>1, <2>3
      <3>2. \A i \in 1..k : ZeroHash[i] = 0
        BY <2>1 DEF ZeroHash
      <3>. QED
        BY <2>1, <3>1, <3>2
    <2>. HIDE DEF k, zeros
    <2>. DEFINE full == zeros \o text
    <2>5. /\ full = [i \in 1..WordLength |-> full[i]]
          /\ \A i \in 1..k : full[i] = zeros[i]
          /\ \A i \in 1..n : full[k + i] = text[i]
      <3>. HIDE DEF k
      <3>1. /\ full \in Seq(Int) /\ Len(full) = k + n
            /\ \A i \in 1..k : full[i] = zeros[i]
            /\ \A i \in 1..n : full[k + i] = text[i]
        <4>1. /\ zeros \in Seq(Int) /\ Len(zeros) = k /\ k \in Nat
              /\ text \in Seq(Int) /\ Len(text) = n /\ n \in Nat
          BY <1>1, <2>1, <2>4
        <4>2. full \in Seq(Int) /\ Len(full) = k + n
          BY <4>1
        <4>3. \A i \in 1..k : full[i] = zeros[i]
          BY <4>1
        <4>4. \A i \in 1..n : full[k + i] = text[i]
          BY <4>1
        <4>. QED
          BY <4>2, <4>3, <4>4
      <3>. HIDE DEF full
      <3>2. full = [i \in 1..Len(full) |-> full[i]]
        BY <3>1, SequenceAsFunction
      <3>. QED
        BY <2>1, <3>1, <3>2
    <2>. HIDE DEF full
    <2>6. ASSUME NEW i \in 1..WordLength
          PROVE  full[i] = IF i = WordLength THEN v ELSE 0
      <3>1. CASE i <= k
        <4>1. i \in 1..k /\ i # WordLength
          BY <1>1, <2>1, <3>1
        <4>. QED
          BY <2>4, <2>5, <4>1
      <3>2. CASE ~(i <= k)
        <4>1. i - k \in 1..n /\ (i - k = n <=> i = WordLength)
          BY <1>1, <2>1, <3>2
        <4>2. text[i - k] = IF i = WordLength THEN v ELSE 0
          BY <1>1, <4>1
        <4>3. i = k + (i - k)
          BY <2>1
        <4>. QED
          BY <2>5, <4>1, <4>2, <4>3
      <3>. QED
        BY <3>1, <3>2
    <2>. QED
      BY <2>2, <2>5, <2>6 DEF WordOf, full
  <1>. QED
    BY <1>1, <1>2, <1>3

\* Whatever form a word of a proof comes in, it reads as the value or as a failure.
LEMMA FormsNormalized ==
  ASSUME NEW v \in 0..1, NEW field, NEW text \in Forms(v)
  PROVE  Normalized(field, text) \in {Failed, WordOf(v)}
  <1>1. PICK n \in v..WordLength + 1 : text = FormOf(v, n)
    BY DEF Forms, FormOf
  <1>2. WordLength \in Nat
    BY HexWordsAssumption
  <1>3. CASE n = 0
    <2>1. text = <<>> /\ v = 0
      BY <1>1, <1>3 DEF FormOf
    <2>2. NormalizeWord32(text) = WordOf(v) /\ NormalizeCodeHash(text) = NoHash
      BY <2>1 DEF NormalizeWord32, NormalizeCodeHash, ZeroHash, WordOf
    <2>. QED
      BY <2>2 DEF Normalized
  <1>4. CASE n # 0
    <2>1. n \in 1..WordLength + 1
      BY <1>1, <1>2, <1>4
    <2>2. FullWord(text) = WordOf(v)
      BY <1>1, <2>1, WordOfForm
    <2>3. text # <<>>
      BY <1>1, <2>1 DEF FormOf
    <2>4. NormalizeWord32(text) = WordOf(v) /\ NormalizeCodeHash(text) = WordOf(v)
      BY <2>2, <2>3 DEF NormalizeWord32, NormalizeCodeHash
    <2>. QED
      BY <2>4 DEF Normalized
  <1>. QED
    BY <1>3, <1>4

\* A result of a request is the value read, or a failure.
LEMMA ResultsRead ==
  ASSUME NEW side, NEW field, ValueOf(side, field) \in 0..1, NEW result \in Results(side, field)
  PROVE  result \in {Failed, Reading(phase, ValueOf(side, field))}
  <1>1. CASE phase = "proof"
    BY <1>1, FormsNormalized DEF Results, Reading
  <1>2. CASE phase # "proof"
    BY <1>2 DEF Results, Reading
  <1>. QED
    BY <1>1, <1>2

-----------------------------------------------------------------------------
(* The invariant *)

Statuses == {"match", "mismatch", "error"}

RowsOf(t) == [field : AskedOf(t), status : Statuses]

AnyRow(f) == UNION {RowsOf(t) : t \in ToSet(Tokens(f))}

Answers == {Failed} \cup {Reading(p, v) : p \in Phases, v \in 0..1}

\* A token is in hand, and its rows are those of the phases before.
InPhases == pc \in {"fetch", "write"}

PhasesDone ==
  CASE pc = "write" -> Phases
    [] pc = "fetch" /\ phase = "proof" -> {"calls", "storage"}
    [] pc = "fetch" /\ phase = "storage" -> {"calls"}
    [] OTHER -> {}

TypeInv ==
  /\ file \in Files
  /\ pinned \in [Side -> BOOLEAN]
  /\ atPin \in [Side -> [Values(file) -> 0..1]]
  /\ atHead \in [Side -> [Values(file) -> 0..1]]
  /\ pc \in {"start", "token", "fetch", "write", "summary", "done", "failed"}
  /\ phase \in Phases
  /\ tokens \in 0..Len(Tokens(file)) /\ position = tokens + 1
  /\ InPhases => position <= Len(Tokens(file))
  /\ pc \in {"summary", "done"} => tokens = Len(Tokens(file))
  /\ DOMAIN toSend = Side /\ DOMAIN answers = Side
  /\ InPhases => rows \in Seq(RowsOf(InHand))
  /\ report \in Seq(Seq(AnyRow(file))) /\ Len(report) = tokens
  /\ failures \in Nat /\ blocks \in Nat
  /\ cancelled \in BOOLEAN /\ cutShort \in BOOLEAN

\* The answers are those to the fields that are not waiting any more.
Waits(fields, got, waiting) ==
  /\ Len(fields) = Len(got) + Len(waiting)
  /\ \A i \in 1..Len(waiting) : fields[Len(got) + i] = waiting[i]

Answered(side, p, field, answer) == answer \in {Failed, Reading(p, ValueOf(side, field))}

InStep(side) ==
  LET fields == AskedIn(InHand, phase)
  IN  /\ toSend[side] \in Seq(Seq(AskedOf(InHand)) \ {<<>>})
      /\ answers[side] \in Seq(Answers)
      /\ Waits(fields, answers[side], FlattenSeq(toSend[side]))
      /\ pinned[side] => \A i \in 1..Len(answers[side]) :
           Answered(side, phase, fields[i], answers[side][i])

\* Answers received and fields waiting are, on each chain, the fields of the phase.
FetchInv == pc = "fetch" => \A side \in Side : InStep(side)

\* A row that says what the pinned blocks hold.
RightRow(t, row) ==
  /\ row.status = "mismatch" => Differs(t, row.field)
  /\ row.status = "match" => ~Differs(t, row.field)

Covers(listed, fields) == \A x \in fields : \E j \in DOMAIN listed : listed[j].field = x

\* The rows of the token in hand cover the phases done.
RowInv ==
  InPhases =>
    /\ BothPinned => \A j \in DOMAIN rows : RightRow(InHand, rows[j])
    /\ \A p \in PhasesDone : Covers(rows, ToSet(AskedIn(InHand, p)))

\* The rows of a token in the report cover all that is asked of it.
ListInv ==
  \A i \in 1..tokens :
    /\ BothPinned => \A j \in DOMAIN report[i] : RightRow(Tokens(file)[i], report[i][j])
    /\ Covers(report[i], AskedOf(Tokens(file)[i]))

\* The places of the report with a status.
RowsIn(i, s) == {k \in DOMAIN report[i] : report[i][k].status = s}
Places(s) == UNION {{<<i, j>> : j \in RowsIn(i, s)} : i \in DOMAIN report}

\* The totals count the rows of the report.
CountInv ==
  /\ checks \in Nat /\ matched \in Nat /\ mismatched \in Nat /\ errors \in Nat
  /\ checks = matched + mismatched + errors
  /\ \A s \in Statuses : IsFiniteSet(Places(s))
  /\ matched = Cardinality(Places("match"))
  /\ mismatched = Cardinality(Places("mismatch"))
  /\ errors = Cardinality(Places("error"))

\* Requests that a cancelled context failed leave their trace.
CutInv ==
  cutShort /\ pc # "failed" =>
    \/ errors > 0
    \/ InPhases /\ \E j \in DOMAIN rows : rows[j].status = "error"
    \/ pc = "fetch" /\ \E side \in Side : Failed \in ToSet(answers[side])

TokenInv == TypeInv /\ FetchInv /\ RowInv /\ ListInv /\ CountInv /\ CutInv

\* The token in hand is one of the configuration's.
LEMMA InHandTyped ==
  ASSUME TypeInv, InPhases
  PROVE  /\ position \in DOMAIN Tokens(file) /\ position = tokens + 1
         /\ InHand \in ToSet(Tokens(file)) /\ ReadableToken(InHand)
         /\ RowsOf(InHand) \subseteq AnyRow(file)
  <1>1. /\ DOMAIN Tokens(file) = 1..Len(Tokens(file)) /\ Len(Tokens(file)) \in Nat
        /\ \A i \in DOMAIN Tokens(file) : ReadableToken(Tokens(file)[i])
    BY TokensTyped DEF TypeInv
  <1>2. position \in DOMAIN Tokens(file) /\ position = tokens + 1
    <2>1. /\ tokens \in 0..Len(Tokens(file)) /\ position = tokens + 1
          /\ position <= Len(Tokens(file))
      BY DEF TypeInv
    <2>2. position \in 1..Len(Tokens(file))
      BY <1>1, <2>1
    <2>. QED
      BY <1>1, <2>1, <2>2
  <1>3. InHand \in ToSet(Tokens(file)) /\ ReadableToken(InHand)
    BY <1>1, <1>2 DEF InHand, ToSet
  <1>. QED
    BY <1>2, <1>3 DEF AnyRow

\* The chains have a value for each field asked for.
LEMMA AskedValues ==
  ASSUME TypeInv, InPhases, NEW side \in Side, NEW field \in AskedOf(InHand)
  PROVE  ValueOf(side, field) \in 0..1
  <1>. DEFINE v == [address |-> InHand.entry.address, field |-> field]
  <1>1. v \in Values(file)
    BY InHandTyped DEF Values
  <1>2. BlockOf(side) \in [Values(file) -> 0..1]
    BY DEF BlockOf, TypeInv
  <1>3. ValueOf(side, field) = BlockOf(side)[v]
    BY DEF ValueOf
  <1>. HIDE DEF v
  <1>. QED
    BY <1>1, <1>2, <1>3

LEMMA StatusTyped ==
  ASSUME NEW first, NEW second
  PROVE  Status(first, second) \in Statuses
  BY DEF Status, Statuses

\* The rows of a phase, one for each field it asks for.
LEMMA NewRowsTyped ==
  ASSUME TypeInv, pc = "fetch"
  PROVE  /\ NewRows \in Seq(RowsOf(InHand))
         /\ DOMAIN NewRows = DOMAIN AskedIn(InHand, phase)
         /\ Len(NewRows) = Len(AskedIn(InHand, phase))
         /\ \A i \in DOMAIN NewRows :
              /\ NewRows[i].field = AskedIn(InHand, phase)[i]
              /\ NewRows[i].status = Status(answers["l1"][i], answers["l2"][i])
              /\ NewRows[i].field \in AskedOf(InHand)
  <1>. DEFINE fields == AskedIn(InHand, phase)
              A == AskedOf(InHand)
              stat(i) == Status(answers["l1"][i], answers["l2"][i])
  <1>1. fields \in Seq(A)
    BY InHandTyped, RequestsTyped DEF TypeInv, InPhases
  <1>2. NewRows = [i \in DOMAIN fields |-> [field |-> fields[i], status |-> stat(i)]]
    BY DEF NewRows, AskedIn
  <1>3. \A i \in DOMAIN fields : stat(i) \in Statuses
    BY StatusTyped
  <1>4. RowsOf(InHand) = [field : A, status : Statuses]
    BY DEF RowsOf
  <1>. HIDE DEF fields, A, stat
  <1>5. DOMAIN fields = 1..Len(fields) /\ Len(fields) \in Nat /\ \A i \in DOMAIN fields : fields[i] \in A
    BY <1>1
  <1>6. \A i \in DOMAIN fields : /\ NewRows[i] \in [field : A, status : Statuses]
                                 /\ NewRows[i].field = fields[i] /\ NewRows[i].status = stat(i)
    BY <1>2, <1>3, <1>5
  <1>7. DOMAIN NewRows = DOMAIN fields /\ NewRows = [i \in DOMAIN fields |-> NewRows[i]]
    BY <1>2
  <1>8. NewRows \in Seq(RowsOf(InHand)) /\ Len(NewRows) = Len(fields)
    <2>1. NewRows \in Seq(RowsOf(InHand))
      BY <1>4, <1>5, <1>6, <1>7, IsSequence
    <2>2. DOMAIN NewRows = 1..Len(NewRows) /\ Len(NewRows) \in Nat
      BY <2>1, ElementsOf
    <2>. QED
      BY <1>5, <1>7, <2>1, <2>2
  <1>. QED
    BY <1>5, <1>6, <1>7, <1>8 DEF fields, A, stat

LEMMA TypeInitially == Init => TypeInv
  <1>. SUFFICES ASSUME Init PROVE TypeInv
    OBVIOUS
  <1>1. atPin \in [Side -> [Values(file) -> 0..1]] /\ atHead = atPin
    <2>1. PICK n \in 0..1, l2 \in [Values(file) -> 0..1] :
            atPin = [side \in Side |-> IF side = "l2" THEN l2 ELSE [v \in Values(file) |-> n]]
      BY DEF Init
    <2>2. [v \in Values(file) |-> n] \in [Values(file) -> 0..1]
      OBVIOUS
    <2>. QED
      BY <2>1, <2>2 DEF Init
  <1>2. Len(Tokens(file)) \in Nat
    BY TokensTyped DEF Init
  <1>3. report \in Seq(Seq(AnyRow(file))) /\ Len(report) = 0
    BY DEF Init
  <1>4. tokens \in 0..Len(Tokens(file)) /\ position = tokens + 1
    BY <1>2 DEF Init
  <1>5. ~InPhases /\ pc = "start" /\ phase \in Phases
    BY DEF Init, InPhases, Phases
  <1>6. /\ file \in Files /\ pinned \in [Side -> BOOLEAN]
        /\ DOMAIN toSend = Side /\ DOMAIN answers = Side
        /\ failures \in Nat /\ blocks \in Nat /\ cancelled \in BOOLEAN /\ cutShort \in BOOLEAN
        /\ tokens = 0
    BY DEF Init
  <1>. QED
    BY <1>1, <1>3, <1>4, <1>5, <1>6 DEF TypeInv

LEMMA TypeNext == TypeInv /\ [Next]_vars => TypeInv'
  <1>. SUFFICES ASSUME TypeInv, [Next]_vars PROVE TypeInv'
    OBVIOUS
  <1>0. Len(Tokens(file)) \in Nat
    BY TokensTyped DEF TypeInv
  <1>1. CASE Start \/ Fail
    BY <1>1 DEF Start, Fail, TypeInv, chains, requests, summary, InPhases, InHand
  <1>2. CASE TakeToken
    <2>1. rows' = <<>> /\ <<>> \in Seq(RowsOf(InHand'))
      BY <1>2 DEF TakeToken
    <2>. QED
      BY <1>2, <2>1 DEF TakeToken, StartPhase, TypeInv, chains, summary, InPhases, Phases
  <1>3. CASE EndPhase
    <2>1. /\ pc = "fetch" /\ pc' \in {"fetch", "write"} /\ phase' \in Phases
          /\ rows' = rows \o NewRows /\ DOMAIN toSend' = Side /\ DOMAIN answers' = Side
          /\ UNCHANGED <<file, chains, position, report, summary, cancelled, failures, cutShort, pinned>>
      BY <1>3 DEF EndPhase, StartPhase, requests, TypeInv, Phases, chains
    <2>2. rows' \in Seq(RowsOf(InHand')) /\ InHand' = InHand
      <3>1. InHand' = InHand
        BY <2>1 DEF InHand
      <3>2. rows \in Seq(RowsOf(InHand)) /\ NewRows \in Seq(RowsOf(InHand))
        BY <2>1, NewRowsTyped DEF TypeInv, InPhases
      <3>3. rows \o NewRows \in Seq(RowsOf(InHand))
        BY <3>2
      <3>. QED
        BY <2>1, <3>1, <3>3
    <2>. QED
      BY <2>1, <2>2 DEF TypeInv, chains, summary, InPhases
  <1>4. CASE WriteRows
    <2>1. /\ pc = "write" /\ pc' = "token" /\ position' = position + 1 /\ tokens' = tokens + 1
          /\ report' = Append(report, rows)
          /\ UNCHANGED <<file, chains, phase, requests, rows, cancelled>>
      BY <1>4 DEF WriteRows
    <2>2. rows \in Seq(AnyRow(file))
      <3>1. rows \in Seq(RowsOf(InHand)) /\ RowsOf(InHand) \subseteq AnyRow(file)
        BY <2>1, InHandTyped DEF TypeInv, InPhases
      <3>. QED
        BY <3>1
    <2>3. report' \in Seq(Seq(AnyRow(file))) /\ Len(report') = Len(report) + 1
      <3>1. report \in Seq(Seq(AnyRow(file)))
        BY DEF TypeInv
      <3>. QED
        BY <2>1, <2>2, <3>1
    <2>4. /\ tokens \in 0..Len(Tokens(file)) /\ position = tokens + 1
          /\ position <= Len(Tokens(file))
      BY <2>1 DEF TypeInv, InPhases
    <2>5. tokens' \in 0..Len(Tokens(file')) /\ position' = tokens' + 1
      BY <1>0, <2>1, <2>4
    <2>. QED
      BY <2>1, <2>3, <2>5 DEF TypeInv, chains, requests, InPhases
  <1>5. CASE EndOfTokens
    <2>1. tokens = Len(Tokens(file))
      BY <1>0, <1>5 DEF EndOfTokens, TypeInv
    <2>. QED
      BY <1>5, <2>1 DEF EndOfTokens, TypeInv, chains, requests, summary, InPhases, InHand
  <1>6. CASE WriteTokenSummary \/ Cancel
    BY <1>6 DEF WriteTokenSummary, Cancel, TypeInv, chains, requests, summary, InPhases, InHand
  <1>7. ASSUME NEW side \in Side, SendChunk(side) PROVE TypeInv'
    <2>1. /\ pc = "fetch" /\ DOMAIN toSend' = Side /\ DOMAIN answers' = Side
          /\ failures' \in Nat /\ cutShort' \in BOOLEAN
          /\ UNCHANGED <<file, chains, pc, phase, position, rows, report, summary, cancelled>>
      BY <1>7 DEF SendChunk, TypeInv
    <2>. QED
      BY <2>1 DEF TypeInv, chains, summary, InPhases, InHand
  <1>8. ASSUME NEW side \in Side, NEW v \in DOMAIN atHead[side], NewBlock(side, v) PROVE TypeInv'
    <2>1. atHead' \in [Side -> [Values(file) -> 0..1]]
      <3>1. v \in Values(file) /\ atHead \in [Side -> [Values(file) -> 0..1]]
        BY DEF TypeInv
      <3>2. 1 - atHead[side][v] \in 0..1
        BY <3>1
      <3>3. atHead' = [atHead EXCEPT ![side] = [atHead[side] EXCEPT ![v] = 1 - atHead[side][v]]]
        BY <1>8, <3>1 DEF NewBlock
      <3>. QED
        BY <3>1, <3>2, <3>3
    <2>. QED
      BY <1>8, <2>1 DEF NewBlock, TypeInv, requests, summary, InPhases, InHand
  <1>9. CASE UNCHANGED vars
    BY <1>9 DEF vars, TypeInv, chains, requests, summary, InPhases, InHand
  <1>. QED
    BY <1>1, <1>2, <1>3, <1>4, <1>5, <1>6, <1>7, <1>8, <1>9 DEF Next

-----------------------------------------------------------------------------
(* Requests and answers *)

\* When a phase starts all of its fields wait.
LEMMA PhaseStarts ==
  ASSUME NEW p \in Phases, StartPhase(InHand, p), InHand' = InHand, ReadableToken(InHand),
         NEW side \in Side
  PROVE  InStep(side)'
  <1>. DEFINE asked == Requests(InHand, p)
              fields == AskedIn(InHand, p)
              A == AskedOf(InHand)
  <1>1. phase' = p /\ toSend'[side] = asked /\ answers'[side] = <<>>
    BY DEF StartPhase
  <1>2. asked \in Seq(Seq(A) \ {<<>>}) /\ fields \in Seq(A)
    BY RequestsTyped
  <1>3. FlattenSeq(toSend'[side]) = fields
    BY <1>1 DEF AskedIn
  <1>4. AskedIn(InHand', phase') = fields /\ AskedOf(InHand') = A
    BY <1>1
  <1>. HIDE DEF asked, fields, A
  <1>5. Len(fields) = 0 + Len(fields) /\ \A i \in 1..Len(fields) : fields[0 + i] = fields[i]
    BY <1>2
  <1>6. Len(answers'[side]) = 0 /\ answers'[side] \in Seq(Answers) /\ 1..0 = {}
    BY <1>1
  <1>7. Waits(fields, answers'[side], fields)
    BY <1>5, <1>6 DEF Waits
  <1>. QED
    BY <1>1, <1>2, <1>3, <1>4, <1>6, <1>7, Zenon DEF InStep

\* A queue is its first chunk and the rest.
LEMMA ChunkSplits ==
  ASSUME NEW S, NEW side, toSend[side] \in Seq(S), toSend[side] # <<>>
  PROVE  LET rest == SubSeq(toSend[side], Len(Chunk(side)) + 1, Len(toSend[side]))
         IN  /\ Chunk(side) \in Seq(S) /\ rest \in Seq(S)
             /\ toSend[side] = Chunk(side) \o rest
             /\ Chunk(side) # <<>>
  <1>. DEFINE queue == toSend[side]
              n == Len(queue)
              m == IF n < RpcBatchSize THEN n ELSE RpcBatchSize
              chunk == Chunk(side)
  <1>1. n \in Nat \ {0} /\ queue \in Seq(S)
    OBVIOUS
  <1>2. m \in 1..n
    <2>. HIDE DEF n
    <2>. QED
      BY <1>1, TokenReconAssumption
  <1>3. chunk = SubSeq(queue, 1, m)
    BY DEF Chunk
  <1>. HIDE DEF queue, m, chunk
  <1>4. /\ chunk \in Seq(S) /\ Len(chunk) = m
        /\ SubSeq(queue, m + 1, n) \in Seq(S)
    BY <1>1, <1>2, <1>3
  <1>5. queue = chunk \o SubSeq(queue, m + 1, n)
    BY <1>1, <1>2, <1>3, <1>4
  <1>6. chunk # <<>>
    BY <1>2, <1>4
  <1>. QED
    BY <1>4, <1>5, <1>6 DEF queue, n, chunk

\* One chunk: its fields are the first that wait, and get an answer each.
LEMMA ChunkSent ==
  ASSUME TypeInv, FetchInv, NEW side \in Side, SendChunk(side)
  PROVE  \E chunk \in Seq(AskedOf(InHand)), waiting \in Seq(AskedOf(InHand)), results \in Seq(Answers) :
           /\ chunk = FlattenSeq(Chunk(side)) /\ chunk # <<>>
           /\ FlattenSeq(toSend[side]) = chunk \o waiting
           /\ FlattenSeq(toSend'[side]) = waiting
           /\ toSend'[side] \in Seq(Seq(AskedOf(InHand)) \ {<<>>})
           /\ answers'[side] = answers[side] \o results
           /\ Len(results) = Len(chunk)
           /\ \A i \in 1..Len(results) : Answered(side, phase, chunk[i], results[i])
           /\ cancelled => \A i \in 1..Len(results) : results[i] = Failed
  <1>. DEFINE A == AskedOf(InHand)
              Q == Seq(A) \ {<<>>}
              rest == SubSeq(toSend[side], Len(Chunk(side)) + 1, Len(toSend[side]))
              chunk == FlattenSeq(Chunk(side))
              waiting == FlattenSeq(rest)
  <1>1. pc = "fetch" /\ InPhases /\ toSend[side] # <<>> /\ toSend'[side] = rest
    BY DEF SendChunk, InPhases, TypeInv
  <1>2. toSend[side] \in Seq(Q) /\ answers[side] \in Seq(Answers)
    BY <1>1 DEF FetchInv, InStep
  <1>3. /\ Chunk(side) \in Seq(Q) /\ rest \in Seq(Q) /\ toSend[side] = Chunk(side) \o rest
        /\ Chunk(side) # <<>>
    BY <1>1, <1>2, ChunkSplits
  <1>4. PICK failed \in FailingFields(chunk) : \E results \in ResultsOf(side, chunk, failed) :
          answers'[side] = answers[side] \o results
    BY DEF SendChunk, TypeInv
  <1>5. PICK results \in ResultsOf(side, chunk, failed) : answers'[side] = answers[side] \o results
    BY <1>4
  <1>. HIDE DEF rest
  <1>6. Chunk(side) \in Seq(Seq(A)) /\ rest \in Seq(Seq(A))
    BY <1>3
  <1>7. /\ chunk \in Seq(A) /\ waiting \in Seq(A)
        /\ FlattenSeq(toSend[side]) = chunk \o waiting
    <2>. HIDE DEF A
    <2>. QED
      BY <1>3, <1>6, FlattenTyped, FlattenBoth
  <1>8. chunk # <<>>
    <2>1. 1 \in DOMAIN Chunk(side) /\ Chunk(side)[1] \in Seq(A) \ {<<>>}
      BY <1>3
    <2>2. Chunk(side)[1][1] \in ToSet(Chunk(side)[1])
      BY <2>1 DEF ToSet
    <2>3. Chunk(side)[1][1] \in ToSet(chunk)
      <3>. HIDE DEF A
      <3>. QED
        BY <1>6, <2>1, <2>2, FlattenElements
    <2>4. ToSet(<<>>) = {}
      BY DEF ToSet
    <2>. QED
      BY <2>3, <2>4
  <1>. HIDE DEF chunk, waiting, Q
  <1>9. DOMAIN chunk = 1..Len(chunk) /\ Len(chunk) \in Nat /\ \A i \in DOMAIN chunk : chunk[i] \in A
    BY <1>7
  <1>10. /\ DOMAIN results = DOMAIN chunk /\ results = [i \in DOMAIN chunk |-> results[i]]
        /\ \A i \in DOMAIN chunk :
             IF i \in failed THEN results[i] = Failed ELSE results[i] \in Results(side, chunk[i])
    BY <1>5 DEF ResultsOf
  <1>11. ASSUME NEW i \in DOMAIN chunk
         PROVE  /\ results[i] \in {Failed, Reading(phase, ValueOf(side, chunk[i]))}
                /\ results[i] \in Answers
    <2>1. ValueOf(side, chunk[i]) \in 0..1
      BY <1>1, <1>9, AskedValues
    <2>2. results[i] \in {Failed, Reading(phase, ValueOf(side, chunk[i]))}
      BY <1>10, <2>1, ResultsRead
    <2>3. phase \in Phases
      BY DEF TypeInv
    <2>. QED
      BY <2>1, <2>2, <2>3 DEF Answers
  <1>12. results \in Seq(Answers) /\ Len(results) = Len(chunk)
    <2>1. results \in Seq(Answers)
      BY <1>9, <1>10, <1>11, IsSequence
    <2>2. DOMAIN results = 1..Len(results) /\ Len(results) \in Nat
      BY <2>1, ElementsOf
    <2>. QED
      BY <1>9, <1>10, <2>1, <2>2
  <1>13. ASSUME cancelled, NEW i \in DOMAIN chunk PROVE results[i] = Failed
    <2>1. failed = DOMAIN chunk
      BY <1>4, <1>13 DEF FailingFields
    <2>. QED
      BY <1>10, <2>1
  <1>14. toSend'[side] \in Seq(Q) /\ FlattenSeq(toSend'[side]) = waiting
    BY <1>1, <1>3 DEF waiting
  <1>15. \A i \in 1..Len(results) :
           /\ Answered(side, phase, chunk[i], results[i])
           /\ cancelled => results[i] = Failed
    BY <1>9, <1>11, <1>12, <1>13 DEF Answered
  <1>16. chunk = FlattenSeq(Chunk(side))
    BY DEF chunk
  <1>. QED
    BY <1>5, <1>7, <1>8, <1>12, <1>14, <1>15, <1>16, Zenon DEF Q

LEMMA JoinedLength ==
  ASSUME NEW S, NEW a \in Seq(S), NEW b \in Seq(S)
  PROVE  Len(a \o b) = Len(a) + Len(b)
  OBVIOUS

\* The fields that have been answered move on with the queue.
LEMMA WaitingShrinks ==
  ASSUME NEW S, NEW V, NEW fields \in Seq(S), NEW chunk \in Seq(S), NEW waiting \in Seq(S),
         NEW got \in Seq(V), NEW results \in Seq(V), Len(results) = Len(chunk),
         Waits(fields, got, chunk \o waiting)
  PROVE  /\ Waits(fields, got \o results, waiting)
         /\ \A i \in 1..Len(chunk) : fields[Len(got) + i] = chunk[i]
  <1>. DEFINE g == Len(got)
              c == Len(chunk)
              w == Len(waiting)
              all == got \o results
              before == chunk \o waiting
  <1>1. /\ g \in Nat /\ c \in Nat /\ w \in Nat
    OBVIOUS
  <1>2. Len(all) = g + c
    <2>1. Len(got \o results) = Len(got) + Len(results)
      BY JoinedLength, Zenon
    <2>. QED
      BY <2>1, Zenon
  <1>3. Len(before) = c + w
    OBVIOUS
  <1>4. \A i \in 1..c : before[i] = chunk[i]
    OBVIOUS
  <1>5. \A i \in 1..w : before[c + i] = waiting[i]
    BY <1>1
  <1>. HIDE DEF before
  <1>6. Len(fields) = g + (c + w) /\ \A i \in 1..c + w : fields[g + i] = before[i]
    BY <1>3 DEF Waits, before
  <1>. HIDE DEF g, c, w, all
  <1>7. Len(fields) = Len(all) + w
    BY <1>1, <1>2, <1>6
  <1>8. ASSUME NEW i \in 1..w PROVE fields[Len(all) + i] = waiting[i]
    <2>1. c + i \in 1..c + w /\ g + (c + i) = (g + c) + i
      BY <1>1
    <2>2. fields[g + (c + i)] = waiting[i]
      BY <1>5, <1>6, <2>1
    <2>. QED
      BY <1>2, <2>1, <2>2
  <1>9. ASSUME NEW i \in 1..c PROVE fields[g + i] = chunk[i]
    <2>1. i \in 1..c + w
      BY <1>1
    <2>. QED
      BY <1>4, <1>6, <2>1
  <1>10. Waits(fields, all, waiting)
    BY <1>7, <1>8 DEF Waits, w
  <1>. QED
    BY <1>9, <1>10, Zenon DEF g, c, all

\* A chunk keeps answers and queue in step.
LEMMA StepSent ==
  ASSUME TypeInv, FetchInv, NEW side \in Side, SendChunk(side)
  PROVE  InStep(side)'
  <1>. DEFINE A == AskedOf(InHand)
              fields == AskedIn(InHand, phase)
              got == answers[side]
              before == FlattenSeq(toSend[side])
              good(field, answer) == Answered(side, phase, field, answer)
  <1>1. /\ pc = "fetch" /\ InHand' = InHand /\ phase' = phase /\ pinned' = pinned
        /\ \A field : ValueOf(side, field)' = ValueOf(side, field)
    BY DEF SendChunk, InHand, chains, ValueOf, BlockOf
  <1>2. fields \in Seq(A)
    BY <1>1, InHandTyped, RequestsTyped DEF TypeInv, InPhases
  <1>3. /\ got \in Seq(Answers) /\ Waits(fields, got, before)
        /\ pinned[side] => \A i \in 1..Len(got) : good(fields[i], got[i])
    BY <1>1 DEF FetchInv, InStep
  <1>4. PICK chunk \in Seq(A), waiting \in Seq(A), results \in Seq(Answers) :
           /\ chunk = FlattenSeq(Chunk(side)) /\ chunk # <<>>
           /\ before = chunk \o waiting
           /\ FlattenSeq(toSend'[side]) = waiting
           /\ toSend'[side] \in Seq(Seq(A) \ {<<>>})
           /\ answers'[side] = got \o results
           /\ Len(results) = Len(chunk)
           /\ \A i \in 1..Len(results) : good(chunk[i], results[i])
           /\ cancelled => \A i \in 1..Len(results) : results[i] = Failed
    BY ChunkSent, Zenon
  <1>5. /\ \A field, answer : Answered(side, phase, field, answer)' = good(field, answer)
        /\ AskedOf(InHand') = A /\ AskedIn(InHand', phase') = fields
    BY <1>1 DEF Answered
  <1>. HIDE DEF A, fields, got, before, good
  <1>. DEFINE all == got \o results
  <1>6. /\ Waits(fields, all, waiting)
        /\ \A i \in 1..Len(chunk) : fields[Len(got) + i] = chunk[i]
    BY <1>2, <1>3, <1>4, WaitingShrinks
  <1>7. /\ all \in Seq(Answers) /\ Len(all) = Len(got) + Len(results)
        /\ Len(got) \in Nat /\ Len(results) \in Nat
        /\ \A i \in 1..Len(got) : all[i] = got[i]
    BY <1>3
  <1>8. \A i \in 1..Len(results) : all[Len(got) + i] = results[i]
    BY <1>3
  <1>. HIDE DEF all
  <1>9. ASSUME pinned[side], NEW i \in 1..Len(all) PROVE good(fields[i], all[i])
    <2>1. CASE i \in 1..Len(got)
      BY <1>3, <1>7, <1>9, <2>1
    <2>2. CASE i \notin 1..Len(got)
      <3>. DEFINE k == i - Len(got)
      <3>1. k \in 1..Len(results) /\ i = Len(got) + k
        BY <1>7, <2>2
      <3>. HIDE DEF k
      <3>2. all[i] = results[k] /\ fields[i] = chunk[k]
        BY <1>4, <1>6, <1>8, <3>1
      <3>. QED
        BY <1>4, <3>1, <3>2
    <2>. QED
      BY <2>1, <2>2
  <1>10. answers'[side] = all
    BY <1>4 DEF all
  <1>11. pinned'[side] => \A i \in 1..Len(answers'[side]) :
           Answered(side, phase, AskedIn(InHand, phase)[i], answers[side][i])'
    BY <1>1, <1>5, <1>9, <1>10
  <1>12. Waits(AskedIn(InHand, phase), answers[side], FlattenSeq(toSend[side]))'
    BY <1>4, <1>5, <1>6, <1>10
  <1>. QED
    BY <1>4, <1>5, <1>7, <1>10, <1>11, <1>12, Zenon DEF InStep

LEMMA FetchNext == TypeInv /\ FetchInv /\ [Next]_vars => FetchInv'
  <1>. SUFFICES ASSUME TypeInv, FetchInv, [Next]_vars, pc' = "fetch", NEW s \in Side
                PROVE  InStep(s)'
    BY DEF FetchInv
  <1>1. CASE UNCHANGED <<file, pc, phase, position, toSend, answers, pinned, atPin>>
    <2>1. /\ pc = "fetch" /\ InHand' = InHand /\ phase' = phase /\ pinned' = pinned
          /\ toSend' = toSend /\ answers' = answers
      BY <1>1 DEF InHand
    <2>2. InStep(s)
      BY <2>1 DEF FetchInv
    <2>3. pinned[s] => \A p, field, answer : Answered(s, p, field, answer)' = Answered(s, p, field, answer)
      BY <1>1, <2>1 DEF ValueOf, BlockOf, Answered
    <2>. QED
      BY <2>1, <2>2, <2>3 DEF InStep
  <1>2. CASE TakeToken
    <2>1. StartPhase(InHand, "calls") /\ InHand' = InHand /\ "calls" \in Phases
      BY <1>2 DEF TakeToken, InHand, Phases
    <2>2. ReadableToken(InHand)
      <3>1. position \in DOMAIN Tokens(file)
        <4>1. DOMAIN Tokens(file) = 1..Len(Tokens(file)) /\ Len(Tokens(file)) \in Nat
          BY TokensTyped DEF TypeInv
        <4>2. tokens \in Nat /\ position = tokens + 1 /\ position <= Len(Tokens(file))
          BY <1>2, <4>1 DEF TakeToken, TypeInv
        <4>. QED
          BY <4>1, <4>2
      <3>. QED
        BY <3>1, TokensTyped DEF InHand, TypeInv
    <2>. QED
      BY <2>1, <2>2, PhaseStarts
  <1>3. CASE EndPhase
    <2>1. InHand' = InHand /\ pc = "fetch"
      BY <1>3 DEF EndPhase, InHand
    <2>2. ReadableToken(InHand)
      BY <2>1, InHandTyped DEF InPhases
    <2>3. \E p \in Phases : StartPhase(InHand, p)
      BY <1>3 DEF EndPhase, Phases, TypeInv
    <2>. QED
      BY <2>1, <2>2, <2>3, PhaseStarts
  <1>4. ASSUME NEW side \in Side, SendChunk(side) PROVE InStep(s)'
    <2>1. CASE s = side
      BY <1>4, <2>1, StepSent
    <2>2. CASE s # side
      <3>1. /\ pc = "fetch" /\ InHand' = InHand /\ phase' = phase /\ pinned' = pinned
            /\ toSend'[s] = toSend[s] /\ answers'[s] = answers[s]
            /\ \A p, field, answer : Answered(s, p, field, answer)' = Answered(s, p, field, answer)
        BY <1>4, <2>2 DEF SendChunk, InHand, chains, ValueOf, BlockOf, TypeInv, Answered
      <3>2. InStep(s)
        BY <3>1 DEF FetchInv
      <3>. QED
        BY <3>1, <3>2 DEF InStep
    <2>. QED
      BY <2>1, <2>2
  <1>5. ASSUME NEW side \in Side, NEW v \in DOMAIN atHead[side], NewBlock(side, v) PROVE InStep(s)'
    BY <1>1, <1>5 DEF NewBlock, requests
  <1>6. CASE Cancel \/ UNCHANGED vars
    BY <1>1, <1>6 DEF Cancel, vars, chains, requests
  <1>7. CASE Start \/ Fail \/ WriteRows \/ EndOfTokens \/ WriteTokenSummary
    BY <1>7 DEF Start, Fail, WriteRows, EndOfTokens, WriteTokenSummary
  <1>. QED
    BY <1>2, <1>3, <1>4, <1>5, <1>6, <1>7 DEF Next

-----------------------------------------------------------------------------
(* The rows of the token in hand *)

\* When nothing waits each field of the phase has an answer.
LEMMA AllAnswered ==
  ASSUME TypeInv, FetchInv, pc = "fetch", NEW side \in Side, toSend[side] = <<>>
  PROVE  /\ answers[side] \in Seq(Answers) /\ Len(answers[side]) = Len(NewRows)
         /\ DOMAIN NewRows = 1..Len(answers[side])
         /\ pinned[side] => \A i \in DOMAIN NewRows :
              Answered(side, phase, NewRows[i].field, answers[side][i])
  <1>1. InStep(side)
    BY DEF FetchInv
  <1>2. /\ answers[side] \in Seq(Answers)
        /\ Len(AskedIn(InHand, phase)) = Len(answers[side]) + Len(FlattenSeq(toSend[side]))
    BY <1>1 DEF InStep, Waits
  <1>3. Len(FlattenSeq(toSend[side])) = 0
    BY FlattenEmpty
  <1>4. /\ NewRows \in Seq(RowsOf(InHand)) /\ Len(NewRows) = Len(AskedIn(InHand, phase))
        /\ \A i \in DOMAIN NewRows : NewRows[i].field = AskedIn(InHand, phase)[i]
    BY NewRowsTyped
  <1>5. Len(answers[side]) \in Nat /\ Len(answers[side]) = Len(NewRows)
    BY <1>2, <1>3, <1>4
  <1>6. DOMAIN NewRows = 1..Len(answers[side])
    BY <1>4, <1>5, ElementsOf
  <1>7. pinned[side] => \A i \in 1..Len(answers[side]) :
          Answered(side, phase, AskedIn(InHand, phase)[i], answers[side][i])
    BY <1>1 DEF InStep
  <1>. QED
    BY <1>2, <1>4, <1>5, <1>6, <1>7

\* Two answers at named blocks are alike exactly if the values are.
LEMMA NewRowsRight ==
  ASSUME TypeInv, FetchInv, pc = "fetch", \A side \in Side : toSend[side] = <<>>, BothPinned,
         NEW i \in DOMAIN NewRows
  PROVE  RightRow(InHand, NewRows[i])
  <1>. DEFINE field == NewRows[i].field
              v == [address |-> InHand.entry.address, field |-> field]
              first == answers["l1"][i]
              second == answers["l2"][i]
              value(side) == atPin[side][v]
  <1>1. "l1" \in Side /\ "l2" \in Side /\ pinned["l1"] /\ pinned["l2"]
    BY DEF Side, BothPinned
  <1>2. \A side \in Side : pinned[side] => ValueOf(side, field) = value(side)
    BY DEF ValueOf, BlockOf
  <1>3. /\ Answered("l1", phase, field, first) /\ Answered("l2", phase, field, second)
    BY <1>1, AllAnswered
  <1>4. NewRows[i].status = Status(first, second)
    BY NewRowsTyped
  <1>5. Differs(InHand, field) <=> value("l1") # value("l2")
    BY DEF Differs
  <1>. HIDE DEF field, v, first, second, value
  <1>6. /\ first \in {Failed, Reading(phase, value("l1"))}
        /\ second \in {Failed, Reading(phase, value("l2"))}
    BY <1>1, <1>2, <1>3 DEF Answered
  <1>7. ASSUME Status(first, second) = "mismatch" PROVE value("l1") # value("l2")
    <2>1. first # Failed /\ second # Failed /\ first # second
      BY <1>7 DEF Status
    <2>. QED
      BY <1>6, <2>1
  <1>8. ASSUME Status(first, second) = "match" PROVE value("l1") = value("l2")
    <2>1. first # Failed /\ second # Failed /\ first = second
      BY <1>8 DEF Status
    <2>2. Reading(phase, value("l1")) = Reading(phase, value("l2"))
      BY <1>6, <2>1
    <2>. QED
      BY <2>2, ReadingsDiffer
  <1>9. /\ NewRows[i].status = "mismatch" => Differs(InHand, field)
        /\ NewRows[i].status = "match" => ~Differs(InHand, field)
    BY <1>4, <1>5, <1>7, <1>8
  <1>. QED
    BY <1>9 DEF RightRow, field

\* A row of two joined lists is from one of them.
LEMMA ElementsOfRows ==
  ASSUME NEW S, NEW a \in Seq(S), NEW b \in Seq(S), NEW i \in DOMAIN (a \o b)
  PROVE  \/ i \in DOMAIN a /\ (a \o b)[i] = a[i]
         \/ \E j \in DOMAIN b : (a \o b)[i] = b[j]
  <1>. DEFINE all == a \o b
  <1>1. /\ DOMAIN a = 1..Len(a) /\ DOMAIN b = 1..Len(b) /\ Len(a) \in Nat /\ Len(b) \in Nat
        /\ DOMAIN all = 1..Len(a) + Len(b)
    OBVIOUS
  <1>2. \A k \in 1..Len(a) : all[k] = a[k]
    OBVIOUS
  <1>3. \A k \in 1..Len(b) : all[Len(a) + k] = b[k]
    BY <1>1
  <1>4. i \in DOMAIN all
    OBVIOUS
  <1>. HIDE DEF all
  <1>5. CASE i \in 1..Len(a)
    BY <1>1, <1>2, <1>5 DEF all
  <1>6. CASE i \notin 1..Len(a)
    <2>. DEFINE k == i - Len(a)
    <2>1. k \in 1..Len(b) /\ i = Len(a) + k
      BY <1>1, <1>4, <1>6
    <2>. HIDE DEF k
    <2>2. all[i] = b[k]
      BY <1>3, <2>1
    <2>. QED
      BY <1>1, <2>1, <2>2 DEF all
  <1>. QED
    BY <1>5, <1>6

\* Both lists are kept.
LEMMA RowsKept ==
  ASSUME NEW S, NEW a \in Seq(S), NEW b \in Seq(S)
  PROVE  /\ \A i \in DOMAIN a : i \in DOMAIN (a \o b) /\ (a \o b)[i] = a[i]
         /\ \A j \in DOMAIN b : Len(a) + j \in DOMAIN (a \o b) /\ (a \o b)[Len(a) + j] = b[j]
  <1>. DEFINE all == a \o b
  <1>1. /\ DOMAIN a = 1..Len(a) /\ DOMAIN b = 1..Len(b) /\ Len(a) \in Nat /\ Len(b) \in Nat
        /\ DOMAIN all = 1..Len(a) + Len(b)
    OBVIOUS
  <1>2. \A k \in 1..Len(a) : all[k] = a[k]
    OBVIOUS
  <1>3. \A k \in 1..Len(b) : all[Len(a) + k] = b[k]
    BY <1>1
  <1>. HIDE DEF all
  <1>4. \A k \in 1..Len(a) : k \in DOMAIN all
    BY <1>1
  <1>5. \A k \in 1..Len(b) : Len(a) + k \in DOMAIN all
    BY <1>1
  <1>. QED
    BY <1>1, <1>2, <1>3, <1>4, <1>5 DEF all

LEMMA RowNext == TypeInv /\ FetchInv /\ RowInv /\ [Next]_vars => RowInv'
  <1>. SUFFICES ASSUME TypeInv, FetchInv, RowInv, [Next]_vars PROVE RowInv'
    OBVIOUS
  <1>1. CASE UNCHANGED <<file, pinned, atPin, pc, phase, position, rows>>
    BY <1>1 DEF RowInv, InPhases, PhasesDone, BothPinned, RightRow, Differs, InHand, Covers
  <1>2. CASE TakeToken
    <2>1. rows' = <<>> /\ PhasesDone' = {} /\ DOMAIN rows' = {}
      BY <1>2 DEF TakeToken, StartPhase, PhasesDone
    <2>. QED
      BY <2>1 DEF RowInv
  <1>3. CASE EndPhase
    <2>1. /\ pc = "fetch" /\ InPhases /\ InHand' = InHand /\ pinned' = pinned /\ atPin' = atPin
          /\ rows' = rows \o NewRows /\ \A side \in Side : toSend[side] = <<>>
      BY <1>3 DEF EndPhase, InHand, chains, InPhases
    <2>2. rows \in Seq(RowsOf(InHand)) /\ NewRows \in Seq(RowsOf(InHand))
      BY <2>1, NewRowsTyped DEF TypeInv
    <2>3. ASSUME BothPinned, NEW j \in DOMAIN (rows \o NewRows)
          PROVE  RightRow(InHand, (rows \o NewRows)[j])
      <3>1. CASE j \in DOMAIN rows /\ (rows \o NewRows)[j] = rows[j]
        BY <2>1, <2>3, <3>1 DEF RowInv
      <3>2. CASE \E k \in DOMAIN NewRows : (rows \o NewRows)[j] = NewRows[k]
        BY <2>1, <2>3, <3>2, NewRowsRight
      <3>. QED
        BY <2>2, <3>1, <3>2, ElementsOfRows
    <2>4. PhasesDone' \subseteq PhasesDone \cup {phase}
      <3>1. CASE phase = "calls"
        <4>1. pc' = "fetch" /\ phase' = "storage"
          BY <1>3, <3>1 DEF EndPhase, StartPhase
        <4>. QED
          BY <3>1, <4>1 DEF PhasesDone
      <3>2. CASE phase = "storage"
        <4>1. pc' = "fetch" /\ phase' = "proof"
          BY <1>3, <3>2 DEF EndPhase, StartPhase
        <4>. QED
          BY <2>1, <3>2, <4>1 DEF PhasesDone
      <3>3. CASE phase = "proof"
        <4>1. pc' = "write"
          BY <1>3, <3>3 DEF EndPhase
        <4>. QED
          BY <2>1, <3>3, <4>1 DEF PhasesDone, Phases
      <3>. QED
        BY <3>1, <3>2, <3>3 DEF TypeInv, Phases
    <2>5. ASSUME NEW p \in PhasesDone \cup {phase}, NEW x \in ToSet(AskedIn(InHand, p))
          PROVE  \E j \in DOMAIN (rows \o NewRows) : (rows \o NewRows)[j].field = x
      <3>1. CASE p \in PhasesDone
        <4>1. PICK j \in DOMAIN rows : rows[j].field = x
          BY <2>1, <3>1 DEF RowInv, Covers
        <4>. QED
          BY <2>2, <4>1, RowsKept
      <3>2. CASE p = phase
        <4>1. PICK j \in DOMAIN AskedIn(InHand, phase) : AskedIn(InHand, phase)[j] = x
          BY <3>2 DEF ToSet
        <4>2. j \in DOMAIN NewRows /\ NewRows[j].field = x
          BY <2>1, <4>1, NewRowsTyped
        <4>3. /\ Len(rows) + j \in DOMAIN (rows \o NewRows)
              /\ (rows \o NewRows)[Len(rows) + j] = NewRows[j]
          BY <2>2, <4>2, RowsKept
        <4>. QED
          BY <4>2, <4>3, Zenon
      <3>. QED
        BY <3>1, <3>2
    <2>6. /\ BothPinned' = BothPinned
          /\ \A t, row : RightRow(t, row)' = RightRow(t, row)
      BY <2>1 DEF BothPinned, RightRow, Differs
    <2>7. \A p \in PhasesDone' : Covers(rows', ToSet(AskedIn(InHand', p)))
      BY <2>1, <2>4, <2>5 DEF Covers
    <2>8. BothPinned' => \A j \in DOMAIN rows' : RightRow(InHand, rows[j])'
      BY <2>1, <2>3, <2>6
    <2>. QED
      BY <2>7, <2>8 DEF RowInv
  <1>4. ASSUME NEW side \in Side, SendChunk(side) PROVE RowInv'
    BY <1>1, <1>4 DEF SendChunk, chains
  <1>5. ASSUME NEW side \in Side, NEW v \in DOMAIN atHead[side], NewBlock(side, v) PROVE RowInv'
    BY <1>1, <1>5 DEF NewBlock
  <1>6. CASE Cancel \/ UNCHANGED vars
    BY <1>1, <1>6 DEF Cancel, vars, chains
  <1>7. CASE Start \/ Fail \/ WriteRows \/ EndOfTokens \/ WriteTokenSummary
    BY <1>7 DEF Start, Fail, WriteRows, EndOfTokens, WriteTokenSummary, RowInv, InPhases
  <1>. QED
    BY <1>2, <1>3, <1>4, <1>5, <1>6, <1>7 DEF Next

-----------------------------------------------------------------------------
(* The report *)

\* Writing the rows of a token leaves those of the tokens before.
LEMMA ReportGrows ==
  ASSUME TypeInv, WriteRows
  PROVE  /\ DOMAIN report = 1..tokens /\ DOMAIN report' = 1..tokens + 1 /\ tokens \in Nat
         /\ \A i \in 1..tokens : report'[i] = report[i]
         /\ report'[tokens + 1] = rows
         /\ 1..tokens + 1 = 1..tokens \cup {tokens + 1} /\ tokens + 1 \notin 1..tokens
  <1>1. /\ report' = Append(report, rows) /\ pc = "write"
    BY DEF WriteRows
  <1>2. report \in Seq(Seq(AnyRow(file))) /\ Len(report) = tokens
    BY DEF TypeInv
  <1>3. rows \in Seq(AnyRow(file))
    <2>1. rows \in Seq(RowsOf(InHand)) /\ RowsOf(InHand) \subseteq AnyRow(file)
      BY <1>1, InHandTyped DEF TypeInv, InPhases
    <2>. QED
      BY <2>1
  <1>4. tokens \in Nat
    BY <1>2
  <1>. QED
    BY <1>1, <1>2, <1>3, <1>4

LEMMA ListNext == TypeInv /\ RowInv /\ ListInv /\ [Next]_vars => ListInv'
  <1>. SUFFICES ASSUME TypeInv, RowInv, ListInv, [Next]_vars PROVE ListInv'
    OBVIOUS
  <1>1. CASE UNCHANGED <<file, pinned, atPin, tokens, report>>
    BY <1>1 DEF ListInv, BothPinned, RightRow, Differs, Covers
  <1>2. CASE WriteRows
    <2>1. /\ file' = file /\ pinned' = pinned /\ atPin' = atPin /\ tokens' = tokens + 1
          /\ pc = "write" /\ InPhases
      BY <1>2 DEF WriteRows, chains, InPhases
    <2>2. /\ BothPinned' = BothPinned
          /\ \A t, row : RightRow(t, row)' = RightRow(t, row)
      BY <2>1 DEF BothPinned, RightRow, Differs
    <2>3. ASSUME NEW i \in 1..tokens'
          PROVE  /\ BothPinned => \A j \in DOMAIN report'[i] : RightRow(Tokens(file)[i], report'[i][j])
                 /\ Covers(report'[i], AskedOf(Tokens(file)[i]))
      <3>1. CASE i \in 1..tokens
        BY <1>2, <3>1, ReportGrows DEF ListInv
      <3>2. CASE i = tokens + 1
        <4>1. report'[i] = rows /\ InHand = Tokens(file)[i] /\ ReadableToken(InHand)
          BY <1>2, <2>1, <3>2, ReportGrows, InHandTyped DEF InHand
        <4>2. BothPinned => \A j \in DOMAIN rows : RightRow(InHand, rows[j])
          BY <2>1 DEF RowInv
        <4>3. \A p \in Phases : Covers(rows, ToSet(AskedIn(InHand, p)))
          BY <2>1 DEF RowInv, PhasesDone
        <4>4. Covers(rows, AskedOf(InHand))
          BY <4>1, <4>3, RequestsCover DEF Covers
        <4>. QED
          BY <4>1, <4>2, <4>4
      <3>. QED
        BY <1>2, <2>1, <3>1, <3>2, ReportGrows
    <2>. QED
      BY <2>1, <2>2, <2>3 DEF ListInv, Covers
  <1>3. CASE Start \/ Fail \/ TakeToken \/ EndPhase \/ EndOfTokens \/ WriteTokenSummary \/ Cancel
    BY <1>1, <1>3 DEF Start, Fail, TakeToken, EndPhase, EndOfTokens, WriteTokenSummary, Cancel,
                      chains, summary
  <1>4. ASSUME NEW side \in Side, SendChunk(side) PROVE ListInv'
    BY <1>1, <1>4 DEF SendChunk, chains, summary
  <1>5. ASSUME NEW side \in Side, NEW v \in DOMAIN atHead[side], NewBlock(side, v) PROVE ListInv'
    BY <1>1, <1>5 DEF NewBlock, summary
  <1>6. CASE UNCHANGED vars
    BY <1>1, <1>6 DEF vars, chains, summary
  <1>. QED
    BY <1>2, <1>3, <1>4, <1>5, <1>6 DEF Next

LEMMA SizeOfUnion ==
  ASSUME NEW S, IsFiniteSet(S), NEW T, IsFiniteSet(T), S \cap T = {}
  PROVE  /\ IsFiniteSet(S \cup T)
         /\ Cardinality(S) \in Nat /\ Cardinality(T) \in Nat
         /\ Cardinality(S \cup T) = Cardinality(S) + Cardinality(T)
  <1>1. Cardinality(S) \in Nat /\ Cardinality(T) \in Nat
    BY FS_CardinalityType
  <1>2. Cardinality(S \cap T) = 0
    BY FS_EmptySet
  <1>3. /\ IsFiniteSet(S \cup T)
        /\ Cardinality(S \cup T) = Cardinality(S) + Cardinality(T) - Cardinality(S \cap T)
    BY FS_Union
  <1>. QED
    BY <1>1, <1>2, <1>3

PairsWith(n, S) == {<<n, j>> : j \in S}

\* As many places as rows.
LEMMA PairsCounted ==
  ASSUME NEW n, NEW S, IsFiniteSet(S)
  PROVE  IsFiniteSet(PairsWith(n, S)) /\ Cardinality(PairsWith(n, S)) = Cardinality(S)
  <1>. DEFINE pair == [j \in S |-> <<n, j>>]
              T == PairsWith(n, S)
  <1>. USE DEF PairsWith
  <1>1. pair \in [S -> T]
    OBVIOUS
  <1>2. \A i, j \in S : pair[i] = pair[j] => i = j
    OBVIOUS
  <1>3. \A t \in T : \E i \in S : pair[i] = t
    OBVIOUS
  <1>4. pair \in Bijection(S, T)
    BY <1>1, <1>2, <1>3 DEF Bijection, Injection, IsInjective, Surjection
  <1>5. ExistsBijection(S, T)
    BY <1>4 DEF ExistsBijection
  <1>. QED
    BY <1>5, FS_Bijection

WithStatus(s) == {i \in DOMAIN rows : rows[i].status = s}

\* Each row of the token in hand is counted once.
LEMMA RowsCounted ==
  ASSUME TypeInv, InPhases
  PROVE  /\ \A s : IsFiniteSet(WithStatus(s)) /\ CountOf(s) = Cardinality(WithStatus(s))
                   /\ CountOf(s) \in Nat
         /\ Len(rows) = CountOf("match") + CountOf("mismatch") + CountOf("error")
  <1>1. /\ DOMAIN rows = 1..Len(rows) /\ Len(rows) \in Nat
        /\ \A i \in DOMAIN rows : rows[i].status \in Statuses
    <2>1. rows \in Seq(RowsOf(InHand))
      BY DEF TypeInv
    <2>2. DOMAIN rows = 1..Len(rows) /\ Len(rows) \in Nat /\ \A i \in 1..Len(rows) : rows[i] \in RowsOf(InHand)
      BY <2>1, ElementsOf
    <2>3. \A row \in RowsOf(InHand) : row.status \in Statuses
      BY DEF RowsOf
    <2>. QED
      BY <2>2, <2>3
  <1>2. IsFiniteSet(1..Len(rows)) /\ Cardinality(1..Len(rows)) = Len(rows)
    <2>1. 1 \in Int /\ Len(rows) \in Int
      BY <1>1
    <2>2. /\ IsFiniteSet(1..Len(rows))
          /\ Cardinality(1..Len(rows)) = IF 1 > Len(rows) THEN 0 ELSE Len(rows) - 1 + 1
      BY <2>1, FS_Interval
    <2>. QED
      BY <1>1, <2>2
  <1>3. ASSUME NEW s PROVE /\ IsFiniteSet(WithStatus(s))
                           /\ CountOf(s) = Cardinality(WithStatus(s)) /\ CountOf(s) \in Nat
    <2>1. WithStatus(s) \in SUBSET (1..Len(rows))
      BY <1>1 DEF WithStatus
    <2>2. IsFiniteSet(WithStatus(s))
      BY <1>2, <2>1, FS_Subset
    <2>3. CountOf(s) = Cardinality(WithStatus(s))
      BY DEF CountOf, WithStatus
    <2>. QED
      BY <2>2, <2>3, FS_CardinalityType
  <1>. DEFINE M == WithStatus("match")
              N == WithStatus("mismatch")
              E == WithStatus("error")
  <1>4. M \cup (N \cup E) = 1..Len(rows) /\ M \cap (N \cup E) = {} /\ N \cap E = {}
    BY <1>1 DEF WithStatus, Statuses
  <1>. HIDE DEF M, N, E
  <1>5. /\ IsFiniteSet(M) /\ IsFiniteSet(N) /\ IsFiniteSet(E)
        /\ Cardinality(M) = CountOf("match") /\ Cardinality(N) = CountOf("mismatch")
        /\ Cardinality(E) = CountOf("error")
    BY <1>3 DEF M, N, E
  <1>6. /\ IsFiniteSet(N \cup E)
        /\ Cardinality(N \cup E) = CountOf("mismatch") + CountOf("error")
    BY <1>4, <1>5, SizeOfUnion
  <1>7. Len(rows) = CountOf("match") + (CountOf("mismatch") + CountOf("error"))
    <2>1. Cardinality(M \cup (N \cup E)) = Cardinality(M) + Cardinality(N \cup E)
      BY <1>4, <1>5, <1>6, SizeOfUnion
    <2>. QED
      BY <1>2, <1>4, <1>5, <1>6, <2>1
  <1>8. CountOf("match") \in Nat /\ CountOf("mismatch") \in Nat /\ CountOf("error") \in Nat
    BY <1>3
  <1>9. Len(rows) = CountOf("match") + CountOf("mismatch") + CountOf("error")
    BY <1>7, <1>8
  <1>. QED
    BY <1>3, <1>9

LEMMA TotalsAdd ==
  ASSUME NEW a \in Nat, NEW b \in Nat, NEW c \in Nat, NEW d \in Nat, NEW e \in Nat, NEW f \in Nat
  PROVE  /\ a + d \in Nat /\ b + e \in Nat /\ c + f \in Nat
         /\ (a + b + c) + (d + e + f) = (a + d) + (b + e) + (c + f)
  OBVIOUS

\* What a token adds to the places with a status.
LEMMA PlacesGrow ==
  ASSUME TypeInv, CountInv, WriteRows, NEW s \in Statuses
  PROVE  /\ IsFiniteSet(Places(s)')
         /\ Cardinality(Places(s)') = Cardinality(Places(s)) + CountOf(s)
  <1>0. PICK n : n = tokens + 1
    OBVIOUS
  <1>. DEFINE added == PairsWith(n, WithStatus(s))
              before == Places(s)
  <1>1. InPhases /\ IsFiniteSet(before)
    BY DEF WriteRows, InPhases, CountInv
  <1>2. /\ IsFiniteSet(WithStatus(s)) /\ CountOf(s) = Cardinality(WithStatus(s))
    BY <1>1, RowsCounted
  <1>3. IsFiniteSet(added) /\ Cardinality(added) = CountOf(s)
    BY <1>2, PairsCounted
  <1>4. /\ \A i \in 1..tokens : RowsIn(i, s)' = RowsIn(i, s)
        /\ RowsIn(n, s)' = WithStatus(s)
    <2>1. ASSUME NEW i \in 1..tokens PROVE RowsIn(i, s)' = RowsIn(i, s)
      <3>1. report'[i] = report[i]
        BY ReportGrows
      <3>. QED
        BY <3>1, Zenon DEF RowsIn
    <2>2. RowsIn(n, s)' = WithStatus(s)
      <3>1. report'[n] = rows
        BY <1>0, ReportGrows
      <3>. QED
        BY <3>1, Zenon DEF RowsIn, WithStatus
    <2>. QED
      BY <2>1, <2>2
  <1>5. \A x : x \in before <=> \E i \in 1..tokens : \E j \in RowsIn(i, s) : x = <<i, j>>
    BY ReportGrows DEF Places
  <1>6. \A x : x \in Places(s)' <=> \E i \in 1..tokens + 1 : \E j \in RowsIn(i, s)' : x = <<i, j>>
    BY ReportGrows DEF Places
  <1>7. Places(s)' = before \cup added
    <2>. HIDE DEF before
    <2>1. ASSUME NEW x PROVE x \in Places(s)' <=> x \in before \cup added
      <3>1. x \in added <=> \E j \in RowsIn(n, s)' : x = <<n, j>>
        BY <1>4 DEF PairsWith
      <3>2. x \in before <=> \E i \in 1..tokens : \E j \in RowsIn(i, s)' : x = <<i, j>>
        BY <1>4, <1>5
      <3>3. \A i : i \in 1..tokens + 1 <=> i \in 1..tokens \/ i = n
        BY <1>0, ReportGrows
      <3>. HIDE DEF added
      <3>4. x \in Places(s)' <=> \/ \E i \in 1..tokens : \E j \in RowsIn(i, s)' : x = <<i, j>>
                                \/ \E j \in RowsIn(n, s)' : x = <<n, j>>
        BY <1>6, <3>3
      <3>. QED
        BY <3>1, <3>2, <3>4
    <2>. QED
      BY <2>1
  <1>8. before \cap added = {}
    <2>. HIDE DEF before
    <2>1. \A x \in before : x \notin added
      <3>. SUFFICES ASSUME NEW x \in before, x \in added PROVE FALSE
        OBVIOUS
      <3>1. PICK i \in 1..tokens : \E j \in RowsIn(i, s) : x = <<i, j>>
        BY <1>5
      <3>2. x[1] = i /\ x[1] = n
        BY <3>1 DEF PairsWith
      <3>. QED
        BY <1>0, <3>2, ReportGrows
    <2>. QED
      BY <2>1
  <1>. HIDE DEF before, added
  <1>9. /\ IsFiniteSet(before \cup added)
        /\ Cardinality(before \cup added) = Cardinality(before) + Cardinality(added)
    BY <1>1, <1>3, <1>8, SizeOfUnion, Zenon
  <1>. QED
    BY <1>3, <1>7, <1>9, Zenon DEF before

LEMMA CountNext == TypeInv /\ CountInv /\ [Next]_vars => CountInv'
  <1>. SUFFICES ASSUME TypeInv, CountInv, [Next]_vars PROVE CountInv'
    OBVIOUS
  <1>1. CASE UNCHANGED <<report, summary>>
    <2>1. report' = report
      BY <1>1
    <2>2. ASSUME NEW s PROVE Places(s)' = Places(s)
      <3>1. ASSUME NEW i PROVE RowsIn(i, s)' = RowsIn(i, s)
        BY <2>1 DEF RowsIn
      <3>. QED
        BY <2>1, <3>1 DEF Places
    <2>. QED
      BY <1>1, <2>2, Zenon DEF CountInv, summary
  <1>2. CASE WriteRows
    <2>1. /\ checks' = checks + Len(rows) /\ matched' = matched + CountOf("match")
          /\ mismatched' = mismatched + CountOf("mismatch") /\ errors' = errors + CountOf("error")
          /\ InPhases
      BY <1>2 DEF WriteRows, InPhases
    <2>2. /\ CountOf("match") \in Nat /\ CountOf("mismatch") \in Nat /\ CountOf("error") \in Nat
          /\ Len(rows) = CountOf("match") + CountOf("mismatch") + CountOf("error")
      BY <2>1, RowsCounted
    <2>3. /\ matched \in Nat /\ mismatched \in Nat /\ errors \in Nat
          /\ checks = matched + mismatched + errors
          /\ matched = Cardinality(Places("match")) /\ mismatched = Cardinality(Places("mismatch"))
          /\ errors = Cardinality(Places("error"))
      BY DEF CountInv
    <2>4. /\ matched' \in Nat /\ mismatched' \in Nat /\ errors' \in Nat
          /\ checks' = matched' + mismatched' + errors'
      <3>0. /\ matched \in Nat /\ mismatched \in Nat /\ errors \in Nat
            /\ CountOf("match") \in Nat /\ CountOf("mismatch") \in Nat /\ CountOf("error") \in Nat
        BY <2>2, <2>3
      <3>1. (matched + mismatched + errors) + (CountOf("match") + CountOf("mismatch") + CountOf("error"))
              = (matched + CountOf("match")) + (mismatched + CountOf("mismatch"))
                  + (errors + CountOf("error"))
        BY <3>0, TotalsAdd
      <3>2. /\ matched + CountOf("match") \in Nat /\ mismatched + CountOf("mismatch") \in Nat
            /\ errors + CountOf("error") \in Nat
        BY <3>0
      <3>. QED
        BY <2>1, <2>2, <2>3, <3>1, <3>2, Zenon
    <2>5. checks' \in Nat
      <3>1. \A a, b, c \in Nat : a + b + c \in Nat
        OBVIOUS
      <3>. QED
        BY <2>4, <3>1, Zenon
    <2>6. \A s \in Statuses : /\ IsFiniteSet(Places(s)')
                              /\ Cardinality(Places(s)') = Cardinality(Places(s)) + CountOf(s)
      BY <1>2, PlacesGrow
    <2>7. "match" \in Statuses /\ "mismatch" \in Statuses /\ "error" \in Statuses
      BY DEF Statuses
    <2>8. /\ matched' = Cardinality(Places("match"))'
          /\ mismatched' = Cardinality(Places("mismatch"))'
          /\ errors' = Cardinality(Places("error"))'
      BY <2>1, <2>3, <2>6, <2>7
    <2>. QED
      BY <2>4, <2>5, <2>6, <2>8 DEF CountInv
  <1>3. CASE Start \/ Fail \/ TakeToken \/ EndPhase \/ EndOfTokens \/ WriteTokenSummary \/ Cancel
    BY <1>1, <1>3 DEF Start, Fail, TakeToken, EndPhase, EndOfTokens, WriteTokenSummary, Cancel
  <1>4. ASSUME NEW side \in Side, SendChunk(side) PROVE CountInv'
    BY <1>1, <1>4 DEF SendChunk
  <1>5. ASSUME NEW side \in Side, NEW v \in DOMAIN atHead[side], NewBlock(side, v) PROVE CountInv'
    BY <1>1, <1>5 DEF NewBlock
  <1>6. CASE UNCHANGED vars
    BY <1>1, <1>6 DEF vars
  <1>. QED
    BY <1>2, <1>3, <1>4, <1>5, <1>6 DEF Next

-----------------------------------------------------------------------------
(* An interrupted run *)

\* A failed answer makes an error row.
LEMMA FailureShown ==
  ASSUME TypeInv, FetchInv, pc = "fetch", \A side \in Side : toSend[side] = <<>>,
         NEW side \in Side, Failed \in ToSet(answers[side])
  PROVE  \E i \in DOMAIN NewRows : NewRows[i].status = "error"
  <1>1. answers[side] \in Seq(Answers) /\ DOMAIN NewRows = 1..Len(answers[side])
    BY AllAnswered
  <1>2. PICK i \in DOMAIN answers[side] : answers[side][i] = Failed
    BY DEF ToSet
  <1>3. i \in DOMAIN NewRows
    BY <1>1, ElementsOf
  <1>4. NewRows[i].status = Status(answers["l1"][i], answers["l2"][i])
    BY <1>3, NewRowsTyped
  <1>5. Status(answers["l1"][i], answers["l2"][i]) = "error"
    BY <1>2 DEF Side, Status
  <1>. QED
    BY <1>3, <1>4, <1>5

LEMMA CutNext == TypeInv /\ FetchInv /\ CountInv /\ CutInv /\ [Next]_vars => CutInv'
  <1>. SUFFICES ASSUME TypeInv, FetchInv, CountInv, CutInv, [Next]_vars,
                       cutShort', pc' # "failed"
                PROVE  \/ errors' > 0
                       \/ InPhases' /\ \E j \in DOMAIN rows' : rows'[j].status = "error"
                       \/ pc' = "fetch" /\ \E side \in Side : Failed \in ToSet(answers'[side])
    BY DEF CutInv
  <1>1. CASE UNCHANGED <<cutShort, pc, errors, rows, answers>>
    BY <1>1 DEF CutInv, InPhases
  <1>2. CASE Start \/ TakeToken \/ EndOfTokens \/ WriteTokenSummary
    BY <1>2 DEF Start, TakeToken, StartPhase, EndOfTokens, WriteTokenSummary, CutInv, InPhases,
                requests, summary
  <1>3. CASE EndPhase
    <2>1. /\ pc = "fetch" /\ InPhases /\ InPhases' /\ cutShort /\ errors' = errors
          /\ rows' = rows \o NewRows /\ \A side \in Side : toSend[side] = <<>>
      <3>1. /\ pc = "fetch" /\ errors' = errors
            /\ rows' = rows \o NewRows /\ \A side \in Side : toSend[side] = <<>>
        BY <1>3 DEF EndPhase, summary
      <3>2. pc' \in {"fetch", "write"} /\ cutShort' = cutShort
        <4>1. CASE phase = "calls"
          BY <1>3, <4>1 DEF EndPhase, StartPhase
        <4>2. CASE phase = "storage"
          BY <1>3, <4>2 DEF EndPhase, StartPhase
        <4>3. CASE phase = "proof"
          BY <1>3, <4>3 DEF EndPhase, requests
        <4>. QED
          BY <4>1, <4>2, <4>3 DEF TypeInv, Phases
      <3>. QED
        BY <3>1, <3>2 DEF InPhases
    <2>2. rows \in Seq(RowsOf(InHand)) /\ NewRows \in Seq(RowsOf(InHand))
      BY <2>1, NewRowsTyped DEF TypeInv
    <2>3. CASE errors > 0
      BY <2>1, <2>3
    <2>4. CASE \E j \in DOMAIN rows : rows[j].status = "error"
      BY <2>1, <2>2, <2>4, RowsKept
    <2>5. CASE \E side \in Side : Failed \in ToSet(answers[side])
      <3>1. PICK i \in DOMAIN NewRows : NewRows[i].status = "error"
        BY <2>1, <2>5, FailureShown
      <3>2. /\ Len(rows) + i \in DOMAIN (rows \o NewRows)
            /\ (rows \o NewRows)[Len(rows) + i] = NewRows[i]
        BY <2>2, RowsKept
      <3>3. \E j \in DOMAIN (rows \o NewRows) : (rows \o NewRows)[j].status = "error"
        BY <3>1, <3>2, Zenon
      <3>. QED
        BY <2>1, <3>3
    <2>. QED
      BY <2>1, <2>3, <2>4, <2>5 DEF CutInv
  <1>4. CASE WriteRows
    <2>1. pc = "write" /\ InPhases /\ cutShort /\ errors' = errors + CountOf("error")
      BY <1>4 DEF WriteRows, requests, InPhases
    <2>2. /\ IsFiniteSet(WithStatus("error")) /\ CountOf("error") = Cardinality(WithStatus("error"))
          /\ CountOf("error") \in Nat /\ errors \in Nat
      BY <2>1, RowsCounted DEF CountInv
    <2>3. errors > 0 \/ WithStatus("error") # {}
      BY <2>1 DEF CutInv, WithStatus
    <2>4. errors > 0 \/ CountOf("error") # 0
      BY <2>2, <2>3, FS_EmptySet
    <2>5. errors + CountOf("error") > 0
      <3>1. \A a, b \in Nat : a > 0 \/ b # 0 => a + b > 0
        OBVIOUS
      <3>. QED
        BY <2>2, <2>4, <3>1, Zenon
    <2>. QED
      BY <2>1, <2>5
  <1>5. ASSUME NEW side \in Side, SendChunk(side)
        PROVE  \/ errors' > 0
               \/ InPhases' /\ \E j \in DOMAIN rows' : rows'[j].status = "error"
               \/ pc' = "fetch" /\ \E s \in Side : Failed \in ToSet(answers'[s])
    <2>1. /\ pc = "fetch" /\ pc' = pc /\ rows' = rows /\ errors' = errors
          /\ cutShort' = (cutShort \/ cancelled)
          /\ \A s \in Side : s # side => answers'[s] = answers[s]
      BY <1>5 DEF SendChunk, summary, TypeInv
    <2>2. PICK chunk \in Seq(AskedOf(InHand)), waiting \in Seq(AskedOf(InHand)),
               results \in Seq(Answers) :
             /\ chunk = FlattenSeq(Chunk(side)) /\ chunk # <<>>
             /\ FlattenSeq(toSend[side]) = chunk \o waiting
             /\ FlattenSeq(toSend'[side]) = waiting
             /\ toSend'[side] \in Seq(Seq(AskedOf(InHand)) \ {<<>>})
             /\ answers'[side] = answers[side] \o results
             /\ Len(results) = Len(chunk)
             /\ \A i \in 1..Len(results) : Answered(side, phase, chunk[i], results[i])
             /\ cancelled => \A i \in 1..Len(results) : results[i] = Failed
      BY <1>5, ChunkSent, Zenon
    <2>3. answers[side] \in Seq(Answers)
      BY <2>1 DEF FetchInv, InStep
    <2>4. CASE cancelled
      <3>1. 1 \in 1..Len(results) /\ DOMAIN results = 1..Len(results)
        BY <2>2
      <3>2. Failed \in ToSet(results)
        BY <2>2, <2>4, <3>1 DEF ToSet
      <3>3. Failed \in ToSet(answers'[side])
        BY <2>2, <2>3, <3>2, ElementsOfBoth
      <3>. QED
        BY <2>1, <3>3
    <2>5. CASE cutShort
      <3>1. CASE errors > 0
        BY <2>1, <3>1
      <3>2. CASE \E j \in DOMAIN rows : rows[j].status = "error"
        BY <2>1, <3>2 DEF InPhases
      <3>3. CASE \E s \in Side : Failed \in ToSet(answers[s])
        <4>1. PICK s \in Side : Failed \in ToSet(answers[s])
          BY <3>3
        <4>2. CASE s = side
          <5>1. Failed \in ToSet(answers'[side])
            BY <2>2, <2>3, <4>1, <4>2, ElementsOfBoth
          <5>. QED
            BY <2>1, <5>1
        <4>3. CASE s # side
          BY <2>1, <4>1, <4>3
        <4>. QED
          BY <4>2, <4>3
      <3>. QED
        BY <2>1, <2>5, <3>1, <3>2, <3>3 DEF CutInv
    <2>. QED
      BY <2>1, <2>4, <2>5
  <1>6. ASSUME NEW side \in Side, NEW v \in DOMAIN atHead[side], NewBlock(side, v)
        PROVE  UNCHANGED <<cutShort, pc, errors, rows, answers>>
    BY <1>6 DEF NewBlock, requests, summary
  <1>7. CASE Cancel \/ UNCHANGED vars
    BY <1>1, <1>7 DEF Cancel, vars, requests, summary
  <1>8. CASE Fail
    BY <1>8 DEF Fail
  <1>. QED
    BY <1>1, <1>2, <1>3, <1>4, <1>5, <1>6, <1>7, <1>8 DEF Next

-----------------------------------------------------------------------------
(* The theorems *)

\* The inductive invariant: what stands in the answers, the rows, the report and
\* the totals at each moment of a run.
THEOREM TokenInvariant == Spec => []TokenInv
  <1>1. Init => TokenInv
    <2>1. Init => TypeInv
      BY TypeInitially
    <2>2. Init => FetchInv /\ RowInv /\ ListInv /\ CutInv
      BY DEF Init, FetchInv, RowInv, ListInv, CutInv, InPhases
    <2>3. Init => CountInv
      <3>. SUFFICES ASSUME Init PROVE CountInv
        OBVIOUS
      <3>1. DOMAIN report = {}
        BY DEF Init
      <3>2. \A s : Places(s) = {}
        BY <3>1 DEF Places
      <3>. QED
        <4>1. IsFiniteSet({}) /\ Cardinality({}) = 0
          BY FS_EmptySet
        <4>2. /\ \A s \in Statuses : IsFiniteSet(Places(s))
              /\ Cardinality(Places("match")) = 0 /\ Cardinality(Places("mismatch")) = 0
              /\ Cardinality(Places("error")) = 0
          BY <3>2, <4>1
        <4>3. checks = 0 /\ matched = 0 /\ mismatched = 0 /\ errors = 0
          BY DEF Init
        <4>. QED
          BY <4>2, <4>3 DEF CountInv
    <2>. QED
      BY <2>1, <2>2, <2>3 DEF TokenInv
  <1>2. TokenInv /\ [Next]_vars => TokenInv'
    BY TypeNext, FetchNext, RowNext, ListNext, CountNext, CutNext DEF TokenInv
  <1>. QED
    BY <1>1, <1>2, PTL DEF Spec

\* At all times each request of the phase has been answered or is waiting, and
\* the report has the tokens before the one in hand (TypeOK).
THEOREM TokenTypeCorrect == Spec => []TypeOK
  <1>1. TokenInv => TypeOK
    <2>. SUFFICES ASSUME TokenInv PROVE TypeOK
      OBVIOUS
    <2>1. position \in 1..Len(Tokens(file)) + 1
      <3>1. Len(Tokens(file)) \in Nat
        BY TokensTyped DEF TokenInv, TypeInv
      <3>2. tokens \in 0..Len(Tokens(file)) /\ position = tokens + 1
        BY DEF TokenInv, TypeInv
      <3>. QED
        BY <3>1, <3>2
    <2>2. ASSUME pc = "fetch", NEW side \in Side
          PROVE  Len(answers[side]) + Len(FlattenSeq(toSend[side]))
                   = Len(FlattenSeq(Requests(InHand, phase)))
      BY <2>2 DEF TokenInv, FetchInv, InStep, Waits, AskedIn
    <2>3. {tokens, checks, matched, mismatched, errors, failures, blocks} \subseteq Nat
      BY DEF TokenInv, TypeInv, CountInv
    <2>4. \A chain \in {atPin, atHead} : chain \in [Side -> [Values(file) -> 0..1]]
      BY DEF TokenInv, TypeInv
    <2>. QED
      BY <2>1, <2>2, <2>3, <2>4 DEF TokenInv, TypeInv, TypeOK
  <1>. QED
    BY <1>1, TokenInvariant, PTL

\* The totals of a run are those of the rows it has written, and a completed
\* run has written those of all tokens.
THEOREM TokenSummaryAddsUp == Spec => []SummaryAddsUp
  <1>1. TokenInv => SummaryAddsUp
    BY DEF TokenInv, TypeInv, CountInv, Places, RowsIn, SummaryAddsUp
  <1>. QED
    BY <1>1, TokenInvariant, PTL

\* At named blocks every mismatch of the report is a difference, whatever blocks
\* arrive and whatever form a word of a proof comes in.
THEOREM TokenMismatchIsReal == Spec => []NoFalseAlarm
  <1>1. TokenInv => NoFalseAlarm
    <2>. SUFFICES ASSUME TokenInv, BothPinned, NEW i \in DOMAIN report, NEW j \in DOMAIN report[i],
                         report[i][j].status = "mismatch"
                  PROVE  Differs(Tokens(file)[i], report[i][j].field)
      BY DEF NoFalseAlarm
    <2>1. i \in 1..tokens
      BY ElementsOf DEF TokenInv, TypeInv
    <2>. QED
      BY <2>1 DEF TokenInv, ListInv, RightRow
  <1>. QED
    BY <1>1, TokenInvariant, PTL

\* A completed run at named blocks without mismatches and errors says that the
\* chains agree in everything the rules ask for, of every token.
THEOREM CleanTokenRunIsEqual == Spec => []CleanRunIsEqual
  <1>1. TokenInv => CleanRunIsEqual
    <2>. SUFFICES ASSUME TokenInv, pc = "done", BothPinned, mismatched = 0, errors = 0,
                         NEW i \in DOMAIN Tokens(file), NEW field \in AskedOf(Tokens(file)[i])
                  PROVE  ~Differs(Tokens(file)[i], field)
      BY DEF CleanRunIsEqual
    <2>1. i \in 1..tokens /\ i \in DOMAIN report
      <3>1. tokens = Len(Tokens(file)) /\ DOMAIN Tokens(file) = 1..Len(Tokens(file))
        BY TokensTyped DEF TokenInv, TypeInv
      <3>2. DOMAIN report = 1..tokens
        BY ElementsOf DEF TokenInv, TypeInv
      <3>. QED
        BY <3>1, <3>2
    <2>2. PICK j \in DOMAIN report[i] : report[i][j].field = field
      BY <2>1 DEF TokenInv, ListInv, Covers
    <2>3. Places("mismatch") = {} /\ Places("error") = {}
      BY FS_EmptySet DEF TokenInv, CountInv, Statuses
    <2>4. report[i][j].status # "mismatch" /\ report[i][j].status # "error"
      <3>1. \A s : report[i][j].status = s => <<i, j>> \in Places(s)
        BY <2>1 DEF Places, RowsIn
      <3>. QED
        BY <2>3, <3>1
    <2>5. report[i][j].status \in Statuses
      <3>1. report[i] \in Seq(AnyRow(file))
        BY <2>1, ElementsOf DEF TokenInv, TypeInv
      <3>2. report[i][j] \in AnyRow(file)
        BY <3>1
      <3>. QED
        BY <3>2 DEF AnyRow, RowsOf
    <2>6. RightRow(Tokens(file)[i], report[i][j])
      BY <2>1 DEF TokenInv, ListInv
    <2>. QED
      BY <2>2, <2>4, <2>5, <2>6 DEF Statuses, RightRow
  <1>. QED
    BY <1>1, TokenInvariant, PTL

\* An interrupted run that completes has counted an error.
THEOREM InterruptedRunIsNotClean == Spec => []CancelledRunIsNotClean
  <1>1. TokenInv => CancelledRunIsNotClean
    BY DEF TokenInv, CutInv, InPhases, CancelledRunIsNotClean
  <1>. QED
    BY <1>1, TokenInvariant, PTL

-----------------------------------------------------------------------------
(* Recursion along a sequence *)

Steps(f, n, b, G) == f[0] = b /\ \A i \in 1..n : f[i] = G[<<i, f[i - 1]>>]

\* A recursion over 0..n has a solution.
LEMMA Recursion ==
  ASSUME NEW A, NEW n \in Nat, NEW b \in A, NEW G \in [(1..n) \X A -> A]
  PROVE  \E f \in [0..n -> A] : Steps(f, n, b, G)
  <1>. DEFINE Good == {m \in 0..n : \E f \in [0..n -> A] : Steps(f, m, b, G)}
  <1>1. 0 \in Good
    <2>. DEFINE f == [i \in 0..n |-> b]
    <2>1. f \in [0..n -> A] /\ f[0] = b /\ 1..0 = {} /\ 0 \in 0..n
      OBVIOUS
    <2>. HIDE DEF f
    <2>2. Steps(f, 0, b, G)
      BY <2>1 DEF Steps
    <2>. QED
      BY <2>1, <2>2
  <1>2. ASSUME NEW m \in Good, m < n PROVE m + 1 \in Good
    <2>1. m \in 0..n /\ m + 1 \in 0..n /\ m + 1 \in 1..n
      BY <1>2
    <2>2. PICK f \in [0..n -> A] : Steps(f, m, b, G)
      OBVIOUS
    <2>. DEFINE x == G[<<m + 1, f[m]>>]
                h == [f EXCEPT ![m + 1] = x]
    <2>3. x \in A
      <3>1. f[m] \in A
        BY <2>1, <2>2
      <3>. QED
        BY <2>1, <3>1
    <2>4. h \in [0..n -> A] /\ h[m + 1] = x /\ \A i \in 0..m : h[i] = f[i]
      <3>. HIDE DEF x
      <3>. QED
        BY <2>1, <2>2, <2>3
    <2>5. ASSUME NEW i \in 1..m + 1 PROVE h[i] = G[<<i, h[i - 1]>>]
      <3>. HIDE DEF h
      <3>1. CASE i = m + 1
        <4>1. i - 1 = m /\ h[i - 1] = f[m]
          BY <2>1, <2>4, <3>1
        <4>. QED
          BY <2>4, <3>1, <4>1
      <3>2. CASE i # m + 1
        <4>1. i \in 1..m /\ i \in 0..m /\ i - 1 \in 0..m
          BY <2>1, <3>2
        <4>2. f[i] = G[<<i, f[i - 1]>>]
          BY <2>2, <4>1 DEF Steps
        <4>. QED
          BY <2>4, <4>1, <4>2
      <3>. QED
        BY <3>1, <3>2
    <2>6. h[0] = b
      BY <2>1, <2>2, <2>4 DEF Steps
    <2>. HIDE DEF h
    <2>7. Steps(h, m + 1, b, G)
      BY <2>5, <2>6 DEF Steps
    <2>. QED
      BY <2>1, <2>4, <2>7
  <1>3. Good = 0..n
    <2>1. Good \in SUBSET (0..n)
      OBVIOUS
    <2>. HIDE DEF Good
    <2>. QED
      BY <1>1, <1>2, <2>1, NumbersUpTo
  <1>4. n \in 0..n
    OBVIOUS
  <1>5. n \in Good
    <2>. HIDE DEF Good
    <2>. QED
      BY <1>3, <1>4
  <1>. QED
    BY <1>5

StepsIn(A, f, n, b, G) ==
  f[0] = b /\ \A i \in 1..n : f[i - 1] \in A => f[i] = G[<<i, f[i - 1]>>]

\* What takes the steps of a recursion is its solution.
LEMMA SameSteps ==
  ASSUME NEW A, NEW n \in Nat, NEW b, NEW G, NEW g \in [0..n -> A], Steps(g, n, b, G),
         NEW f, StepsIn(A, f, n, b, G)
  PROVE  f[n] = g[n]
  <1>. DEFINE Good == {i \in 0..n : f[i] = g[i]}
  <1>1. 0 \in Good
    BY DEF Steps, StepsIn
  <1>2. ASSUME NEW i \in Good, i < n PROVE i + 1 \in Good
    <2>1. i \in 0..n /\ i + 1 \in 1..n /\ i + 1 \in 0..n /\ (i + 1) - 1 = i /\ f[i] = g[i]
      BY <1>2
    <2>2. g[i] \in A
      BY <2>1
    <2>3. f[i + 1] = G[<<i + 1, f[i]>>] /\ g[i + 1] = G[<<i + 1, g[i]>>]
      BY <2>1, <2>2 DEF Steps, StepsIn
    <2>. QED
      BY <2>1, <2>3
  <1>3. Good \in SUBSET (0..n)
    OBVIOUS
  <1>4. Good = 0..n
    <2>. HIDE DEF Good
    <2>. QED
      BY <1>1, <1>2, <1>3, NumbersUpTo
  <1>5. n \in Good
    <2>1. n \in 0..n
      OBVIOUS
    <2>. HIDE DEF Good
    <2>. QED
      BY <1>4, <2>1
  <1>. QED
    BY <1>5

-----------------------------------------------------------------------------
(* The names of a section *)

KeepPiece(name, kept, i) == IF NotSeparator(name[i]) THEN Append(kept, name[i]) ELSE kept

\* The name without separators, as it grows piece by piece.
LEMMA CanonicalSteps ==
  ASSUME NEW S, NEW name \in Seq(S)
  PROVE  \E f \in [0..Len(name) -> Seq(S)] :
           /\ f[0] = <<>> /\ CanonicalSectionName(name) = f[Len(name)]
           /\ \A i \in 1..Len(name) : f[i] = KeepPiece(name, f[i - 1], i)
  <1>. DEFINE n == Len(name)
              A == Seq(S)
              G == [x \in (1..n) \X A |-> KeepPiece(name, x[2], x[1])]
              Rec(f) == [i \in 0..n |-> IF i = 0 THEN <<>>
                                        ELSE IF NotSeparator(name[i])
                                             THEN Append(f[i - 1], name[i]) ELSE f[i - 1]]
              kept == CHOOSE f : f = Rec(f)
  <1>1. n \in Nat /\ <<>> \in A /\ \A i \in 1..n : name[i] \in S
    OBVIOUS
  <1>2. G \in [(1..n) \X A -> A]
    BY <1>1 DEF KeepPiece
  <1>3. \A i \in 1..n : \A y \in A : G[<<i, y>>] = KeepPiece(name, y, i)
    OBVIOUS
  <1>. HIDE DEF n, A, G
  <1>4. PICK g \in [0..n -> A] : Steps(g, n, <<>>, G)
    BY <1>1, <1>2, Recursion
  <1>5. \A i \in 1..n : i - 1 \in 0..n /\ i \in 0..n /\ i # 0
    BY <1>1
  <1>6. \A i \in 1..n : g[i] = KeepPiece(name, g[i - 1], i)
    BY <1>3, <1>4, <1>5 DEF Steps
  <1>7. g = Rec(g)
    <2>1. \A i \in 0..n : i # 0 => i \in 1..n
      BY <1>1
    <2>2. \A i \in 0..n : g[i] = Rec(g)[i]
      BY <1>4, <1>6, <2>1 DEF Steps, KeepPiece
    <2>. QED
      BY <1>4, <2>2
  <1>8. kept = Rec(kept)
    <2>. HIDE DEF Rec
    <2>. QED
      BY <1>7
  <1>9. CanonicalSectionName(name) = kept[n]
    BY DEF CanonicalSectionName, n
  <1>. HIDE DEF kept
  <1>10. kept[0] = <<>>
    <2>1. 0 \in 0..n
      BY <1>1
    <2>. QED
      BY <1>8, <2>1
  <1>11. ASSUME NEW i \in 1..n, kept[i - 1] \in A PROVE kept[i] = G[<<i, kept[i - 1]>>]
    <2>1. kept[i] = Rec(kept)[i]
      BY <1>8
    <2>2. kept[i] = KeepPiece(name, kept[i - 1], i)
      BY <1>5, <2>1 DEF KeepPiece
    <2>. QED
      BY <1>3, <1>11, <2>2
  <1>12. kept[n] = g[n]
    <2>. HIDE DEF Rec
    <2>1. StepsIn(A, kept, n, <<>>, G)
      BY <1>10, <1>11 DEF StepsIn
    <2>. QED
      BY <1>1, <1>4, <2>1, SameSteps
  <1>13. g[0] = <<>>
    BY <1>4 DEF Steps
  <1>. QED
    BY <1>6, <1>9, <1>12, <1>13 DEF n, A
\* A name's segments are sequences of its pieces, whatever has been added.
LEMMA AddPieceTyped ==
  ASSUME NEW S, NEW name \in Seq(S), NEW segments \in Seq(Seq(S)), NEW i \in 1..Len(name)
  PROVE  AddPiece(name, segments, i) \in Seq(Seq(S))
  <1>1. name[i] \in S
    OBVIOUS
  <1>2. Append(segments, <<name[i]>>) \in Seq(Seq(S))
    BY <1>1
  <1>3. [segments EXCEPT ![Len(segments)] = Append(segments[Len(segments)], name[i])] \in Seq(Seq(S))
    <2>1. CASE segments = <<>>
      <3>. DEFINE x == Append(segments[Len(segments)], name[i])
      <3>1. ASSUME NEW y, NEW k PROVE [<<>> EXCEPT ![k] = y] \in Seq(Seq(S))
        <4>1. [<<>> EXCEPT ![k] = y] = [j \in 1..0 |-> IF j = k THEN y ELSE <<>>[j]]
          OBVIOUS
        <4>2. DOMAIN [<<>> EXCEPT ![k] = y] = 1..0 /\ 0 \in Nat /\ 1..0 = {}
          BY <4>1
        <4>. QED
          BY <4>1, <4>2, IsSequence
      <3>. HIDE DEF x
      <3>2. [segments EXCEPT ![Len(segments)] = x] \in Seq(Seq(S))
        BY <2>1, <3>1
      <3>. QED
        BY <3>2 DEF x
    <2>2. CASE segments # <<>>
      <3>1. Len(segments) \in 1..Len(segments)
        BY <2>2
      <3>2. segments[Len(segments)] \in Seq(S)
        BY <3>1
      <3>3. Append(segments[Len(segments)], name[i]) \in Seq(S)
        BY <1>1, <3>2
      <3>. QED
        BY <3>1, <3>3
    <2>. QED
      BY <2>1, <2>2
  <1>. QED
    BY <1>2, <1>3 DEF AddPiece

\* The segments of a name, as they grow piece by piece.
LEMMA SegmentSteps ==
  ASSUME NEW S, NEW name \in Seq(S)
  PROVE  \E f \in [0..Len(name) -> Seq(Seq(S))] :
           /\ f[0] = <<>> /\ FormatTokenType(name) = f[Len(name)]
           /\ \A i \in 1..Len(name) : f[i] = AddPiece(name, f[i - 1], i)
  <1>. DEFINE n == Len(name)
              A == Seq(Seq(S))
              G == [x \in (1..n) \X A |-> AddPiece(name, x[2], x[1])]
              Rec(f) == [i \in 0..n |-> IF i = 0 THEN <<>> ELSE AddPiece(name, f[i - 1], i)]
              segments == CHOOSE f : f = Rec(f)
  <1>1. n \in Nat /\ <<>> \in A
    OBVIOUS
  <1>2. G \in [(1..n) \X A -> A]
    BY AddPieceTyped
  <1>3. \A i \in 1..n : \A y \in A : G[<<i, y>>] = AddPiece(name, y, i)
    OBVIOUS
  <1>4. FormatTokenType(name) = segments[n]
    BY DEF FormatTokenType, n
  <1>. HIDE DEF n, A, G, segments
  <1>5. PICK g \in [0..n -> A] : Steps(g, n, <<>>, G)
    BY <1>1, <1>2, Recursion
  <1>6. \A i \in 1..n : i - 1 \in 0..n /\ i \in 0..n /\ i # 0
    BY <1>1
  <1>7. \A i \in 1..n : g[i] = AddPiece(name, g[i - 1], i)
    BY <1>3, <1>5, <1>6 DEF Steps
  <1>8. g = Rec(g)
    <2>1. \A i \in 0..n : i # 0 => i \in 1..n
      BY <1>1
    <2>2. \A i \in 0..n : g[i] = Rec(g)[i]
      BY <1>5, <1>7, <2>1 DEF Steps
    <2>. QED
      BY <1>5, <2>2
  <1>9. segments = Rec(segments)
    <2>. HIDE DEF Rec
    <2>. QED
      BY <1>8 DEF segments
  <1>10. segments[0] = <<>>
    <2>1. 0 \in 0..n
      BY <1>1
    <2>. QED
      BY <1>9, <2>1
  <1>11. ASSUME NEW i \in 1..n, segments[i - 1] \in A
         PROVE  segments[i] = G[<<i, segments[i - 1]>>]
    <2>1. segments[i] = Rec(segments)[i]
      BY <1>9
    <2>2. segments[i] = AddPiece(name, segments[i - 1], i)
      BY <1>6, <2>1
    <2>. QED
      BY <1>3, <1>11, <2>2
  <1>12. segments[n] = g[n]
    <2>. HIDE DEF Rec
    <2>1. StepsIn(A, segments, n, <<>>, G)
      BY <1>10, <1>11 DEF StepsIn
    <2>. QED
      BY <1>1, <1>5, <2>1, SameSteps
  <1>13. g[0] = <<>>
    BY <1>5 DEF Steps
  <1>. QED
    BY <1>4, <1>7, <1>12, <1>13 DEF n, A
LEMMA KindOfSeparator ==
  ASSUME NEW piece
  PROVE  Kind(piece) = "separator" <=> ~NotSeparator(piece)
  BY DEF Kind, NotSeparator, Separator, Unsupported, Digits

\* FlattenSeq of a single sequence is that sequence.
LEMMA FlattenOne ==
  ASSUME NEW S, NEW a \in Seq(S)
  PROVE  FlattenSeq(<<a>>) = a
  <1>1. <<a>> \in Seq(Seq(S)) /\ Len(<<a>>) = 1 /\ 0 \in 0..1 /\ 1 \in 1..1 /\ <<a>>[1] = a
    OBVIOUS
  <1>2. PICK g \in [0..1 -> Seq(S)] : Joins(<<a>>, 1, g) /\ FlattenSeq(<<a>>) = g[1]
    BY <1>1, FlattenSolved
  <1>3. g[0] = <<>> /\ g[1] = g[0] \o a
    BY <1>1, <1>2 DEF Joins
  <1>. QED
    BY <1>2, <1>3, Concatenated

EndsIn(T, s, y, front) ==
  /\ s[Len(s)] \in T /\ s = front \o <<s[Len(s)]>>
  /\ [s EXCEPT ![Len(s)] = y] = front \o <<y>>

\* A sequence that is not empty ends in its last element.
LEMMA FrontAndLast ==
  ASSUME NEW T, NEW s \in Seq(T), s # <<>>, NEW y \in T
  PROVE  \E front \in Seq(T) : EndsIn(T, s, y, front)
  <1>. DEFINE m == Len(s)
              front == SubSeq(s, 1, m - 1)
              other == [s EXCEPT ![m] = y]
  <1>1. m \in Nat /\ m >= 1 /\ DOMAIN s = 1..m /\ m \in 1..m /\ s[m] \in T
    OBVIOUS
  <1>2. /\ front \in Seq(T) /\ Len(front) = m - 1
        /\ \A i \in 1..m - 1 : front[i] = s[i]
    BY <1>1
  <1>3. other \in Seq(T) /\ Len(other) = m /\ other[m] = y /\ \A i \in 1..m - 1 : other[i] = s[i]
    <2>1. other \in Seq(T) /\ Len(other) = m
      OBVIOUS
    <2>. HIDE DEF m
    <2>2. \A i \in 1..m - 1 : i \in 1..m /\ i # m
      BY <1>1
    <2>3. other[m] = y /\ \A i \in 1..m - 1 : other[i] = s[i]
      BY <1>1, <2>2
    <2>. QED
      BY <2>1, <2>3
  <1>. HIDE DEF front, other, m
  <1>4. ASSUME NEW t \in Seq(T), Len(t) = m, \A i \in 1..m - 1 : t[i] = s[i]
        PROVE  t = front \o <<t[m]>>
    <2>. DEFINE both == front \o <<t[m]>>
    <2>1. t[m] \in T
      BY <1>1, <1>4
    <2>2. <<t[m]>> \in Seq(T) /\ Len(<<t[m]>>) = 1 /\ <<t[m]>>[1] = t[m]
      BY <2>1
    <2>3. /\ both \in Seq(T) /\ Len(both) = m
          /\ \A i \in 1..m - 1 : both[i] = front[i]
          /\ both[m] = t[m]
      BY <1>1, <1>2, <2>2
    <2>. HIDE DEF both
    <2>4. \A i \in 1..m : both[i] = t[i]
      <3>1. \A i \in 1..m : i = m \/ i \in 1..m - 1
        BY <1>1
      <3>. QED
        BY <1>2, <1>4, <2>3, <3>1
    <2>5. both = t
      BY <1>1, <1>4, <2>3, <2>4
    <2>. QED
      BY <2>5 DEF both
  <1>5. s = front \o <<s[m]>>
    BY <1>1, <1>4 DEF m
  <1>6. other = front \o <<y>>
    BY <1>3, <1>4
  <1>. QED
    BY <1>1, <1>2, <1>5, <1>6 DEF m, other, EndsIn

\* Appending is joining a single element.
LEMMA AppendJoins ==
  ASSUME NEW T, NEW s \in Seq(T), NEW x \in T
  PROVE  Append(s, x) = s \o <<x>> /\ Append(s, x) # <<>> /\ Append(s, x) \in Seq(T)
  OBVIOUS

AppendsTo(a, b, x) == a \o Append(b, x) = Append(a \o b, x)

LEMMA AppendToJoined ==
  ASSUME NEW T, NEW a \in Seq(T), NEW b \in Seq(T), NEW x \in T
  PROVE  AppendsTo(a, b, x)
  BY DEF AppendsTo

\* FlattenSeq of a sequence with one sequence more.
LEMMA FlattenMore ==
  ASSUME NEW S, NEW front \in Seq(Seq(S)), NEW a \in Seq(S)
  PROVE  FlattenSeq(front \o <<a>>) = FlattenSeq(front) \o a
  <1>1. <<a>> \in Seq(Seq(S)) /\ FlattenSeq(<<a>>) = a
    BY FlattenOne
  <1>2. FlattenSeq(front \o <<a>>) = FlattenSeq(front) \o FlattenSeq(<<a>>)
    BY <1>1, FlattenBoth
  <1>. QED
    BY <1>1, <1>2

\* Adding a piece to the segments keeps it in the name they make together.
LEMMA AddPieceJoins ==
  ASSUME NEW S, NEW name \in Seq(S), NEW segments \in Seq(Seq(S)), NEW i \in 1..Len(name),
         i > 1 /\ NotSeparator(name[i - 1]) => segments # <<>>
  PROVE  /\ FlattenSeq(AddPiece(name, segments, i)) = KeepPiece(name, FlattenSeq(segments), i)
         /\ NotSeparator(name[i]) => AddPiece(name, segments, i) # <<>>
  <1>. DEFINE x == name[i]
              flat == FlattenSeq(segments)
  <1>1. x \in S /\ flat \in Seq(S)
    BY FlattenTyped
  <1>2. CASE ~NotSeparator(x)
    BY <1>2, KindOfSeparator DEF AddPiece, KeepPiece
  <1>3. CASE NotSeparator(x) /\ i > 1 /\ Kind(name[i]) = Kind(name[i - 1])
    <2>. DEFINE last == segments[Len(segments)]
                more == Append(last, x)
    <2>1. segments # <<>>
      BY <1>3, KindOfSeparator
    <2>2. last \in Seq(S)
      BY <2>1
    <2>3. more \in Seq(S)
      BY <1>1, <2>2
    <2>4. AddPiece(name, segments, i) = [segments EXCEPT ![Len(segments)] = more]
      BY <1>3, KindOfSeparator DEF AddPiece
    <2>. HIDE DEF more, last
    <2>5. PICK front \in Seq(Seq(S)) :
            /\ segments = front \o <<last>>
            /\ [segments EXCEPT ![Len(segments)] = more] = front \o <<more>>
      <3>. DEFINE T == Seq(S)
      <3>1. segments \in Seq(T) /\ segments # <<>> /\ more \in T
        BY <2>1, <2>3
      <3>. HIDE DEF T
      <3>2. PICK front \in Seq(T) : EndsIn(T, segments, more, front)
        BY <3>1, FrontAndLast
      <3>. QED
        BY <3>2 DEF T, last, EndsIn
    <2>6. flat = FlattenSeq(front) \o last
      <3>1. FlattenSeq(front \o <<last>>) = FlattenSeq(front) \o last
        BY <2>2, FlattenMore
      <3>. QED
        BY <2>5, <3>1
    <2>7. FlattenSeq(front \o <<more>>) = FlattenSeq(front) \o more
      BY <2>3, FlattenMore
    <2>8. FlattenSeq(front) \o more = Append(flat, x)
      <3>. DEFINE first == FlattenSeq(front)
      <3>1. first \in Seq(S)
        BY FlattenTyped
      <3>. HIDE DEF flat, x, first
      <3>2. AppendsTo(first, last, x)
        BY <1>1, <2>2, <3>1, AppendToJoined
      <3>3. flat = first \o last
        BY <2>6 DEF first
      <3>4. first \o more = Append(flat, x)
        BY <3>2, <3>3 DEF more, AppendsTo
      <3>. QED
        BY <3>4 DEF first
    <2>9. front \o <<more>> # <<>>
      <3>. DEFINE T == Seq(S)
      <3>1. front \in Seq(T) /\ more \in T
        BY <2>3
      <3>. HIDE DEF T
      <3>2. Append(front, more) = front \o <<more>> /\ Append(front, more) # <<>>
        BY <3>1, AppendJoins
      <3>. QED
        BY <3>2
    <2>. QED
      BY <1>3, <2>4, <2>5, <2>7, <2>8, <2>9 DEF KeepPiece
  <1>4. CASE NotSeparator(x) /\ ~(i > 1 /\ Kind(name[i]) = Kind(name[i - 1]))
    <2>1. AddPiece(name, segments, i) = Append(segments, <<x>>)
      BY <1>4, KindOfSeparator DEF AddPiece
    <2>2. <<x>> \in Seq(S) /\ <<<<x>>>> \in Seq(Seq(S))
      BY <1>1
    <2>. DEFINE y == <<x>>
    <2>3. Append(segments, y) = segments \o <<y>> /\ Append(segments, y) # <<>>
      <3>. DEFINE T == Seq(S)
      <3>1. segments \in Seq(T) /\ y \in T
        BY <2>2
      <3>. HIDE DEF T, y
      <3>. QED
        BY <3>1, AppendJoins
    <2>4. FlattenSeq(segments \o <<y>>) = flat \o y
      <3>1. y \in Seq(S)
        BY <2>2
      <3>. HIDE DEF y
      <3>. QED
        BY <3>1, FlattenMore
    <2>5. flat \o <<x>> = Append(flat, x)
      <3>. HIDE DEF flat, x
      <3>. QED
        BY <1>1, AppendJoins
    <2>. QED
      BY <1>4, <2>1, <2>3, <2>4, <2>5 DEF KeepPiece
  <1>. QED
    BY <1>2, <1>3, <1>4

\* The segments of a name are those of its canonical form: put together they
\* are the name without its separators.
LEMMA SegmentsJoin ==
  ASSUME NEW S, NEW name \in Seq(S)
  PROVE  FlattenSeq(FormatTokenType(name)) = CanonicalSectionName(name)
  <1>. DEFINE n == Len(name)
  <1>1. PICK f \in [0..n -> Seq(S)] :
          /\ f[0] = <<>> /\ CanonicalSectionName(name) = f[n]
          /\ \A i \in 1..n : f[i] = KeepPiece(name, f[i - 1], i)
    BY CanonicalSteps
  <1>2. PICK g \in [0..n -> Seq(Seq(S))] :
          /\ g[0] = <<>> /\ FormatTokenType(name) = g[n]
          /\ \A i \in 1..n : g[i] = AddPiece(name, g[i - 1], i)
    BY SegmentSteps
  <1>. DEFINE Same(i) == FlattenSeq(g[i]) = f[i] /\ (i > 0 /\ NotSeparator(name[i]) => g[i] # <<>>)
              Good == {i \in 0..n : Same(i)}
  <1>3. n \in Nat
    OBVIOUS
  <1>4. 0 \in Good
    BY <1>1, <1>2, FlattenEmpty
  <1>5. ASSUME NEW i \in Good, i < n PROVE i + 1 \in Good
    <2>1. i \in 0..n /\ i + 1 \in 1..n /\ i + 1 \in 0..n /\ (i + 1) - 1 = i /\ Same(i)
      BY <1>3, <1>5
    <2>2. f[i + 1] = KeepPiece(name, f[i], i + 1) /\ g[i + 1] = AddPiece(name, g[i], i + 1)
      BY <1>1, <1>2, <2>1
    <2>3. i + 1 > 1 /\ NotSeparator(name[(i + 1) - 1]) => g[i] # <<>>
      BY <1>3, <2>1
    <2>4. g[i] \in Seq(Seq(S))
      BY <2>1
    <2>. HIDE DEF Good
    <2>5. /\ FlattenSeq(AddPiece(name, g[i], i + 1)) = KeepPiece(name, FlattenSeq(g[i]), i + 1)
          /\ NotSeparator(name[i + 1]) => AddPiece(name, g[i], i + 1) # <<>>
      BY <2>1, <2>3, <2>4, AddPieceJoins
    <2>. QED
      BY <2>1, <2>2, <2>5 DEF Good
  <1>6. Good \in SUBSET (0..n)
    OBVIOUS
  <1>7. n \in Good
    <2>1. n \in 0..n
      BY <1>3
    <2>. HIDE DEF Good, n
    <2>. QED
      BY <1>3, <1>4, <1>5, <1>6, <2>1, NumbersUpTo
  <1>. QED
    BY <1>1, <1>2, <1>7
-----------------------------------------------------------------------------
(* The targets *)

\* What targets may be while they are built, of addresses in D and types in T.
Built(D, T) == [ok : BOOLEAN, types : UNION {[E -> T] : E \in SUBSET D}]

Target(D, T) == [address : D, type : T]

\* A target that is added keeps those before it and has its own type.
LEMMA AddTargetHolds ==
  ASSUME NEW D, NEW T, NEW acc \in Built(D, T), NEW entry \in Target(D, T)
  PROVE  LET after == AddTarget(acc, entry)
         IN  /\ after \in Built(D, T)
             /\ after.ok => /\ acc.ok
                            /\ DOMAIN after.types = DOMAIN acc.types \cup {entry.address}
                            /\ \A a \in DOMAIN acc.types : after.types[a] = acc.types[a]
                            /\ after.types[entry.address] = entry.type
  <1>. DEFINE after == AddTarget(acc, entry)
  <1>1. PICK E \in SUBSET D : acc.types \in [E -> T]
    BY DEF Built
  <1>2. /\ acc = [ok |-> acc.ok, types |-> acc.types] /\ acc.ok \in BOOLEAN
        /\ entry.address \in D /\ entry.type \in T
    BY DEF Built, Target
  <1>3. CASE ~acc.ok \/ entry.address = Malformed
    <2>1. after = [ok |-> FALSE, types |-> acc.types]
      BY <1>2, <1>3 DEF AddTarget
    <2>. QED
      BY <1>1, <2>1 DEF Built
  <1>4. CASE acc.ok /\ entry.address # Malformed /\ entry.address \notin DOMAIN acc.types
    <2>. DEFINE more == [a \in E \cup {entry.address} |->
                           IF a \in E THEN acc.types[a] ELSE entry.type]
    <2>1. after = [ok |-> acc.ok, types |-> more]
      BY <1>1, <1>2, <1>4 DEF AddTarget
    <2>2. more \in [E \cup {entry.address} -> T] /\ E \cup {entry.address} \in SUBSET D
      BY <1>1, <1>2
    <2>3. /\ DOMAIN more = E \cup {entry.address}
          /\ \A a \in E : more[a] = acc.types[a]
          /\ more[entry.address] = entry.type
      BY <1>1, <1>4
    <2>. HIDE DEF more
    <2>. QED
      BY <1>1, <1>2, <1>4, <2>1, <2>2, <2>3 DEF Built
  <1>5. CASE /\ acc.ok /\ entry.address # Malformed /\ entry.address \in DOMAIN acc.types
             /\ acc.types[entry.address] # entry.type
    <2>1. after = [ok |-> FALSE, types |-> acc.types]
      BY <1>2, <1>5 DEF AddTarget
    <2>. QED
      BY <1>1, <2>1 DEF Built
  <1>6. CASE /\ acc.ok /\ entry.address # Malformed /\ entry.address \in DOMAIN acc.types
             /\ acc.types[entry.address] = entry.type
    <2>1. after = acc
      BY <1>2, <1>6 DEF AddTarget
    <2>. QED
      BY <1>6, <2>1
  <1>. QED
    BY <1>3, <1>4, <1>5, <1>6

\* The targets, as they grow entry by entry.
LEMMA TargetSteps ==
  ASSUME NEW D, NEW T, NEW config, NEW listed \in Seq(Target(D, T)), listed = Listed(config)
  PROVE  \E f \in [0..Len(listed) -> Built(D, T)] :
           /\ f[0] = NoTarget
           /\ BuildTargets(config).types = f[Len(listed)].types
           /\ BuildTargets(config).ok => f[Len(listed)].ok
           /\ \A i \in 1..Len(listed) : f[i] = AddTarget(f[i - 1], listed[i])
  <1>. DEFINE n == Len(listed)
              A == Built(D, T)
              G == [x \in (1..n) \X A |-> AddTarget(x[2], listed[x[1]])]
              Rec(f) == [i \in 0..n |-> IF i = 0 THEN NoTarget ELSE AddTarget(f[i - 1], listed[i])]
              built == CHOOSE f : f = Rec(f)
              full == built[n]
  <1>1. n \in Nat /\ \A i \in 1..n : listed[i] \in Target(D, T)
    OBVIOUS
  <1>2. NoTarget \in A
    <2>1. [a \in {} |-> <<>>] \in [{} -> T] /\ {} \in SUBSET D
      OBVIOUS
    <2>. QED
      BY <2>1 DEF NoTarget, Built
  <1>3. G \in [(1..n) \X A -> A]
    BY <1>1, AddTargetHolds
  <1>4. \A i \in 1..n : \A y \in A : G[<<i, y>>] = AddTarget(y, listed[i])
    OBVIOUS
  <1>5. BuildTargets(config) = [full EXCEPT !.ok = full.ok /\ \A i \in DOMAIN config : HasTokenType(config[i].name)]
    BY DEF BuildTargets
  <1>. HIDE DEF n, A, G, built
  <1>6. PICK g \in [0..n -> A] : Steps(g, n, NoTarget, G)
    BY <1>1, <1>2, <1>3, Recursion
  <1>7. \A i \in 1..n : i - 1 \in 0..n /\ i \in 0..n /\ i # 0
    BY <1>1
  <1>8. \A i \in 1..n : g[i] = AddTarget(g[i - 1], listed[i])
    BY <1>4, <1>6, <1>7 DEF Steps
  <1>9. g = Rec(g)
    <2>1. \A i \in 0..n : i # 0 => i \in 1..n
      BY <1>1
    <2>2. \A i \in 0..n : g[i] = Rec(g)[i]
      BY <1>6, <1>8, <2>1 DEF Steps
    <2>. QED
      BY <1>6, <2>2
  <1>10. built = Rec(built)
    <2>. HIDE DEF Rec
    <2>. QED
      BY <1>9 DEF built
  <1>11. built[0] = NoTarget
    <2>1. 0 \in 0..n
      BY <1>1
    <2>. QED
      BY <1>10, <2>1
  <1>12. ASSUME NEW i \in 1..n, built[i - 1] \in A
         PROVE  built[i] = G[<<i, built[i - 1]>>]
    <2>1. built[i] = Rec(built)[i]
      BY <1>10
    <2>2. built[i] = AddTarget(built[i - 1], listed[i])
      BY <1>7, <2>1
    <2>. QED
      BY <1>4, <1>12, <2>2
  <1>13. full = g[n]
    <2>. HIDE DEF Rec
    <2>1. StepsIn(A, built, n, NoTarget, G)
      BY <1>11, <1>12 DEF StepsIn
    <2>. QED
      BY <1>1, <1>6, <2>1, SameSteps
  <1>14. g[n] \in A /\ g[0] = NoTarget
    BY <1>1, <1>6 DEF Steps
  <1>15. full = [ok |-> full.ok, types |-> full.types] /\ full.ok \in BOOLEAN
    BY <1>13, <1>14 DEF A, Built
  <1>16. BuildTargets(config).types = g[n].types /\ (BuildTargets(config).ok => g[n].ok)
    <2>. HIDE DEF full
    <2>. QED
      BY <1>5, <1>13, <1>15
  <1>. QED
    BY <1>8, <1>14, <1>16 DEF n, A

\* The targets of an accepted file are the entries listed, each of its type.
LEMMA TargetsHold ==
  ASSUME NEW D, NEW T, NEW config, NEW listed \in Seq(Target(D, T)), listed = Listed(config),
         BuildTargets(config).ok
  PROVE  LET types == BuildTargets(config).types
         IN  /\ DOMAIN types = {listed[i].address : i \in 1..Len(listed)}
             /\ \A i \in 1..Len(listed) : types[listed[i].address] = listed[i].type
  <1>. DEFINE n == Len(listed)
              A == Built(D, T)
  <1>1. PICK f \in [0..n -> A] :
          /\ f[0] = NoTarget /\ BuildTargets(config).types = f[n].types
          /\ BuildTargets(config).ok => f[n].ok
          /\ \A i \in 1..n : f[i] = AddTarget(f[i - 1], listed[i])
    BY TargetSteps
  <1>2. n \in Nat /\ \A i \in 1..n : listed[i] \in Target(D, T)
    OBVIOUS
  <1>. DEFINE Holds(i) == f[i].ok =>
                /\ DOMAIN f[i].types = {listed[j].address : j \in 1..i}
                /\ \A j \in 1..i : f[i].types[listed[j].address] = listed[j].type
              Good == {i \in 0..n : Holds(i)}
  <1>. HIDE DEF A, n
  <1>3. 0 \in Good
    <2>1. 0 \in 0..n /\ 1..0 = {} /\ DOMAIN f[0].types = {}
      BY <1>1, <1>2 DEF NoTarget
    <2>. QED
      BY <2>1
  <1>4. ASSUME NEW i \in Good, i < n PROVE i + 1 \in Good
    <2>. DEFINE entry == listed[i + 1]
                acc == f[i]
                after == f[i + 1]
    <2>1. i \in 0..n /\ i + 1 \in 1..n /\ i + 1 \in 0..n /\ (i + 1) - 1 = i /\ Holds(i)
      BY <1>2, <1>4
    <2>2. /\ \A j \in 1..i + 1 : j = i + 1 \/ j \in 1..i
          /\ \A j \in 1..i : j \in 1..i + 1
          /\ i + 1 \in 1..i + 1
      BY <1>2, <2>1
    <2>3. acc \in Built(D, T) /\ entry \in Target(D, T) /\ after = AddTarget(acc, entry)
      BY <1>1, <1>2, <2>1 DEF A
    <2>. HIDE DEF Good
    <2>4. after.ok => /\ acc.ok
                      /\ DOMAIN after.types = DOMAIN acc.types \cup {entry.address}
                      /\ \A a \in DOMAIN acc.types : after.types[a] = acc.types[a]
                      /\ after.types[entry.address] = entry.type
      <3>. HIDE DEF acc, entry, after, Holds
      <3>. QED
        BY <2>3, AddTargetHolds
    <2>5. ASSUME after.ok
          PROVE  /\ DOMAIN after.types = {listed[j].address : j \in 1..i + 1}
                 /\ \A j \in 1..i + 1 : after.types[listed[j].address] = listed[j].type
      <3>1. /\ DOMAIN acc.types = {listed[j].address : j \in 1..i}
            /\ \A j \in 1..i : acc.types[listed[j].address] = listed[j].type
        BY <2>1, <2>4, <2>5
      <3>2. /\ DOMAIN after.types = DOMAIN acc.types \cup {entry.address}
            /\ \A a \in DOMAIN acc.types : after.types[a] = acc.types[a]
            /\ after.types[entry.address] = entry.type
        BY <2>4, <2>5
      <3>3. {listed[j].address : j \in 1..i + 1}
              = {listed[j].address : j \in 1..i} \cup {listed[i + 1].address}
        BY <2>2
      <3>4. \A j \in 1..i : after.types[listed[j].address] = listed[j].type
        <4>. HIDE DEF acc, after, entry
        <4>. QED
          BY <3>1, <3>2
      <3>. QED
        BY <2>2, <3>1, <3>2, <3>3, <3>4
    <2>6. Holds(i + 1)
      BY <2>5
    <2>. QED
      BY <2>1, <2>6 DEF Good
  <1>5. Good \in SUBSET (0..n)
    OBVIOUS
  <1>6. n \in Good
    <2>1. n \in 0..n
      BY <1>2
    <2>. HIDE DEF Good
    <2>. QED
      BY <1>2, <1>3, <1>4, <1>5, <2>1, NumbersUpTo
  <1>7. Holds(n)
    BY <1>6
  <1>. QED
    BY <1>1, <1>7 DEF n

-----------------------------------------------------------------------------
(* The two readers *)

Addresses(f) == {entry.address : entry \in EntriesIn(f)}
Types(f) == {FormatTokenType(f[i].name) : i \in DOMAIN f}

TargetOf(f, i, j) ==
  [address |-> f[i].entries[j].address, type |-> FormatTokenType(f[i].name)]

\* What tokensync lists: each entry of each section with the section's type.
LEMMA ListedElements ==
  ASSUME NEW f, IsConfig(f)
  PROVE  /\ Listed(f) \in Seq(Target(Addresses(f), Types(f)))
         /\ \A x : x \in ToSet(Listed(f)) <=>
                    \E i \in DOMAIN f : \E j \in DOMAIN f[i].entries : x = TargetOf(f, i, j)
  <1>. DEFINE T == Target(Addresses(f), Types(f))
              part(i) == [j \in DOMAIN f[i].entries |-> TargetOf(f, i, j)]
              parts == [i \in DOMAIN f |-> part(i)]
  <1>1. DOMAIN f = 1..Len(f) /\ Len(f) \in Nat
    BY ListDomain DEF IsConfig
  <1>2. ASSUME NEW i \in DOMAIN f
        PROVE  /\ part(i) \in Seq(T)
               /\ \A x : x \in ToSet(part(i)) <=> \E j \in DOMAIN f[i].entries : x = TargetOf(f, i, j)
    <2>. DEFINE entries == f[i].entries
                p == part(i)
    <2>1. DOMAIN entries = 1..Len(entries) /\ Len(entries) \in Nat
      BY ListDomain DEF IsConfig
    <2>2. ASSUME NEW j \in DOMAIN entries PROVE TargetOf(f, i, j) \in T
      BY DEF Target, TargetOf, Addresses, Types, EntriesIn, ToSet
    <2>3. DOMAIN p = DOMAIN entries /\ \A j \in DOMAIN entries : p[j] = TargetOf(f, i, j)
      OBVIOUS
    <2>4. p = [j \in 1..Len(entries) |-> p[j]]
      BY <2>1, <2>3
    <2>. HIDE DEF T, p, entries
    <2>5. p \in Seq(T)
      BY <2>1, <2>2, <2>3, <2>4, IsSequence
    <2>6. \A x : x \in ToSet(p) <=> \E j \in DOMAIN entries : x = TargetOf(f, i, j)
      BY <2>3 DEF ToSet
    <2>. QED
      BY <2>5, <2>6 DEF p, entries
  <1>3. parts \in Seq(Seq(T))
    <2>. HIDE DEF part, T
    <2>. QED
      BY <1>1, <1>2, IsSequence
  <1>4. Listed(f) = FlattenSeq(parts)
    BY DEF Listed, TargetOf
  <1>. HIDE DEF T
  <1>5. Listed(f) \in Seq(T)
    <2>. HIDE DEF parts
    <2>. QED
      BY <1>3, <1>4, FlattenTyped
  <1>6. ASSUME NEW x
        PROVE  x \in ToSet(Listed(f)) <=> \E i \in DOMAIN parts : x \in ToSet(parts[i])
    <2>. HIDE DEF parts
    <2>. QED
      BY <1>3, <1>4, FlattenElements
  <1>7. DOMAIN parts = DOMAIN f /\ \A i \in DOMAIN f : parts[i] = part(i)
    OBVIOUS
  <1>. HIDE DEF parts, part
  <1>. QED
    BY <1>2, <1>5, <1>6, <1>7 DEF T, part

\* What tokenrecon reads: the entries of the sections with the canonical name.
LEMMA EntriesElements ==
  ASSUME NEW f, IsConfig(f), NEW canonical, NEW x
  PROVE  x \in ToSet(EntriesOf(f, canonical)) <=>
           \E i \in DOMAIN f : /\ CanonicalSectionName(f[i].name) = canonical
                              /\ x \in ToSet(f[i].entries)
  <1>. DEFINE parts == Parts(f, canonical)
  <1>1. x \in ToSet(EntriesOf(f, canonical)) <=> \E i \in DOMAIN parts : x \in ToSet(parts[i])
    BY PartsTyped, FlattenElements
  <1>2. ToSet(<<>>) = {}
    BY DEF ToSet
  <1>. QED
    BY <1>1, <1>2 DEF Parts

AddressesOf(entries) == {entries[i].address : i \in DOMAIN entries}

TypedAs(types, canonical) == {a \in DOMAIN types : FlattenSeq(types[a]) = canonical}

\* What tokenrecon reads under a name are the targets whose type is the name's.
LEMMA SameTokens ==
  ASSUME NEW f, IsConfig(f), BuildTargets(f).ok, NEW canonical
  PROVE  AddressesOf(EntriesOf(f, canonical)) = TypedAs(BuildTargets(f).types, canonical)
  <1>. DEFINE listed == Listed(f)
              types == BuildTargets(f).types
              read == EntriesOf(f, canonical)
  <1>1. listed \in Seq(Target(Addresses(f), Types(f)))
    BY ListedElements
  <1>2. /\ DOMAIN types = {listed[i].address : i \in 1..Len(listed)}
        /\ \A i \in 1..Len(listed) : types[listed[i].address] = listed[i].type
    <2>. HIDE DEF types
    <2>. QED
      BY <1>1, TargetsHold DEF types
  <1>3. DOMAIN listed = 1..Len(listed)
    BY <1>1
  <1>4. \A i \in DOMAIN f : FlattenSeq(FormatTokenType(f[i].name)) = CanonicalSectionName(f[i].name)
    <2>1. \A i \in DOMAIN f : f[i].name \in Seq(ToSet(f[i].name))
      BY DEF IsConfig, IsList
    <2>. QED
      BY <2>1, SegmentsJoin
  <1>5. \A i \in DOMAIN f : \A j \in DOMAIN f[i].entries :
          \E k \in 1..Len(listed) : listed[k] = TargetOf(f, i, j)
    <2>. SUFFICES ASSUME NEW i \in DOMAIN f, NEW j \in DOMAIN f[i].entries
                  PROVE  \E k \in 1..Len(listed) : listed[k] = TargetOf(f, i, j)
      OBVIOUS
    <2>1. TargetOf(f, i, j) \in ToSet(listed)
      BY ListedElements
    <2>. HIDE DEF listed
    <2>. QED
      BY <1>3, <2>1 DEF ToSet
  <1>6. \A k \in 1..Len(listed) :
          \E i \in DOMAIN f : \E j \in DOMAIN f[i].entries : listed[k] = TargetOf(f, i, j)
    <2>. SUFFICES ASSUME NEW k \in 1..Len(listed)
                  PROVE  \E i \in DOMAIN f : \E j \in DOMAIN f[i].entries : listed[k] = TargetOf(f, i, j)
      OBVIOUS
    <2>1. listed[k] \in ToSet(listed)
      <3>. HIDE DEF listed
      <3>. QED
        BY <1>3 DEF ToSet
    <2>. QED
      BY <2>1, ListedElements
  <1>7. \A x : x \in ToSet(read) <=>
           \E i \in DOMAIN f : /\ CanonicalSectionName(f[i].name) = canonical
                              /\ x \in ToSet(f[i].entries)
    BY EntriesElements
  <1>8. AddressesOf(read) = {x.address : x \in ToSet(read)}
    BY DEF AddressesOf, ToSet
  <1>. HIDE DEF listed, types, read
  <1>9. ASSUME NEW a \in AddressesOf(read) PROVE a \in TypedAs(types, canonical)
    <2>1. PICK x \in ToSet(read) : a = x.address
      BY <1>8
    <2>2. PICK i \in DOMAIN f : CanonicalSectionName(f[i].name) = canonical /\ x \in ToSet(f[i].entries)
      BY <1>7, <2>1
    <2>3. PICK j \in DOMAIN f[i].entries : x = f[i].entries[j]
      BY <2>2 DEF ToSet
    <2>4. PICK k \in 1..Len(listed) : listed[k] = TargetOf(f, i, j)
      BY <1>5
    <2>5. listed[k].address = a /\ listed[k].type = FormatTokenType(f[i].name)
      BY <2>1, <2>3, <2>4 DEF TargetOf
    <2>6. a \in DOMAIN types /\ types[a] = FormatTokenType(f[i].name)
      BY <1>2, <2>5
    <2>. QED
      BY <1>4, <2>2, <2>6 DEF TypedAs
  <1>10. ASSUME NEW a \in TypedAs(types, canonical) PROVE a \in AddressesOf(read)
    <2>1. a \in DOMAIN types /\ FlattenSeq(types[a]) = canonical
      BY DEF TypedAs
    <2>2. PICK k \in 1..Len(listed) : listed[k].address = a
      BY <1>2, <2>1
    <2>3. types[a] = listed[k].type
      BY <1>2, <2>2
    <2>4. PICK i \in DOMAIN f : \E j \in DOMAIN f[i].entries : listed[k] = TargetOf(f, i, j)
      BY <1>6
    <2>5. PICK j \in DOMAIN f[i].entries : listed[k] = TargetOf(f, i, j)
      BY <2>4
    <2>6. f[i].entries[j].address = a /\ types[a] = FormatTokenType(f[i].name)
      BY <2>2, <2>3, <2>5 DEF TargetOf
    <2>7. CanonicalSectionName(f[i].name) = canonical
      BY <1>4, <2>1, <2>6
    <2>8. f[i].entries[j] \in ToSet(f[i].entries)
      BY DEF ToSet
    <2>. QED
      BY <1>7, <1>8, <2>6, <2>7, <2>8
  <1>11. AddressesOf(read) = TypedAs(types, canonical)
    BY <1>9, <1>10
  <1>. QED
    BY <1>11 DEF read, types

\* tokenrecon and tokensync take the same tokens from a file that tokensync
\* accepts, however its sections are spelled and split.
THEOREM TokenReadersAgree == Spec => []ConfigReadersAgree
  <1>1. ASSUME NEW f, IsConfig(f) PROVE ReadersAgree(f)
    <2>1. BuildTargets(f).ok => /\ AddressesOf(ERC20(f)) = TypedAs(BuildTargets(f).types, Erc20Name)
                               /\ AddressesOf(ERC721(f)) = TypedAs(BuildTargets(f).types, Erc721Name)
      BY <1>1, SameTokens DEF ERC20, ERC721
    <2>. QED
      BY <2>1 DEF ReadersAgree, AddressesOf, TypedAs
  <1>2. TokenInv => ConfigReadersAgree
    <2>1. TokenInv => file \in Files
      BY DEF TokenInv, TypeInv
    <2>. QED
      BY <1>1, <2>1, TokenReconAssumption DEF ConfigReadersAgree
  <1>. QED
    BY <1>2, TokenInvariant, PTL
=============================================================================
