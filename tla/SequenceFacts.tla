--------------------------- MODULE SequenceFacts ---------------------------
(***************************************************************************)
(* What the proofs need to know of sequences: Ranking gives the elements of *)
(* a finite set in their order, and FlattenSeq joins sequences; and when    *)
(* sets have as many elements.                                             *)
(***************************************************************************)
EXTENDS Ranking, SequencesExt, FiniteSetTheorems, SequenceTheorems,
        NaturalsInduction, WellFoundedInduction, TLAPS

LEMMA FunctionIsSeq ==
    ASSUME NEW T, NEW n \in Nat, NEW s \in [1..n -> T]
    PROVE  s \in Seq(T) /\ Len(s) = n /\ DOMAIN s = 1..n
OBVIOUS

-----------------------------------------------------------------------------
(* Ranked *)

LEMMA BelowIsFinite ==
    ASSUME NEW S, IsFiniteSet(S), NEW order, NEW x
    PROVE  /\ IsFiniteSet(Below(S, order, x))
           /\ Cardinality(Below(S, order, x)) \in Nat
<1>1. Below(S, order, x) \in SUBSET S
  BY DEF Below
<1> QED
  BY <1>1, FS_Subset, FS_CardinalityType

\* Of two elements the later one has more below it.
LEMMA BelowGrows ==
    ASSUME NEW S, IsFiniteSet(S), NEW order, StrictlyOrders(order, S),
           NEW x \in S, NEW y \in S, <<x, y>> \in order
    PROVE  Cardinality(Below(S, order, x)) < Cardinality(Below(S, order, y))
<1> DEFINE X == Below(S, order, x)
           Y == Below(S, order, y)
<1>1. X \in SUBSET Y /\ x \in Y /\ x \notin X
  BY DEF Below, StrictlyOrders
<1>2. IsFiniteSet(Y) /\ Cardinality(X) \in Nat /\ Cardinality(Y) \in Nat
  BY BelowIsFinite
<1> HIDE DEF X, Y
<1>3. Cardinality(X) <= Cardinality(Y) /\ Cardinality(X) # Cardinality(Y)
  BY <1>1, <1>2, FS_Subset
<1>4. Cardinality(X) < Cardinality(Y)
  BY <1>2, <1>3
<1> QED
  BY <1>4 DEF X, Y

LEMMA BelowIsPartial ==
    ASSUME NEW S, IsFiniteSet(S), NEW order, StrictlyOrders(order, S), NEW x \in S
    PROVE  Cardinality(Below(S, order, x)) + 1 \in 1..Cardinality(S)
<1> DEFINE X == Below(S, order, x)
<1>1. X \in SUBSET S /\ x \notin X
  BY DEF Below, StrictlyOrders
<1>2. Cardinality(X) \in Nat /\ Cardinality(S) \in Nat
  BY BelowIsFinite, FS_CardinalityType
<1> HIDE DEF X
<1>3. Cardinality(X) <= Cardinality(S) /\ Cardinality(X) # Cardinality(S)
  BY <1>1, FS_Subset
<1>4. Cardinality(X) + 1 \in 1..Cardinality(S)
  BY <1>2, <1>3
<1> QED
  BY <1>4 DEF X

\* Every position is some element's.
LEMMA RankIsTaken ==
    ASSUME NEW S, IsFiniteSet(S), NEW order, StrictlyOrders(order, S),
           NEW n \in 1..Cardinality(S)
    PROVE  \E x \in S : Cardinality(Below(S, order, x)) = n - 1
<1> DEFINE T == 1..Cardinality(S)
           place == [x \in S |-> Cardinality(Below(S, order, x)) + 1]
<1>1. Cardinality(S) \in Nat
  BY FS_CardinalityType
<1>2. IsFiniteSet(T) /\ Cardinality(T) = Cardinality(S)
  BY <1>1, FS_Interval
<1>3. place \in [S -> T]
  BY BelowIsPartial
<1>4. ASSUME NEW x \in S, NEW y \in S, place[x] = place[y]
      PROVE  x = y
  <2>1. Cardinality(Below(S, order, x)) = Cardinality(Below(S, order, y))
    BY <1>4, BelowIsFinite
  <2>2. <<x, y>> \notin order /\ <<y, x>> \notin order
    BY <2>1, BelowGrows, BelowIsFinite
  <2> QED
    BY <2>2 DEF StrictlyOrders
<1> HIDE DEF place, T
<1>5. place \in Injection(S, T)
  BY <1>3, <1>4 DEF Injection, IsInjective
<1>6. place \in Surjection(S, T)
  BY <1>2, <1>5, FS_Injection
<1>7. PICK x \in S : place[x] = n
  BY <1>6 DEF Surjection, T
<1>8. Cardinality(Below(S, order, x)) = n - 1
  BY <1>7, BelowIsFinite DEF place
<1> QED
  BY <1>8

\* A ranking: a sequence of the elements of S, each at its place.
LEMMA RankedFacts ==
    ASSUME NEW S, IsFiniteSet(S), NEW order, StrictlyOrders(order, S)
    PROVE  /\ Cardinality(S) \in Nat
           /\ Ranked(S, order) \in Seq(S)
           /\ Len(Ranked(S, order)) = Cardinality(S)
           /\ DOMAIN Ranked(S, order) = 1..Cardinality(S)
           /\ \A n \in 1..Cardinality(S) :
                 /\ Ranked(S, order)[n] \in S
                 /\ Cardinality(Below(S, order, Ranked(S, order)[n])) = n - 1
<1> DEFINE s == Ranked(S, order)
<1>1. Cardinality(S) \in Nat
  BY FS_CardinalityType
<1>2. \A n \in 1..Cardinality(S) :
         s[n] \in S /\ Cardinality(Below(S, order, s[n])) = n - 1
  BY RankIsTaken DEF Ranked
<1>3. s = [n \in 1..Cardinality(S) |-> s[n]]
  BY DEF Ranked
<1> HIDE DEF s
<1>4. s \in [1..Cardinality(S) -> S]
  BY <1>2, <1>3
<1>5. s \in Seq(S) /\ Len(s) = Cardinality(S) /\ DOMAIN s = 1..Cardinality(S)
  BY <1>1, <1>4
<1> QED
  BY <1>1, <1>2, <1>5 DEF s

\* Nothing is lost, and the place says what is below.
LEMMA RankedPlace ==
    ASSUME NEW S, IsFiniteSet(S), NEW order, StrictlyOrders(order, S), NEW x \in S
    PROVE  /\ Cardinality(Below(S, order, x)) + 1 \in 1..Cardinality(S)
           /\ Ranked(S, order)[Cardinality(Below(S, order, x)) + 1] = x
<1> DEFINE n == Cardinality(Below(S, order, x)) + 1
           y == Ranked(S, order)[n]
<1>1. n \in 1..Cardinality(S)
  BY BelowIsPartial
<1>2. y \in S /\ Cardinality(Below(S, order, y)) = n - 1
  BY <1>1, RankedFacts
<1>3. Cardinality(Below(S, order, y)) = Cardinality(Below(S, order, x))
  BY <1>2, BelowIsFinite
<1> HIDE DEF y, n
<1>4. <<x, y>> \notin order /\ <<y, x>> \notin order
  BY <1>2, <1>3, BelowGrows, BelowIsFinite
<1>5. x = y
  BY <1>2, <1>4 DEF StrictlyOrders
<1> QED
  BY <1>1, <1>5 DEF n, y

\* The elements stand in the order.
LEMMA RankedInOrder ==
    ASSUME NEW S, IsFiniteSet(S), NEW order, StrictlyOrders(order, S),
           NEW m \in 1..Cardinality(S), NEW n \in 1..Cardinality(S), m < n
    PROVE  <<Ranked(S, order)[m], Ranked(S, order)[n]>> \in order
<1> DEFINE x == Ranked(S, order)[m]
           y == Ranked(S, order)[n]
<1>1. /\ x \in S /\ Cardinality(Below(S, order, x)) = m - 1
      /\ y \in S /\ Cardinality(Below(S, order, y)) = n - 1
  BY RankedFacts
<1>2. Cardinality(S) \in Nat
  BY FS_CardinalityType
<1> HIDE DEF x, y
<1>3. <<y, x>> \notin order /\ x # y
  BY <1>1, <1>2, BelowGrows
<1>4. <<x, y>> \in order
  BY <1>1, <1>3 DEF StrictlyOrders
<1> QED
  BY <1>4 DEF x, y

\* Only how S itself is ordered counts.
LEMMA RankedAgrees ==
    ASSUME NEW S, NEW order, NEW other,
           \A x, y \in S : <<x, y>> \in order <=> <<x, y>> \in other
    PROVE  Ranked(S, order) = Ranked(S, other)
<1>1. \A x \in S : Below(S, order, x) = Below(S, other, x)
  BY DEF Below
<1>2. \A n : (CHOOSE x \in S : Cardinality(Below(S, order, x)) = n - 1)
               = (CHOOSE x \in S : Cardinality(Below(S, other, x)) = n - 1)
  BY <1>1
<1> QED
  BY <1>2 DEF Ranked

\* s[:k]
LEMMA FirstFacts ==
    ASSUME NEW T, NEW s \in Seq(T), NEW k \in Nat
    PROVE  /\ first(s, k) \in Seq(T)
           /\ Len(first(s, k)) = IF k < Len(s) THEN k ELSE Len(s)
           /\ \A n \in 1..Len(first(s, k)) : first(s, k)[n] = s[n]
<1> DEFINE h == IF k < Len(s) THEN k ELSE Len(s)
<1>1. Len(s) \in Nat /\ h \in Nat /\ h <= Len(s)
  BY LenProperties
<1>2. \A n \in 1..h : s[n] \in T
  BY <1>1, ElementOfSeq
<1>3. first(s, k) = SubSeq(s, 1, h)
  BY DEF first
<1> HIDE DEF h
<1>4. /\ SubSeq(s, 1, h) \in Seq(T) /\ Len(SubSeq(s, 1, h)) = h
      /\ \A n \in 1..h : SubSeq(s, 1, h)[n] = s[n]
  BY <1>1, <1>2, SubSeqProperties
<1> QED
  BY <1>3, <1>4 DEF h
-----------------------------------------------------------------------------
(* Sequences of sequences, joined by FlattenSeq *)

LEMMA LeastNumber ==
    ASSUME NEW T, T \subseteq Nat, T # {}
    PROVE  \E n \in T : \A m \in T : n <= m
<1> DEFINE R == {ss \in Nat \X Nat : ss[1] < ss[2]}
<1>1. IsWellFoundedOn(R, Nat)
  BY NatLessThanWellFounded DEF OpToRel
<1>2. PICK n \in T : \A m \in T : ~(<<m, n>> \in R)
  <2> HIDE DEF R
  <2> QED
    BY <1>1, WFMin
<1>3. ASSUME NEW m \in T
      PROVE  n <= m
  <2>1. n \in Nat /\ m \in Nat
    OBVIOUS
  <2>2. ~(m < n)
    BY <2>1, <1>2
  <2> QED
    BY <2>1, <2>2
<1> QED
  BY <1>3

\* Induction, for a set of numbers.
LEMMA AllNumbers ==
    ASSUME NEW S, 0 \in S, \A n \in Nat : n \in S => n + 1 \in S
    PROVE  \A n \in Nat : n \in S
<1> SUFFICES ASSUME Nat \ S # {}
             PROVE  FALSE
  OBVIOUS
<1>1. PICK n \in Nat \ S : \A m \in Nat \ S : n <= m
  BY LeastNumber
<1>2. n # 0 /\ n \in Nat
  OBVIOUS
<1>3. n - 1 \in Nat /\ ~(n <= n - 1) /\ (n - 1) + 1 = n
  BY <1>2
<1> QED
  BY <1>1, <1>3

\* f[i] is the first i of ss, joined.
Joined(f, ss, i) == IF i = 1 THEN ss[i] ELSE f[i - 1] \o ss[i]
Joins(f, ss, n) == f = [i \in 1..n |-> Joined(f, ss, i)]

LEMMA JoinsOne ==
    ASSUME NEW f, NEW ss, NEW n \in Nat, Joins(f, ss, n), NEW i \in 1..n
    PROVE  f[i] = Joined(f, ss, i)
<1> DEFINE g == [k \in 1..n |-> Joined(f, ss, k)]
<1>1. f = g
  BY DEF Joins
<1>2. g[i] = Joined(f, ss, i)
  OBVIOUS
<1> HIDE DEF g
<1> QED
  BY <1>1, <1>2

LEMMA JoinsExist ==
    ASSUME NEW T, NEW ss \in Seq(Seq(T)), NEW n \in 1..Len(ss)
    PROVE  \E f \in [1..n -> Seq(T)] : Joins(f, ss, n)
<1> DEFINE Done(m) == \E f \in [1..(m + 1) -> Seq(T)] : Joins(f, ss, m + 1)
           S == {m \in Nat : m + 1 <= Len(ss) => Done(m)}
<1>1. Len(ss) \in Nat /\ \A i \in 1..Len(ss) : ss[i] \in Seq(T)
  BY LenProperties, ElementOfSeq
<1>2. 0 \in S
  <2>1. ASSUME 0 + 1 <= Len(ss)
        PROVE  Done(0)
    <3> DEFINE f == [i \in 1..(0 + 1) |-> ss[i]]
    <3>1. f \in [1..(0 + 1) -> Seq(T)]
      BY <1>1, <2>1
    <3>2. Joins(f, ss, 0 + 1)
      BY DEF Joins, Joined
    <3> HIDE DEF f
    <3> QED
      BY <3>1, <3>2
  <2> QED
    BY <2>1
<1>3. ASSUME NEW m \in Nat, m \in S
      PROVE  m + 1 \in S
  <2>1. ASSUME (m + 1) + 1 <= Len(ss)
        PROVE  Done(m + 1)
    <3>1. m + 1 <= Len(ss) /\ m + 1 \in 1..Len(ss) /\ m + 2 \in 1..Len(ss) /\ m + 1 \in 1..(m + 1)
      BY <1>1, <2>1
    <3>2. PICK f \in [1..(m + 1) -> Seq(T)] : Joins(f, ss, m + 1)
      BY <1>3, <3>1
    <3> DEFINE g == [i \in 1..((m + 1) + 1) |-> IF i = m + 2 THEN f[m + 1] \o ss[m + 2] ELSE f[i]]
    <3>3. f[m + 1] \o ss[m + 2] \in Seq(T)
      BY <3>1, <1>1, ConcatProperties
    <3>4. g \in [1..((m + 1) + 1) -> Seq(T)]
      BY <3>3
    <3>5. ASSUME NEW i \in 1..((m + 1) + 1)
          PROVE  g[i] = Joined(g, ss, i)
      <4>1. CASE i = m + 2
        <5>1. i # 1 /\ i - 1 = m + 1 /\ i - 1 # m + 2 /\ i - 1 \in 1..((m + 1) + 1)
          BY <4>1
        <5>2. g[i - 1] = f[m + 1]
          BY <5>1
        <5> QED
          BY <4>1, <5>1, <5>2 DEF Joined
      <4>2. CASE i # m + 2
        <5>1. i \in 1..(m + 1)
          BY <4>2
        <5>2. f[i] = Joined(f, ss, i)
          BY <3>2, <5>1, JoinsOne
        <5>3. CASE i = 1
          BY <4>2, <5>2, <5>3 DEF Joined
        <5>4. CASE i # 1
          <6>1. i - 1 \in 1..((m + 1) + 1) /\ i - 1 # m + 2
            BY <5>1, <5>4
          <6>2. g[i - 1] = f[i - 1]
            BY <6>1
          <6> QED
            BY <4>2, <5>2, <5>4, <6>2 DEF Joined
        <5> QED
          BY <5>3, <5>4
      <4> QED
        BY <4>1, <4>2
    <3>6. DOMAIN g = 1..((m + 1) + 1)
      OBVIOUS
    <3>7. g = [i \in DOMAIN g |-> g[i]]
      OBVIOUS
    <3> HIDE DEF g
    <3>8. Joins(g, ss, (m + 1) + 1)
      BY <3>5, <3>6, <3>7 DEF Joins
    <3> QED
      BY <3>4, <3>8
  <2> QED
    BY <2>1
<1> HIDE DEF S
<1>4. \A m \in Nat : m \in S
  BY <1>2, <1>3, AllNumbers
<1>5. n - 1 \in Nat /\ (n - 1) + 1 = n /\ n <= Len(ss)
  BY <1>1
<1>6. n - 1 \in S
  BY <1>4, <1>5
<1>7. Done(n - 1)
  BY <1>5, <1>6 DEF S
<1> QED
  BY <1>5, <1>7

Agree(ss, tt, n) == \A i \in 1..n : ss[i] = tt[i]

\* Two sequences that agree as far as n are joined alike as far as n.
LEMMA JoinsAgree ==
    ASSUME NEW ss, NEW tt, NEW n \in Nat, NEW k \in Nat, n <= k,
           Agree(ss, tt, n),
           NEW f, Joins(f, ss, n), NEW g, Joins(g, tt, k), NEW i \in 1..n
    PROVE  f[i] = g[i]
<1> DEFINE S == {m \in Nat : m + 1 <= n => f[m + 1] = g[m + 1]}
<1>1. 0 \in S
  <2>1. ASSUME 0 + 1 <= n
        PROVE  f[0 + 1] = g[0 + 1]
    <3>1. 1 \in 1..n /\ 1 \in 1..k /\ 0 + 1 = 1
      BY <2>1
    <3>2. f[1] = ss[1] /\ g[1] = tt[1]
      BY <3>1, JoinsOne DEF Joined
    <3>3. ss[1] = tt[1]
      BY <3>1 DEF Agree
    <3> QED
      BY <3>1, <3>2, <3>3
  <2> QED
    BY <2>1
<1>2. ASSUME NEW m \in Nat, m \in S
      PROVE  m + 1 \in S
  <2>1. ASSUME (m + 1) + 1 <= n
        PROVE  f[(m + 1) + 1] = g[(m + 1) + 1]
    <3> DEFINE j == (m + 1) + 1
    <3>1. j \in 1..n /\ j \in 1..k /\ j # 1 /\ j - 1 = m + 1 /\ m + 1 <= n
      BY <2>1
    <3> HIDE DEF j
    <3>2. f[j] = Joined(f, ss, j)
      BY <3>1, JoinsOne
    <3>3. g[j] = Joined(g, tt, j)
      BY <3>1, JoinsOne
    <3>4. f[m + 1] = g[m + 1]
      BY <1>2, <3>1
    <3>5. f[j] = g[j]
      BY <3>1, <3>2, <3>3, <3>4 DEF Joined, Agree
    <3> QED
      BY <3>5 DEF j
  <2> QED
    BY <2>1
<1> HIDE DEF S
<1>3. \A m \in Nat : m \in S
  BY <1>1, <1>2, AllNumbers
<1>4. i - 1 \in Nat /\ (i - 1) + 1 = i /\ i <= n
  OBVIOUS
<1>5. i - 1 \in S
  BY <1>3, <1>4
<1> QED
  BY <1>4, <1>5 DEF S

LEMMA FlattenValue ==
    ASSUME NEW T, NEW ss \in Seq(Seq(T)), ss # << >>
    PROVE  \E f \in [1..Len(ss) -> Seq(T)] :
              Joins(f, ss, Len(ss)) /\ FlattenSeq(ss) = f[Len(ss)]
<1> DEFINE N == Len(ss)
           h == CHOOSE f : Joins(f, ss, N)
<1>1. N \in Nat /\ N # 0
  BY LenProperties, EmptySeq
<1>2. N \in 1..N
  BY <1>1
<1>3. FlattenSeq(ss) = h[N]
  BY <1>1 DEF FlattenSeq, Joins, Joined
<1> HIDE DEF N
<1>4. PICK f \in [1..N -> Seq(T)] : Joins(f, ss, N)
  BY <1>2, JoinsExist DEF N
<1>5. Joins(h, ss, N)
  BY <1>4
<1> HIDE DEF h
<1>6. h[N] = f[N]
  BY <1>1, <1>2, <1>4, <1>5, JoinsAgree DEF Agree
<1> QED
  BY <1>3, <1>4, <1>6 DEF N

LEMMA FlattenType ==
    ASSUME NEW T, NEW ss \in Seq(Seq(T))
    PROVE  FlattenSeq(ss) \in Seq(T)
<1>1. CASE ss = << >>
  <2>1. Len(ss) = 0
    BY <1>1
  <2>2. FlattenSeq(ss) = << >>
    BY <1>1, <2>1 DEF FlattenSeq
  <2> QED
    BY <2>2, EmptySeq
<1>2. CASE ss # << >>
  <2>1. PICK f \in [1..Len(ss) -> Seq(T)] : FlattenSeq(ss) = f[Len(ss)]
    BY <1>2, FlattenValue
  <2>2. Len(ss) \in 1..Len(ss)
    BY <1>2, LenProperties, EmptySeq
  <2>3. f[Len(ss)] \in Seq(T)
    BY <2>2
  <2> QED
    BY <2>1, <2>3
<1> QED
  BY <1>1, <1>2

LEMMA FlattenNone == FlattenSeq(<< >>) = << >>
BY DEF FlattenSeq

\* One sequence more comes at the end.
LEMMA FlattenLonger ==
    ASSUME NEW T, NEW ss \in Seq(Seq(T)), NEW tt \in Seq(Seq(T)),
           Len(ss) = Len(tt) + 1, \A i \in 1..Len(tt) : ss[i] = tt[i]
    PROVE  FlattenSeq(ss) = FlattenSeq(tt) \o ss[Len(ss)]
<1> DEFINE N == Len(ss)
           M == Len(tt)
<1>1. N \in Nat /\ M \in Nat /\ N = M + 1 /\ N \in 1..N /\ M <= N
  BY LenProperties
<1>2. ss # << >>
  BY <1>1
<1>3. ss[N] \in Seq(T)
  BY <1>1, ElementOfSeq
<1>4. PICK f \in [1..N -> Seq(T)] : Joins(f, ss, N) /\ FlattenSeq(ss) = f[N]
  BY <1>2, FlattenValue
<1> HIDE DEF N, M
<1>5. f[N] = Joined(f, ss, N)
  BY <1>1, <1>4, JoinsOne
<1>6. CASE tt = << >>
  <2>1. M = 0 /\ N = 1
    BY <1>1, <1>6 DEF M
  <2>2. FlattenSeq(tt) = << >>
    BY <1>6, FlattenNone
  <2>3. << >> \o ss[N] = ss[N]
    BY <1>3, ConcatEmptySeq
  <2> QED
    BY <1>4, <1>5, <2>1, <2>2, <2>3 DEF N, Joined
<1>7. CASE tt # << >>
  <2>1. M # 0 /\ M \in 1..M /\ N # 1 /\ N - 1 = M
    <3>1. M # 0
      BY <1>7, EmptySeq DEF M
    <3> QED
      BY <3>1, <1>1
  <2>2. PICK g \in [1..M -> Seq(T)] : Joins(g, tt, M) /\ FlattenSeq(tt) = g[M]
    BY <1>7, FlattenValue DEF M
  <2>3. Agree(tt, ss, M)
    BY DEF M, Agree
  <2>4. M \in Nat /\ N \in Nat /\ M <= N
    BY <1>1
  <2>5. Joins(f, ss, N)
    BY <1>4
  <2>6. g[M] = f[M]
    <3>1. ASSUME NEW u, Joins(u, ss, N), NEW v, Joins(v, tt, M)
          PROVE  v[M] = u[M]
      BY ONLY <3>1, <2>1, <2>3, <2>4, JoinsAgree
    <3> QED
    BY <3>1, <2>2, <2>5
  <2> QED
    BY <1>4, <1>5, <2>1, <2>2, <2>6 DEF N, Joined
<1> QED
  BY <1>6, <1>7


\* Two parts are joined to the parts joined.
LEMMA FlattenConcat ==
    ASSUME NEW T, NEW s \in Seq(Seq(T)), NEW t \in Seq(Seq(T))
    PROVE  FlattenSeq(s \o t) = FlattenSeq(s) \o FlattenSeq(t)
<1> DEFINE Joined2(u) == FlattenSeq(s \o u) = FlattenSeq(s) \o FlattenSeq(u)
           S == {m \in Nat : \A u \in Seq(Seq(T)) : Len(u) = m => Joined2(u)}
<1>1. 0 \in S
  <2>1. ASSUME NEW u \in Seq(Seq(T)), Len(u) = 0
        PROVE  Joined2(u)
    <3>1. u = << >>
      BY <2>1, EmptySeq
    <3>2. s \o u = s
      BY <3>1, ConcatEmptySeq
    <3>3. FlattenSeq(u) = << >> /\ FlattenSeq(s) \in Seq(T)
      BY <3>1, FlattenNone, FlattenType
    <3>4. FlattenSeq(s) \o FlattenSeq(u) = FlattenSeq(s)
      BY <3>3, ConcatEmptySeq
    <3> QED
      BY <3>2, <3>4
  <2> QED
    BY <2>1
<1>2. ASSUME NEW m \in Nat, m \in S
      PROVE  m + 1 \in S
  <2>1. ASSUME NEW u \in Seq(Seq(T)), Len(u) = m + 1
        PROVE  Joined2(u)
    <3> DEFINE v == SubSeq(u, 1, m)
               last == u[m + 1]
               su == s \o u
               sv == s \o v
    <3>1. \A n \in 1..(m + 1) : u[n] \in Seq(T)
      BY <2>1, ElementOfSeq
    <3>2. /\ v \in Seq(Seq(T)) /\ Len(v) = m
          /\ \A n \in 1..m : v[n] = u[n]
      BY <2>1, <3>1, SubSeqProperties
    <3> HIDE DEF v
    <3>3. Joined2(v)
      BY <1>2, <3>2
    <3>4. last \in Seq(T) /\ Len(s) \in Nat
      BY <3>1, LenProperties
    <3>5. /\ su \in Seq(Seq(T)) /\ Len(su) = Len(s) + m + 1
          /\ \A n \in 1..(Len(s) + m + 1) : su[n] = IF n <= Len(s) THEN s[n] ELSE u[n - Len(s)]
      <4>1. /\ su \in Seq(Seq(T)) /\ Len(su) = Len(s) + Len(u)
            /\ \A n \in 1..(Len(s) + Len(u)) :
                  su[n] = IF n <= Len(s) THEN s[n] ELSE u[n - Len(s)]
        BY ConcatProperties
      <4> HIDE DEF su
      <4>2. Len(s) + Len(u) = Len(s) + m + 1
        BY <2>1, <3>4
      <4> QED
        BY <4>1, <4>2
    <3>6. /\ sv \in Seq(Seq(T)) /\ Len(sv) = Len(s) + m
          /\ \A n \in 1..(Len(s) + m) : sv[n] = IF n <= Len(s) THEN s[n] ELSE v[n - Len(s)]
      BY <3>2, <3>4, ConcatProperties
    <3> HIDE DEF su, sv
    <3>7. ASSUME NEW n \in 1..Len(sv)
          PROVE  su[n] = sv[n]
      <4>1. n \in 1..(Len(s) + m) /\ n \in 1..(Len(s) + m + 1)
        BY <3>4, <3>6
      <4>2. CASE n <= Len(s)
        BY <4>1, <4>2, <3>5, <3>6
      <4>3. CASE ~(n <= Len(s))
        <5>1. n - Len(s) \in 1..m
          BY <4>1, <4>3, <3>4
        <5> QED
          BY <4>1, <4>3, <5>1, <3>2, <3>5, <3>6
      <4> QED
        BY <4>2, <4>3
    <3>8. su[Len(su)] = last
      <4>1. /\ Len(su) \in 1..(Len(s) + m + 1) /\ ~(Len(su) <= Len(s))
            /\ Len(su) - Len(s) = m + 1
        BY <3>4, <3>5
      <4> QED
        BY <4>1, <3>5
    <3>9. FlattenSeq(su) = FlattenSeq(sv) \o last
      <4>1. Len(su) = Len(sv) + 1
        BY <3>5, <3>6, <3>4
      <4> HIDE DEF last
      <4> QED
        BY <4>1, <3>5, <3>6, <3>7, <3>8, FlattenLonger
    <3>10. FlattenSeq(u) = FlattenSeq(v) \o last
      <4>1. Len(u) = Len(v) + 1 /\ \A n \in 1..Len(v) : u[n] = v[n]
        BY <2>1, <3>2
      <4>2. u[Len(u)] = last
        BY <2>1
      <4> HIDE DEF last
      <4> QED
        BY <4>1, <4>2, <3>2, FlattenLonger
    <3> HIDE DEF last
    <3>11. FlattenSeq(s) \in Seq(T) /\ FlattenSeq(v) \in Seq(T)
      BY <3>2, FlattenType
    <3>12. (FlattenSeq(s) \o FlattenSeq(v)) \o last = FlattenSeq(s) \o (FlattenSeq(v) \o last)
      <4>1. last \in Seq(T)
        BY <3>4
      <4> QED
        BY <4>1, <3>11, ConcatAssociative, SMTT(20)
    <3> QED
      BY <3>3, <3>9, <3>10, <3>12 DEF su, sv
  <2> QED
    BY <2>1
<1> HIDE DEF S
<1>3. \A m \in Nat : m \in S
  BY <1>1, <1>2, AllNumbers
<1>4. Len(t) \in S
  BY <1>3, LenProperties
<1>5. Joined2(t)
  BY <1>4 DEF S
<1> QED
  BY <1>5

-----------------------------------------------------------------------------
(* How many elements *)

\* A function that hits every element once keeps the number of elements.
LEMMA SameNumber ==
    ASSUME NEW S, NEW T, IsFiniteSet(S), NEW f \in [S -> T],
           \A x, y \in S : f[x] = f[y] => x = y,
           \A t \in T : \E x \in S : f[x] = t
    PROVE  IsFiniteSet(T) /\ Cardinality(T) = Cardinality(S)
<1>1. f \in Bijection(S, T)
  BY DEF Bijection, Injection, Surjection, IsInjective
<1>2. ExistsBijection(S, T)
  BY <1>1 DEF ExistsBijection
<1> QED
  BY <1>2, FS_Bijection

\* Two kinds that exclude one another.
LEMMA Apart ==
    ASSUME NEW S, NEW T, IsFiniteSet(S), IsFiniteSet(T), S \cap T = {}
    PROVE  /\ IsFiniteSet(S \cup T)
           /\ Cardinality(S \cup T) = Cardinality(S) + Cardinality(T)
<1>1. Cardinality(S) \in Nat /\ Cardinality(T) \in Nat
  BY FS_CardinalityType
<1>2. Cardinality(S \cap T) = 0
  BY FS_EmptySet
<1>3. /\ IsFiniteSet(S \cup T)
      /\ Cardinality(S \cup T) = Cardinality(S) + Cardinality(T) - Cardinality(S \cap T)
  BY FS_Union
<1> QED
  BY <1>1, <1>2, <1>3
=============================================================================
