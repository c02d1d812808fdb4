--------------------------- MODULE ListingProofs ---------------------------
(***************************************************************************)
(* Theorems about Listing, for any number of writers and rows, any page     *)
(* sizes, any readings of the wall clock and any order of the rows that     *)
(* the sort keys allow.                                                    *)
(***************************************************************************)
EXTENDS Listing, FiniteSetTheorems, SequenceTheorems, TLAPS

\* The rows that the listing puts before row i.
Ahead(i) == {j \in Ids : Precedes(j, i)}

\* What the client has received: rows that were there when the last page was
\* read, and as many as there were when that page was the last one.
Received ==
    /\ rows \in Seq(1..after)
    /\ Len(rows) <= after
    /\ walk = "over" => Len(rows) = after

\* A row that was there when the walk began has been shown, or it is further down
\* than the client has come.  A row that arrives can only push it further down.
ShownOrAhead(i) ==
    \/ i \in ToSet(rows)
    \/ walk = "on" /\ Len(rows) <= Cardinality(Ahead(i))
NothingPassed == walk # "off" => \A i \in before : ShownOrAhead(i)

IInv == TypeOK /\ Received /\ NothingPassed
-----------------------------------------------------------------------------
USE DEF Nothing

LEMMA IdsFinite ==
    ASSUME TypeOK
    PROVE  /\ Len(scans) \in Nat
           /\ Ids = 1..Len(scans)
           /\ IsFiniteSet(Ids)
           /\ Cardinality(Ids) = Len(scans)
<1>1. Len(scans) \in Nat /\ DOMAIN scans = 1..Len(scans)
  BY LenProperties DEF TypeOK
<1>2. IsFiniteSet(1..Len(scans)) /\ Cardinality(1..Len(scans)) = Len(scans)
  <2> DEFINE N == Len(scans)
  <2> HIDE DEF N
  <2>1. N \in Nat
    BY <1>1 DEF N
  <2>2. IsFiniteSet(1..N) /\ Cardinality(1..N) = IF 1 > N THEN 0 ELSE N - 1 + 1
    BY <2>1, FS_Interval
  <2>3. Cardinality(1..N) = N
    BY <2>1, <2>2
  <2> QED
    BY <2>2, <2>3 DEF N
<1> QED
  BY <1>1, <1>2 DEF Ids

\* The sort keys leave no two rows unordered: the id breaks the ties of created_at.
LEMMA TotalOrder ==
    ASSUME TypeOK, NEW i \in Ids, NEW j \in Ids
    PROVE  /\ ~Precedes(i, i)
           /\ i # j => Precedes(i, j) \/ Precedes(j, i)
<1>1. i \in Int /\ j \in Int /\ scans[i] \in Int /\ scans[j] \in Int
  BY IdsFinite, ListingAssumption DEF TypeOK
<1> QED
  BY <1>1 DEF Precedes

\* An answer of the database has every row once, and row i after those ahead of it.
LEMMA PlaceInOrder ==
    ASSUME TypeOK, NEW s \in Orders
    PROVE  /\ s \in Seq(Ids)
           /\ Len(s) = Len(scans)
           /\ \A i \in Ids : \E p \in 1..Len(scans) :
                 s[p] = i /\ Cardinality(Ahead(i)) = p - 1
<1> DEFINE N == Len(scans)
<1>1. N \in Nat /\ Ids = 1..N /\ IsFiniteSet(Ids) /\ Cardinality(Ids) = N
  BY IdsFinite
<1>2. /\ s \in [1..N -> Ids]
      /\ \A m, n \in 1..N : m # n => s[m] # s[n]
      /\ \A m, n \in 1..N : m < n => ~Precedes(s[n], s[m])
  BY <1>1 DEF Orders, SetToSeqs
<1>3. s \in Seq(Ids) /\ Len(s) = N
  BY <1>1, <1>2
<1>4. s \in Surjection(Ids, Ids)
  <2>1. s \in Injection(Ids, Ids)
    BY <1>1, <1>2 DEF Injection, IsInjective
  <2> QED
    BY <1>1, <2>1, FS_Injection
<1>5. ASSUME NEW i \in Ids
      PROVE  \E p \in 1..N : s[p] = i /\ Cardinality(Ahead(i)) = p - 1
  <2>1. PICK p \in 1..N : s[p] = i
    BY <1>1, <1>4 DEF Surjection
  <2>2. ASSUME NEW m \in 1..N
        PROVE  Precedes(s[m], i) <=> m < p
    <3>1. s[m] \in Ids
      BY <1>2
    <3>2. CASE m < p
      <4>1. s[m] # i /\ ~Precedes(i, s[m])
        BY <1>2, <2>1, <3>2
      <4> QED
        BY <3>1, <3>2, <4>1, TotalOrder
    <3>3. CASE m = p
      BY <1>1, <2>1, <3>3, TotalOrder
    <3>4. CASE m > p
      BY <1>1, <1>2, <2>1, <3>4
    <3> QED
      BY <1>1, <3>2, <3>3, <3>4
  <2>3. DEFINE g == [m \in 1..(p - 1) |-> s[m]]
  <2>4. p \in Nat /\ p - 1 \in Nat /\ \A m \in 1..(p - 1) : m \in 1..N /\ m < p
    BY <1>1
  <2>5. g \in [1..(p - 1) -> Ahead(i)]
    BY <1>2, <2>2, <2>4 DEF Ahead
  <2>6. \A m, n \in 1..(p - 1) : g[m] = g[n] => m = n
    BY <1>2, <2>4
  <2>7. \A j \in Ahead(i) : \E m \in 1..(p - 1) : g[m] = j
    <3> SUFFICES ASSUME NEW j \in Ahead(i)
                 PROVE  \E m \in 1..(p - 1) : g[m] = j
      OBVIOUS
    <3>1. PICK m \in 1..N : s[m] = j
      BY <1>1, <1>4 DEF Surjection, Ahead
    <3>2. m < p
      BY <2>2, <3>1 DEF Ahead
    <3>3. m \in 1..(p - 1)
      BY <1>1, <2>4, <3>2
    <3> QED
      BY <3>1, <3>3
  <2>8. ExistsBijection(1..(p - 1), Ahead(i))
    <3>1. g \in Bijection(1..(p - 1), Ahead(i))
      BY <2>5, <2>6, <2>7 DEF Bijection, Injection, Surjection, IsInjective
    <3> QED
      BY <3>1 DEF ExistsBijection
  <2>9. Cardinality(Ahead(i)) = p - 1
    BY <2>4, <2>8, FS_CountingElements
  <2> QED
    BY <2>1, <2>9
<1> QED
  BY <1>3, <1>5

\* OFFSET and LIMIT give the next limit rows, or what is left of them.
LEMMA SliceFacts ==
    ASSUME NEW S, NEW s \in Seq(S), NEW limit \in Nat, NEW offset \in 0..Len(s)
    PROVE  LET page == Slice(s, limit, offset)
           IN  /\ page \in Seq(S)
               /\ Len(page) = IF offset + limit < Len(s) THEN limit ELSE Len(s) - offset
               /\ \A k \in 1..Len(page) : page[k] = s[offset + k]
<1> DEFINE last == IF offset + limit < Len(s) THEN offset + limit ELSE Len(s)
           page == Slice(s, limit, offset)
<1>1. Len(s) \in Nat /\ offset \in Nat /\ last \in offset..Len(s)
  BY LenProperties
<1>2. page = SubSeq(s, offset + 1, last)
  BY DEF Slice
<1>3. offset + 1 \in Int /\ last \in Int /\ \A k \in (offset + 1)..last : s[k] \in S
  BY <1>1, ElementOfSeq
<1>4. /\ page \in Seq(S)
      /\ Len(page) = IF offset + 1 <= last THEN last - (offset + 1) + 1 ELSE 0
      /\ \A k \in 1..(last - (offset + 1) + 1) : page[k] = s[(offset + 1) + k - 1]
  <2> HIDE DEF last, page
  <2> QED
    BY <1>2, <1>3, SubSeqProperties
<1>5. Len(page) = last - offset
  BY <1>1, <1>4
<1>6. \A k \in 1..Len(page) : page[k] = s[offset + k]
  <2> HIDE DEF page
  <2>1. \A k \in 1..(last - offset) : (offset + 1) + k - 1 = offset + k
    BY <1>1
  <2>2. last - (offset + 1) + 1 = last - offset
    BY <1>1
  <2> QED
    BY <1>4, <1>5, <2>1, <2>2
<1>7. last - offset = IF offset + limit < Len(s) THEN limit ELSE Len(s) - offset
  BY <1>1
<1> QED
  BY <1>4, <1>5, <1>6, <1>7

\* What a client has after a page: what it had, and the rows of the page.
LEMMA WithPage ==
    ASSUME NEW S, NEW old \in Seq(S), NEW page \in Seq(S)
    PROVE  /\ old \o page \in Seq(S)
           /\ Len(old \o page) = Len(old) + Len(page)
           /\ ToSet(old) \subseteq ToSet(old \o page)
           /\ ToSet(page) \subseteq ToSet(old \o page)
<1>1. Len(old) \in Nat /\ Len(page) \in Nat
  BY LenProperties
<1>2. DOMAIN old = 1..Len(old) /\ DOMAIN page = 1..Len(page)
  BY LenProperties
<1>3. /\ old \o page \in Seq(S)
      /\ Len(old \o page) = Len(old) + Len(page)
      /\ \A k \in 1..(Len(old) + Len(page)) :
            (old \o page)[k] = IF k <= Len(old) THEN old[k] ELSE page[k - Len(old)]
  BY ConcatProperties
<1>4. DOMAIN (old \o page) = 1..(Len(old) + Len(page))
  BY <1>3, LenProperties
<1>5. \A k \in 1..Len(old) : k \in 1..(Len(old) + Len(page)) /\ (old \o page)[k] = old[k]
  BY <1>1, <1>3
<1>6. \A k \in 1..Len(page) :
         /\ Len(old) + k \in 1..(Len(old) + Len(page))
         /\ (old \o page)[Len(old) + k] = page[k]
  BY <1>1, <1>3
<1>7. ToSet(old) \subseteq ToSet(old \o page)
  BY <1>2, <1>4, <1>5 DEF ToSet
<1>8. ToSet(page) \subseteq ToSet(old \o page)
  BY <1>2, <1>4, <1>6 DEF ToSet
<1> QED
  BY <1>3, <1>7, <1>8

\* A page shows a row that was not passed, or stays before it; the last one shows it.
LEMMA PageShows ==
    ASSUME TypeOK, NEW s \in Orders, NEW limit \in 1..MaxLimit,
           NEW old \in Seq(Ids), Len(old) <= Len(scans),
           NEW i \in Ids, i \in ToSet(old) \/ Len(old) <= Cardinality(Ahead(i))
    PROVE  LET page == Slice(s, limit, Len(old))
           IN  \/ i \in ToSet(old \o page)
               \/ Len(page) = limit /\ Len(old \o page) <= Cardinality(Ahead(i))
<1> DEFINE page == Slice(s, limit, Len(old))
<1>1. /\ s \in Seq(Ids) /\ Len(s) = Len(scans) /\ Len(scans) \in Nat
      /\ Len(old) \in 0..Len(s) /\ limit \in Nat
  BY PlaceInOrder, IdsFinite, LenProperties, ListingAssumption
<1>2. /\ page \in Seq(Ids)
      /\ Len(page) = IF Len(old) + limit < Len(s) THEN limit ELSE Len(s) - Len(old)
      /\ \A k \in 1..Len(page) : page[k] = s[Len(old) + k]
  BY <1>1, SliceFacts
<1>3. /\ Len(old \o page) = Len(old) + Len(page)
      /\ ToSet(old) \subseteq ToSet(old \o page)
      /\ ToSet(page) \subseteq ToSet(old \o page)
  BY <1>2, WithPage
<1>4. CASE i \in ToSet(old)
  BY <1>3, <1>4
<1>5. CASE Len(old) <= Cardinality(Ahead(i))
  <2>1. PICK p \in 1..Len(scans) : s[p] = i /\ Cardinality(Ahead(i)) = p - 1
    BY PlaceInOrder
  <2>2. Len(old) < p
    BY <1>1, <1>5, <2>1
  <2>3. CASE p <= Len(old) + Len(page)
    <3>1. p - Len(old) \in 1..Len(page) /\ Len(old) + (p - Len(old)) = p
      BY <1>1, <1>2, <2>2, <2>3
    <3>2. page[p - Len(old)] = i
      BY <1>2, <2>1, <3>1
    <3>3. DOMAIN page = 1..Len(page)
      BY <1>2, LenProperties
    <3>4. i \in ToSet(page)
      BY <3>1, <3>2, <3>3 DEF ToSet
    <3> QED
      BY <1>3, <3>4
  <2>4. CASE p > Len(old) + Len(page)
    <3>1. Len(page) = limit
      BY <1>1, <1>2, <2>4
    <3>2. Len(old) + Len(page) <= p - 1
      BY <1>1, <2>4, <3>1
    <3> QED
      BY <1>3, <2>1, <3>1, <3>2
  <2> QED
    BY <1>1, <1>2, <2>3, <2>4
<1> QED
  BY <1>4, <1>5
-----------------------------------------------------------------------------
LEMMA Starts == Init => IInv
<1> SUFFICES ASSUME Init
             PROVE  IInv
  OBVIOUS
<1>1. Len(scans) = 0 /\ after = 0 /\ Len(rows) = 0 /\ walk = "off"
  BY DEF Init
<1>2. scans \in Seq(0..MaxClock) /\ rows \in Seq(Ids) /\ rows \in Seq(1..after)
  BY EmptySeq DEF Init
<1>3. TypeOK
  BY <1>1, <1>2, ListingAssumption DEF Init, TypeOK
<1>4. Received
  BY <1>1, <1>2 DEF Received
<1> QED
  BY <1>1, <1>3, <1>4 DEF IInv, NothingPassed

\* A step that leaves the rows and the walk alone.
LEMMA WalkUntouched ==
    ASSUME IInv, UNCHANGED <<scans, walk, rows, before, after>>,
           built' \in [Writers -> {Nothing} \cup 0..MaxClock], clock' \in 0..MaxClock
    PROVE  IInv'
<1>1. TypeOK'
  BY DEF IInv, TypeOK, Ids
<1>2. Received'
  BY DEF IInv, Received
<1>3. NothingPassed'
  BY DEF IInv, NothingPassed, ShownOrAhead, Ahead, Precedes, Ids
<1> QED
  BY <1>1, <1>2, <1>3 DEF IInv

LEMMA BuildKeeps ==
    ASSUME IInv, NEW w \in Writers, Build(w)
    PROVE  IInv'
<1>1. clock' \in 0..MaxClock
  BY DEF IInv, TypeOK, Build
<1>2. built' \in [Writers -> {Nothing} \cup 0..MaxClock]
  BY DEF IInv, TypeOK, Build
<1> QED
  BY <1>1, <1>2, WalkUntouched DEF Build

LEMMA SetClockKeeps ==
    ASSUME IInv, SetClock
    PROVE  IInv'
<1>1. clock' \in 0..MaxClock
  BY DEF SetClock
<1>2. built' \in [Writers -> {Nothing} \cup 0..MaxClock]
  BY DEF IInv, TypeOK, SetClock
<1> QED
  BY <1>1, <1>2, WalkUntouched DEF SetClock

\* A row that arrives keeps the others in their order.
LEMMA AheadGrows ==
    ASSUME TypeOK, TypeOK', NEW v \in 0..MaxClock, scans' = Append(scans, v),
           NEW i \in Ids
    PROVE  Cardinality(Ahead(i)) <= Cardinality(Ahead(i)')
<1>1. /\ Len(scans) \in Nat /\ Ids = 1..Len(scans)
      /\ Ids' = 1..(Len(scans) + 1)
      /\ IsFiniteSet(Ids')
      /\ \A j \in Ids : scans'[j] = scans[j]
  <2>1. Len(scans) \in Nat /\ Ids = 1..Len(scans)
    BY IdsFinite
  <2>2. Len(scans') = Len(scans) + 1 /\ \A j \in 1..Len(scans) : scans'[j] = scans[j]
    BY AppendProperties DEF TypeOK
  <2>3. Ids' = 1..Len(scans')
    BY LenProperties DEF TypeOK, Ids
  <2> QED
    BY <2>1, <2>2, <2>3, FS_Interval
<1>2. Ahead(i) \subseteq Ahead(i)'
  BY <1>1 DEF Ahead, Precedes
<1>3. IsFiniteSet(Ahead(i)')
  <2>1. Ahead(i)' \subseteq Ids'
    BY DEF Ahead
  <2> QED
    BY <1>1, <2>1, FS_Subset
<1> QED
  BY <1>2, <1>3, FS_Subset

LEMMA CommitKeeps ==
    ASSUME IInv, NEW w \in Writers, Commit(w)
    PROVE  IInv'
<1>1. built[w] \in 0..MaxClock
  BY DEF IInv, TypeOK, Commit
<1>2. /\ scans' \in Seq(0..MaxClock) /\ Len(scans') = Len(scans) + 1
      /\ Len(scans) \in Nat /\ Ids = 1..Len(scans) /\ Ids' = 1..Len(scans')
  <2>1. Len(scans) \in Nat /\ Ids = 1..Len(scans)
    BY IdsFinite DEF IInv
  <2>2. scans' \in Seq(0..MaxClock) /\ Len(scans') = Len(scans) + 1
    BY <1>1, AppendProperties DEF IInv, TypeOK, Commit
  <2> QED
    BY <2>1, <2>2, LenProperties DEF Ids
<1>3. Ids \subseteq Ids'
  BY <1>2
<1>4. TypeOK'
  <2>1. rows' \in Seq(Ids')
    BY <1>3, SeqMonotonic DEF IInv, TypeOK, Commit
  <2>2. before' \subseteq Ids' /\ after' \in 0..Len(scans')
    BY <1>2, <1>3 DEF IInv, TypeOK, Commit
  <2>3. built' \in [Writers -> {Nothing} \cup 0..MaxClock]
    BY DEF IInv, TypeOK, Commit
  <2>4. clock' \in 0..MaxClock /\ walk' \in {"off", "on", "over"}
    BY DEF IInv, TypeOK, Commit
  <2> QED
    BY <1>2, <2>1, <2>2, <2>3, <2>4 DEF TypeOK
<1>5. Received'
  BY DEF IInv, Received, Commit
<1>6. NothingPassed'
  <2> SUFFICES ASSUME walk # "off", NEW i \in before
               PROVE  ShownOrAhead(i)'
    BY DEF NothingPassed, Commit
  <2>1. ShownOrAhead(i) /\ i \in Ids
    BY DEF IInv, NothingPassed, TypeOK
  <2>2. CASE i \in ToSet(rows)
    BY <2>2 DEF ShownOrAhead, Commit
  <2>3. CASE walk = "on" /\ Len(rows) <= Cardinality(Ahead(i))
    <3>1. Cardinality(Ahead(i)) <= Cardinality(Ahead(i)')
      BY <1>1, <1>4, <2>1, AheadGrows DEF IInv, Commit
    <3>2. Len(rows) \in Nat /\ Cardinality(Ahead(i)) \in Nat /\ Cardinality(Ahead(i)') \in Nat
      <4>1. Len(rows) \in Nat
        BY LenProperties DEF IInv, TypeOK
      <4>2. IsFiniteSet(Ids) /\ IsFiniteSet(Ids')
        BY <1>2, FS_Interval
      <4>3. IsFiniteSet(Ahead(i))
        BY <4>2, FS_Subset DEF Ahead
      <4>4. IsFiniteSet(Ahead(i)')
        BY <4>2, FS_Subset DEF Ahead
      <4> QED
        BY <4>1, <4>3, <4>4, FS_CardinalityType
    <3>3. walk' = "on" /\ rows' = rows
      BY <2>3 DEF Commit
    <3>4. Len(rows) <= Cardinality(Ahead(i)')
      BY <2>3, <3>1, <3>2
    <3> QED
      BY <3>3, <3>4 DEF ShownOrAhead
  <2> QED
    BY <2>1, <2>2, <2>3 DEF ShownOrAhead
<1> QED
  BY <1>4, <1>5, <1>6 DEF IInv

LEMMA PageKeeps ==
    ASSUME IInv, Page
    PROVE  IInv'
<1> DEFINE old == IF walk = "on" THEN rows ELSE << >>
           first == IF walk = "on" THEN before ELSE Ids
<1>1. PICK limit \in 1..MaxLimit, s \in Orders :
        /\ rows' = old \o Slice(s, limit, Len(old))
        /\ walk' = IF Len(Slice(s, limit, Len(old))) < limit THEN "over" ELSE "on"
        /\ before' = first
        /\ after' = Len(scans)
        /\ UNCHANGED <<scans, built, clock>>
  BY EmptySeq DEF Page
<1> DEFINE page == Slice(s, limit, Len(old))
<1>2. /\ TypeOK /\ Len(scans) \in Nat /\ Ids = 1..Len(scans)
      /\ IsFiniteSet(Ids)
  BY IdsFinite DEF IInv
<1>3. /\ s \in Seq(Ids) /\ Len(s) = Len(scans)
  BY <1>2, PlaceInOrder
<1>4. /\ old \in Seq(Ids) /\ Len(old) \in Nat /\ Len(old) <= Len(scans)
  <2>1. CASE walk = "on"
    BY <1>2, <2>1, LenProperties DEF IInv, TypeOK, Received
  <2>2. CASE walk # "on"
    BY <1>2, <2>2, EmptySeq
  <2> QED
    BY <2>1, <2>2
<1>5. \A i \in first : i \in Ids /\ (i \in ToSet(old) \/ Len(old) <= Cardinality(Ahead(i)))
  <2> SUFFICES ASSUME NEW i \in first
               PROVE  i \in Ids /\ (i \in ToSet(old) \/ Len(old) <= Cardinality(Ahead(i)))
    OBVIOUS
  <2>1. CASE walk = "on"
    BY <2>1 DEF IInv, TypeOK, NothingPassed, ShownOrAhead
  <2>2. CASE walk # "on"
    <3>1. i \in Ids /\ Len(old) = 0
      BY <2>2, EmptySeq
    <3>2. Cardinality(Ahead(i)) \in Nat
      BY <1>2, FS_Subset, FS_CardinalityType DEF Ahead
    <3> QED
      BY <3>1, <3>2
  <2> QED
    BY <2>1, <2>2
<1>6. limit \in Nat
  BY ListingAssumption
<1> HIDE DEF old, first
<1>7. /\ page \in Seq(Ids)
      /\ Len(page) = IF Len(old) + limit < Len(s) THEN limit ELSE Len(s) - Len(old)
  BY <1>3, <1>4, <1>6, SliceFacts
<1>8. rows' \in Seq(Ids) /\ Len(rows') = Len(old) + Len(page)
  BY <1>1, <1>4, <1>7, WithPage
<1>9. first \subseteq Ids
  BY <1>5
<1>10. TypeOK'
  <2>1. Ids' = Ids
    BY <1>1 DEF Ids
  <2>2. walk' \in {"off", "on", "over"}
    BY <1>1
  <2>3. after' \in 0..Len(scans')
    BY <1>1, <1>2
  <2> QED
    BY <1>1, <1>2, <1>8, <1>9, <2>1, <2>2, <2>3 DEF TypeOK
<1>11. Received'
  <2>1. rows' \in Seq(1..after')
    BY <1>1, <1>2, <1>8
  <2>2. Len(rows') <= after'
    BY <1>1, <1>2, <1>3, <1>4, <1>6, <1>7, <1>8
  <2>3. walk' = "over" => Len(rows') = after'
    <3>1. walk' = "over" => Len(page) < limit
      BY <1>1
    <3> QED
      BY <1>1, <1>2, <1>3, <1>4, <1>6, <1>7, <1>8, <3>1
  <2> QED
    BY <2>1, <2>2, <2>3 DEF Received
<1>12. NothingPassed'
  <2> SUFFICES ASSUME NEW i \in first
               PROVE  ShownOrAhead(i)'
    BY <1>1 DEF NothingPassed
  <2>1. \/ i \in ToSet(rows')
        \/ Len(page) = limit /\ Len(rows') <= Cardinality(Ahead(i))
    BY <1>1, <1>2, <1>4, <1>5, PageShows
  <2>2. Ahead(i)' = Ahead(i)
    BY <1>1 DEF Ahead, Precedes, Ids
  <2>3. Len(page) = limit => walk' = "on"
    BY <1>1, <1>6
  <2> QED
    BY <2>1, <2>2, <2>3 DEF ShownOrAhead
<1> QED
  BY <1>10, <1>11, <1>12 DEF IInv

LEMMA Steps == IInv /\ [Next]_vars => IInv'
<1> SUFFICES ASSUME IInv, [Next]_vars
             PROVE  IInv'
  OBVIOUS
<1>1. ASSUME NEW w \in Writers, Build(w)
      PROVE  IInv'
  BY <1>1, BuildKeeps
<1>2. ASSUME NEW w \in Writers, Commit(w)
      PROVE  IInv'
  BY <1>2, CommitKeeps
<1>3. CASE SetClock
  BY <1>3, SetClockKeeps
<1>4. CASE Page
  BY <1>4, PageKeeps
<1>5. CASE UNCHANGED vars
  <2>1. built' \in [Writers -> {Nothing} \cup 0..MaxClock] /\ clock' \in 0..MaxClock
    BY <1>5 DEF vars, IInv, TypeOK
  <2> QED
    BY <1>5, <2>1, WalkUntouched DEF vars
<1> QED
  BY <1>1, <1>2, <1>3, <1>4, <1>5 DEF Next

\* The variables keep their types, for any number of writers, rows and clock readings.
THEOREM TypeCorrect == Spec => []TypeOK
<1>1. IInv => TypeOK
  BY DEF IInv
<1> QED
  BY Starts, Steps, <1>1, PTL DEF Spec

\* A client that walks to the end of GET /scans has been shown every scan that was
\* stored when it began, whatever is added meanwhile and wherever it lands.
THEOREM WalkMissesNothing == Spec => []NothingSkipped
<1>1. IInv => NothingSkipped
  BY DEF IInv, NothingPassed, ShownOrAhead, NothingSkipped
<1> QED
  BY Starts, Steps, <1>1, PTL DEF Spec

\* As many rows of a walk are repeats as rows were added during it and not shown.
THEOREM RepeatsAreAccountedFor == Spec => []EachRepeatHidesAnArrival
<1>1. IInv => EachRepeatHidesAnArrival
  <2> SUFFICES ASSUME IInv, walk = "over"
               PROVE  Repeats = Cardinality(Hidden)
    BY DEF EachRepeatHidesAnArrival
  <2>1. after \in Nat /\ Len(rows) = after /\ rows \in Seq(1..after)
    BY IdsFinite DEF IInv, TypeOK, Received
  <2>2. IsFiniteSet(1..after) /\ Cardinality(1..after) = after
    BY <2>1, FS_Interval
  <2>3. ToSet(rows) \subseteq 1..after
    BY <2>1, LenProperties DEF ToSet
  <2>4. (1..after) \cap ToSet(rows) = ToSet(rows)
    BY <2>3
  <2>5. Cardinality(Hidden) = after - Cardinality(ToSet(rows))
    <3>1. Cardinality(Hidden) =
            Cardinality(1..after) - Cardinality((1..after) \cap ToSet(rows))
      BY <2>2, FS_Difference DEF Hidden
    <3> QED
      BY <2>2, <2>4, <3>1
  <2> QED
    BY <2>1, <2>5 DEF Repeats
<1> QED
  BY Starts, Steps, <1>1, PTL DEF Spec
=============================================================================
