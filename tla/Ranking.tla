------------------------------ MODULE Ranking ------------------------------
(***************************************************************************)
(* Python's sorted() with a key, on a set: an element stands where the     *)
(* number of elements before it says.  The order is a set of pairs.  (The   *)
(* SetToSortSeq of the community modules chooses a permutation of TLC's,    *)
(* and tlapm knows no definition of that.)                                 *)
(***************************************************************************)
EXTENDS Integers, FiniteSets, Sequences

Below(S, order, x) == {y \in S : <<y, x>> \in order}

Ranked(S, order) ==
    [n \in 1..Cardinality(S) |-> CHOOSE x \in S : Cardinality(Below(S, order, x)) = n - 1]

\* s[:k]
first(s, k) == SubSeq(s, 1, IF k < Len(s) THEN k ELSE Len(s))

\* What makes that a sort: any two elements of S are ordered, one way.
StrictlyOrders(order, S) ==
    /\ \A x \in S : <<x, x>> \notin order
    /\ \A x, y \in S : x # y => <<x, y>> \in order \/ <<y, x>> \in order
    /\ \A x, y, z \in S : <<x, y>> \in order /\ <<y, z>> \in order => <<x, z>> \in order
=============================================================================
