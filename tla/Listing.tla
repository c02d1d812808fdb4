------------------------------ MODULE Listing ------------------------------
(***************************************************************************)
(* GET /scans with limit and offset (api/routes/scans.py, list_scans), as a *)
(* client uses it that walks through all pages while scans are added.      *)
(*                                                                         *)
(* created_at is read when a writer builds its Scan, the id is given when   *)
(* it commits, and the wall clock may be set back: a new row can land      *)
(* anywhere in the order.  Each page is one SELECT.                        *)
(***************************************************************************)
EXTENDS Integers, FiniteSets, SequencesExt

CONSTANTS
    Writers,    \* handlers of POST /scans
    MaxLimit,   \* the largest limit the endpoint takes (200)
    MaxClock,   \* bound on the wall clock
    MaxScans    \* bound on the number of scans

ASSUME ListingAssumption ==
    /\ MaxLimit \in Nat \ {0}
    /\ MaxClock \in Nat
    /\ MaxScans \in Nat

VARIABLES
    scans,      \* created_at of the rows; row i has id i
    built,      \* per writer, the created_at of the Scan it is about to insert
    clock,
    walk,       \* "off", "on" or "over": the client's walk through the pages
    rows,       \* the ids the client has received in this walk, in order
    before,     \* history: the ids there when the walk began
    after       \* history: the number of rows when the last page was read

vars == <<scans, built, clock, walk, rows, before, after>>

Ids == DOMAIN scans
Nothing == -1

Init ==
    /\ scans = << >>
    /\ built = [w \in Writers |-> Nothing]
    /\ clock = 0
    /\ walk = "off"
    /\ rows = << >>
    /\ before = {}
    /\ after = 0

\* default_factory=_utcnow
Build(w) ==
    /\ built[w] = Nothing
    /\ built' = [built EXCEPT ![w] = clock]
    /\ UNCHANGED <<scans, clock, walk, rows, before, after>>

\* Mutated Commit: the default of created_at is lost.
CommitUndated(w) ==
    /\ built[w] # Nothing
    /\ Len(scans) < MaxScans
    /\ scans' = Append(scans, Nothing)
    /\ built' = [built EXCEPT ![w] = Nothing]
    /\ UNCHANGED <<clock, walk, rows, before, after>>

\* The row is there for every later SELECT.
Commit(w) ==
    /\ built[w] # Nothing
    /\ Len(scans) < MaxScans
    /\ scans' = Append(scans, built[w])
    /\ built' = [built EXCEPT ![w] = Nothing]
    /\ UNCHANGED <<clock, walk, rows, before, after>>

SetClock ==
    /\ clock' \in 0..MaxClock \ {clock}
    /\ UNCHANGED <<scans, built, walk, rows, before, after>>

\* Mutated Precedes: the secondary sort by id is left out.
PrecedesByDate(i, j) == scans[i] > scans[j]

\* ORDER BY created_at DESC, id DESC
Precedes(i, j) ==
    \/ scans[i] > scans[j]
    \/ scans[i] = scans[j] /\ i > j

\* What the database may answer: any order that the sort keys allow.
Orders ==
    {s \in SetToSeqs(Ids) : \A m, n \in DOMAIN s : m < n => ~Precedes(s[n], s[m])}

\* Mutated Slice: the offset counts pages.
SlicePages(s, limit, offset) ==
    SubSeq(s, offset * limit + 1,
           IF (offset + 1) * limit < Len(s) THEN (offset + 1) * limit ELSE Len(s))

\* OFFSET, LIMIT
Slice(s, limit, offset) ==
    SubSeq(s, offset + 1, IF offset + limit < Len(s) THEN offset + limit ELSE Len(s))

\* The client's next page, of a size of its choice, from where it is.  A page
\* that is not full is the last one.
Page ==
    \E limit \in 1..MaxLimit, s \in Orders :
        LET offset == IF walk = "on" THEN Len(rows) ELSE 0
            page == Slice(s, limit, offset)
        IN  /\ rows' = (IF walk = "on" THEN rows ELSE << >>) \o page
            /\ walk' = IF Len(page) < limit THEN "over" ELSE "on"
            /\ before' = IF walk = "on" THEN before ELSE Ids
            /\ after' = Len(scans)
            /\ UNCHANGED <<scans, built, clock>>

Next ==
    \/ \E w \in Writers : Build(w) \/ Commit(w)
    \/ SetClock
    \/ Page

Spec == Init /\ [][Next]_vars
-----------------------------------------------------------------------------
TypeOK ==
    /\ scans \in Seq(0..MaxClock)
    /\ built \in [Writers -> {Nothing} \cup 0..MaxClock]
    /\ clock \in 0..MaxClock
    /\ walk \in {"off", "on", "over"}
    /\ rows \in Seq(Ids)
    /\ before \subseteq Ids
    /\ after \in 0..Len(scans)

\* Offset paging is not a snapshot, but it loses nothing: whatever is added
\* between two pages, wherever it lands in the order, a walk that has come to
\* its end has shown every scan that was there when it began.
NothingSkipped == walk = "over" => before \subseteq ToSet(rows)

\* What it costs: a scan is shown twice only in the place of another one that
\* arrived during the walk and is not shown at all.
Repeats == Len(rows) - Cardinality(ToSet(rows))
Hidden == (1..after) \ ToSet(rows)
EachRepeatHidesAnArrival == walk = "over" => Repeats = Cardinality(Hidden)

=============================================================================
