----------------------------- MODULE ScoreCalls -----------------------------
(***************************************************************************)
(* The mappings score() is called with: filled in key by key, in any       *)
(* order, with any value, possibly under keys that are no severity.        *)
(***************************************************************************)
EXTENDS Scoring

CONSTANTS OtherKeys,    \* mapping keys that are no Severity member
          CountValues   \* the values a caller may store under a key

ASSUME OtherKeysAssumption == OtherKeys \cap Severity = {}
ASSUME CountValuesAssumption == CountValues \subseteq Int

Keys == Severity \cup OtherKeys

VARIABLE counts

\* {} and then counts[k] = n, the way a caller builds the mapping.
CallsInit == counts = [k \in {} |-> 0]

Put(k, n) ==
    counts' = [j \in DOMAIN counts \cup {k} |-> IF j = k THEN n ELSE counts[j]]

CallsNext == \E k \in Keys, n \in CountValues : Put(k, n)

CallsSpec == CallsInit /\ [][CallsNext]_counts
-----------------------------------------------------------------------------
CallsTypeOK == /\ DOMAIN counts \subseteq Keys
          /\ \A k \in DOMAIN counts : counts[k] \in CountValues

Scored == score(counts).raised = "nothing"

\* 1 is the best grade.
GradeRank == [A |-> 1, B |-> 2, C |-> 3, D |-> 4, F |-> 5]

\* The band table of the module's docstring, as intervals.
BandOf(letter) ==
    CASE letter = "A" -> 90..100
      [] letter = "B" -> 80..89
      [] letter = "C" -> 70..79
      [] letter = "D" -> 60..69
      [] letter = "F" -> 0..59

\* Every mapping that is not refused gets a score in 0..100 and the one grade
\* whose documented interval holds it: the clamp and the first-match search of
\* score() and _grade_for together leave no gap and no overlap.
GradeMatchesBand ==
    Scored => score(counts).score \in BandOf(score(counts).grade)

\* What the two independent verdicts say of each other: a failed gate never
\* comes with a grade better than D, and an A means no CRITICAL, no HIGH and at
\* most one MEDIUM finding (score() computes them by separate lines).
GateAndGradeAgree ==
    Scored =>
        /\ ~score(counts).passed =>
               score(counts).score <= 60 /\ score(counts).grade \in {"D", "F"}
        /\ score(counts).grade = "A" =>
               /\ get(counts, "CRITICAL") = 0
               /\ get(counts, "HIGH") = 0
               /\ get(counts, "MEDIUM") <= 1

\* A severity that is absent and one that is 0 are the same to score(), and so
\* is every key that is no severity.
Nonzero == [s \in {r \in DOMAIN counts \cap Severity : counts[r] # 0} |-> counts[s]]

MissingIsZero == Scored => score(counts) = score(Nonzero)

\* Raising any count never raises the score, never improves the grade and never
\* turns a failed gate into a passed one: the clamp must not fold back and the
\* bands must be ordered.
MoreFindingsNeverHelp ==
    [][ Scored /\ Scored' /\ (\A s \in Severity : get(counts', s) >= get(counts, s))
        => LET r == score(counts)
               q == score(counts')
           IN  /\ q.score <= r.score
               /\ GradeRank[q.grade] >= GradeRank[r.grade]
               /\ q.passed => r.passed ]_counts
=============================================================================
