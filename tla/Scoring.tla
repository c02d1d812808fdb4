------------------------------ MODULE Scoring ------------------------------
(***************************************************************************)
(* src/cfn_auditor/scoring.py: severity counts -> score, letter grade and  *)
(* pre-deploy gate.  The operators keep the names of the Python functions; *)
(* a mapping of counts is a function whose domain may miss severities and  *)
(* may hold keys that are none.                                            *)
(***************************************************************************)
EXTENDS Integers

Severity == {"CRITICAL", "HIGH", "MEDIUM", "LOW", "INFO"}

PENALTY_WEIGHTS ==
    [CRITICAL |-> 40, HIGH |-> 20, MEDIUM |-> 10, LOW |-> 3, INFO |-> 0]

\* Inclusive lower bounds, best grade first.
GRADE_BANDS == << <<90, "A">>, <<80, "B">>, <<70, "C">>, <<60, "D">> >>

\* counts.get(sev, 0)
get(counts, sev) == IF sev \in DOMAIN counts THEN counts[sev] ELSE 0

\* Mutated penalty: HIGH is left out of the sum.
penaltyNoHigh(counts) ==
      PENALTY_WEIGHTS["CRITICAL"] * get(counts, "CRITICAL")
    + PENALTY_WEIGHTS["MEDIUM"]   * get(counts, "MEDIUM")
    + PENALTY_WEIGHTS["LOW"]      * get(counts, "LOW")

\* The sum over the Severity enumeration: keys outside it do not count.
penalty(counts) ==
      PENALTY_WEIGHTS["CRITICAL"] * get(counts, "CRITICAL")
    + PENALTY_WEIGHTS["HIGH"]     * get(counts, "HIGH")
    + PENALTY_WEIGHTS["MEDIUM"]   * get(counts, "MEDIUM")
    + PENALTY_WEIGHTS["LOW"]      * get(counts, "LOW")
    + PENALTY_WEIGHTS["INFO"]     * get(counts, "INFO")

\* Mutated clamp: a negative raw score loses its sign.
Abs(n) == IF n >= 0 THEN n ELSE 0 - n

Max0(n) == IF n >= 0 THEN n ELSE 0

\* _grade_for: the first band whose lower bound is reached.
grade_for(n) ==
    LET hit == {i \in 1..4 : n >= GRADE_BANDS[i][1]}
    IN  IF hit = {} THEN "F"
        ELSE GRADE_BANDS[CHOOSE i \in hit : \A j \in hit : i <= j][2]

\* Any negative entry, under any key, is refused before anything is computed.
refused(counts) == \E k \in DOMAIN counts : counts[k] < 0

ScoreResult(counts) ==
    LET final_score == Max0(100 - penalty(counts))
    IN  [raised |-> "nothing",
         score  |-> final_score,
         grade  |-> grade_for(final_score),
         passed |-> get(counts, "CRITICAL") = 0]

\* score(): a ScoreResult, or the exception it raises.
score(counts) ==
    IF refused(counts) THEN [raised |-> "ValueError"] ELSE ScoreResult(counts)
=============================================================================
