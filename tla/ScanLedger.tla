----------------------------- MODULE ScanLedger -----------------------------
(***************************************************************************)
(* What the service promises about scans, with nothing of how it is done:  *)
(* a ledger to which each attempt to scan a template adds at most one      *)
(* entry, whose counters are the tally of its findings; entries are never  *)
(* changed or removed, and what a client is shown is an entry as it        *)
(* stands, with the score of its counters.                                 *)
(***************************************************************************)
EXTENDS Scoring, Sequences, FiniteSets

CONSTANTS Attempts,   \* POST /scans requests
          Results     \* what evaluating a template can find: Seq(Severity)

VARIABLES ledger,     \* the stored scans, by id
          shown       \* the bodies clients were given

\* Per severity, how many findings have it.
Tally(found) ==
    [s \in Severity |-> Cardinality({i \in DOMAIN found : found[i] = s})]

Entry(by, found) ==
    [by |-> by, found |-> found, finding_count |-> Len(found), counts |-> Tally(found)]

Body(id, entry) ==
    [id |-> id, finding_count |-> entry.finding_count, counts |-> entry.counts,
     found |-> entry.found, score |-> score(entry.counts)]

Init == ledger = << >> /\ shown = {}

Record(by, found) ==
    /\ \A i \in 1..Len(ledger) : ledger[i].by # by
    /\ ledger' = Append(ledger, Entry(by, found))
    /\ UNCHANGED shown

Show(id) ==
    /\ shown' = shown \cup {Body(id, ledger[id])}
    /\ UNCHANGED ledger

Next == \/ \E by \in Attempts, found \in Results : Record(by, found)
        \/ \E id \in 1..Len(ledger) : Show(id)

Spec == Init /\ [][Next]_<<ledger, shown>>
=============================================================================
