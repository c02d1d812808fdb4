--------------------------- MODULE MCScanService ---------------------------
(* Instances of ScanService for TLC: a template that is refused, one without *)
(* findings and one that fails the gate, more requests in flight than there  *)
(* are connections, and a crash.                                             *)
EXTENDS ScanService, TLC

CONSTANTS w1, w2, nobody, bad, clean, risky

MCWorkers == {w1, w2}
MCTemplates == {bad, clean, risky}
MCParsing == (bad :> "MalformedTemplate") @@ (clean :> "ok") @@ (risky :> "ok")
MCEvaluation ==
    (bad :> << >>) @@ (clean :> << >>) @@ (risky :> <<"LOW", "CRITICAL">>)

WorkerSymmetry == Permutations(MCWorkers)
=============================================================================
