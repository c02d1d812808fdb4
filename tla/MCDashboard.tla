---------------------------- MODULE MCDashboard ----------------------------
(* An instance of Dashboard for TLC: two users, a template whose findings are *)
(* stored in another order than the table's, and one the API refuses.        *)
EXTENDS Dashboard, TLC

CONSTANTS u1, u2, mixed, bad

MCUsers == {u1, u2}
UserSymmetry == Permutations(MCUsers)
MCTemplates == {mixed, bad}
MCParsing == (mixed :> 201) @@ (bad :> 400)
F(severity, rule_id, resource) == [id |-> 0, severity |-> severity, rule_id |-> rule_id, resource |-> resource]
MCFound == (mixed :> << F("INFO", 9, 1), F("MEDIUM", 3, 2) >>) @@ (bad :> << >>)
MCEarlier == { << >>, << [click |-> 0, template |-> mixed, created_at |-> 0] >> }
=============================================================================
