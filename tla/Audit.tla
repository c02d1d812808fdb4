-------------------------------- MODULE Audit --------------------------------
(***************************************************************************)
(* What a scan promises, in one step: the content is refused with the      *)
(* parser's error, or every rule is asked about every resource it applies  *)
(* to, on its own, and the findings are recorded in the order of resources *)
(* and rules.  A rule that raises contributes nothing and costs nobody     *)
(* else a finding, and it is named in the log.                             *)
(***************************************************************************)
EXTENDS SequencesExt

CONSTANTS
    parse_template(_),
    all_rules,          \* the registry: each rule has an id and its resource types
    evaluate(_, _)      \* what the rule of an id gives for a resource

VARIABLES content, verdict

Pending == [error |-> "pending", rows |-> << >>, failures |-> << >>]

\* What one rule says of one resource, and what is logged when it raises.
Opinion(rule, resource) ==
    IF resource.type \in rule.resource_types
    THEN evaluate(rule.id, resource).findings ELSE << >>
Failure(rule, resource) ==
    IF resource.type \in rule.resource_types /\ evaluate(rule.id, resource).raised
    THEN << <<resource.logical_id, rule.id>> >> ELSE << >>

\* What the whole registry says of one resource.
WholeRegistry(Say(_, _), resource) ==
    FlattenSeq([j \in DOMAIN all_rules |-> Say(all_rules[j], resource)])
Opinions(resource) == WholeRegistry(Opinion, resource)
Failures(resource) == WholeRegistry(Failure, resource)

Verdict(c) ==
    LET template == parse_template(c)
        Each(Say(_)) == FlattenSeq([i \in DOMAIN template.resources |-> Say(template.resources[i])])
    IN  [error |-> template.error, rows |-> Each(Opinions), failures |-> Each(Failures)]

Scan == verdict = Pending /\ verdict' = Verdict(content) /\ UNCHANGED content

\* The client changes its template before it posts it.
Edit == verdict = Pending /\ UNCHANGED verdict

Spec == verdict = Pending /\ [][Scan \/ Edit]_<<content, verdict>>
=============================================================================
