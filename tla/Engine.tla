------------------------------- MODULE Engine -------------------------------
(***************************************************************************)
(* engine/scanner.py, run_scan: parse, then the loop over resources and    *)
(* rules of _evaluate_all, then what _persist builds from its findings.    *)
(* One action is one pass of the inner loop.  The parser is Parser; how the *)
(* built scan reaches the database is ScanService.                         *)
(***************************************************************************)
EXTENDS Checks, Parser, FiniteSets

CONSTANT Contents   \* what clients begin with

\* What a client may post, and what can be wrong with it.
Faults == {"encode", "size", "utf-8", "yaml", "loader"}
Documents == [faults : SUBSET Faults, root : Within[Depth]]

ASSUME ContentsAssumption == Contents \subseteq Documents

VARIABLES
    content,    \* run_scan's argument
    stage,      \* "parse", "evaluate", "persisted" or "refused"
    template,   \* the parsed template, or the error
    i, j,       \* the loop's position: resource and rule
    pairs,      \* _evaluate_all's list, without the messages
    failures,   \* the rule failures it has logged
    counts      \* the scan's counters

vars == <<content, stage, template, i, j, pairs, failures, counts>>

SEVERITIES == {"CRITICAL", "HIGH", "MEDIUM", "LOW", "INFO"}
NoTemplate == [error |-> "pending", resources |-> << >>]
NoCounts == [s \in SEVERITIES |-> 0]

Init ==
    /\ content \in Contents
    /\ stage = "parse"
    /\ template = NoTemplate
    /\ i = 1 /\ j = 1
    /\ pairs = << >>
    /\ failures = << >>
    /\ counts = NoCounts

Parse ==
    /\ stage = "parse"
    /\ template' = parse_template(content)
    /\ stage' = IF template'.error = "none" THEN "evaluate" ELSE "refused"
    /\ UNCHANGED <<content, i, j, pairs, failures, counts>>

resource == template.resources[i]
rule == all_rules[j]
Produced == evaluate(rule.id, resource)
InLoop == stage = "evaluate" /\ i <= Len(template.resources)

\* Mutated Advance: the inner loop is not started anew.
AdvanceNoReset ==
    /\ i' = IF j < Len(all_rules) THEN i ELSE i + 1
    /\ j' = j + 1
    /\ UNCHANGED <<content, stage, template, counts>>

\* The next rule, or the first rule and the next resource.
Advance ==
    /\ i' = IF j < Len(all_rules) THEN i ELSE i + 1
    /\ j' = IF j < Len(all_rules) THEN j + 1 ELSE 1
    /\ UNCHANGED <<content, stage, template, counts>>

\* resource.type not in rule.resource_types: continue
Skip ==
    /\ InLoop
    /\ resource.type \notin rule.resource_types
    /\ Advance
    /\ UNCHANGED <<pairs, failures>>

\* Each finding is kept with the type of the resource that produced it.
Collect ==
    /\ InLoop
    /\ resource.type \in rule.resource_types
    /\ ~Produced.raised
    /\ pairs' = pairs \o [n \in DOMAIN Produced.findings |->
                             [finding |-> Produced.findings[n], resource_type |-> resource.type]]
    /\ failures' = failures
    /\ Advance

\* Mutated RuleRaises: the try is around the loops, so the first failure ends them.
RuleRaisesOnce ==
    /\ InLoop
    /\ resource.type \in rule.resource_types
    /\ Produced.raised
    /\ failures' = Append(failures, <<resource.logical_id, rule.id>>)
    /\ i' = Len(template.resources) + 1
    /\ UNCHANGED <<content, stage, template, j, pairs, counts>>

\* except Exception: logged, continue
RuleRaises ==
    /\ InLoop
    /\ resource.type \in rule.resource_types
    /\ Produced.raised
    /\ failures' = Append(failures, <<resource.logical_id, rule.id>>)
    /\ pairs' = pairs
    /\ Advance

\* _persist: the rows in order, and the counters computed from them once.
severity_counts(rows) ==
    [s \in SEVERITIES |-> Cardinality({n \in DOMAIN rows : rows[n].finding.severity = s})]

Persist ==
    /\ stage = "evaluate"
    /\ i > Len(template.resources)
    /\ counts' = severity_counts(pairs)
    /\ stage' = "persisted"
    /\ UNCHANGED <<content, template, i, j, pairs, failures>>

Next == Parse \/ Skip \/ Collect \/ RuleRaises \/ Persist

Spec == Init /\ [][Next]_vars
-----------------------------------------------------------------------------
RuleIds == {all_rules[n].id : n \in DOMAIN all_rules}

TypeOK ==
    /\ stage \in {"parse", "evaluate", "persisted", "refused"}
    /\ template.error \in {"pending", "none", "TemplateTooLarge", "MalformedTemplate",
                           "NotACloudFormationTemplate", "Exception"}
    /\ template.error = "none" <=> template.resources # << >>
    /\ \A n \in DOMAIN template.resources :
          LET r == template.resources[n]
          IN  r.logical_id \in STRING /\ r.type \in STRING \ {""} /\ IsDict(r.properties)
    /\ i \in 1..(Len(template.resources) + 1)
    /\ j \in DOMAIN all_rules
    /\ \A n \in DOMAIN pairs : pairs[n].finding.rule_id \in RuleIds
                               /\ pairs[n].finding.severity \in SEVERITIES
    /\ counts \in [SEVERITIES -> Nat]

\* The loop gives what Audit says in one step: each rule is asked once about
\* each resource of its types, the order is that of resources and rules, and
\* failures stay with the rule and resource they happened in; scanner.py:14, "A
\* raising rule is logged and skipped": each is named once in the log.
verdict ==
    IF stage \in {"parse", "evaluate"}
    THEN [error |-> "pending", rows |-> << >>, failures |-> << >>]
    ELSE [error |-> template.error, rows |-> [n \in DOMAIN pairs |-> pairs[n].finding],
          failures |-> failures]

Audited == INSTANCE Audit
ImplementsAudit == Audited!Spec

\* base.py:34-35: a property whose value is an unresolved intrinsic proves nothing.
\* Whatever a resource has, putting an intrinsic in the place of one property's
\* value never adds a finding, of any rule.
Reference == Dict(<<Item(Str("Fn::If"), Str("x"))>>)
WithIntrinsic(r, n) ==
    [r EXCEPT !.properties = Dict([@.dict EXCEPT ![n].value = Reference])]
IntrinsicsProveNothing ==
    stage = "persisted" =>
        \A m \in DOMAIN template.resources :
            LET r == template.resources[m]
            IN  \A n \in DOMAIN r.properties.dict : \A id \in RuleIds :
                    Len(evaluate(id, WithIntrinsic(r, n)).findings) <= Len(evaluate(id, r).findings)

\* What the docstrings of the rules promise, said of the resource and not of a
\* loop: the number of findings of each severity.  FindingsAsDocumented holds the
\* operators of Checks (filters, literal_or_none, port ranges) against it, for
\* every resource on which no rule raises.
OpenEntries(r) ==
    LET ingress == Property(r, "SecurityGroupIngress")
    IN  IF ~IsList(ingress) THEN {}
        ELSE {n \in DOMAIN ingress.list :
                 /\ IsDict(ingress.list[n])
                 /\ \/ Get(ingress.list[n], Str("CidrIp")) \in OPEN_CIDRS
                    \/ Get(ingress.list[n], Str("CidrIpv6")) \in OPEN_CIDRS}
AdminEntries(r) ==
    {n \in OpenEntries(r) :
        LET entry == Property(r, "SecurityGroupIngress").list[n]
            from == Get(entry, Str("FromPort"))
            to == Get(entry, Str("ToPort"))
        IN  /\ IsInt(from) /\ IsInt(to)
            /\ \/ AsInt(from) = -1 \/ AsInt(to) = -1
               \/ HIGH_RISK_PORTS \cap ((AsInt(from)..AsInt(to)) \cup (AsInt(to)..AsInt(from))) # {}}
FlagsOff(r) ==
    LET block == Property(r, "PublicAccessBlockConfiguration")
    IN  IsDict(block) /\ \E flag \in PUBLIC_ACCESS_BLOCK_FLAGS : Get(block, Str(flag)) = Bool(FALSE)
One(condition) == IF condition THEN 1 ELSE 0

\* The policy documents of an IAM resource, numbered; the statements of one.
DocumentsOf(r) ==
    (IF r.type \in POLICY_DOCUMENT_TYPES THEN {<<0, Property(r, "PolicyDocument")>>} ELSE {})
    \cup (IF r.type = "AWS::IAM::Role" THEN {<<-1, Property(r, "AssumeRolePolicyDocument")>>} ELSE {})
    \cup (IF r.type \in POLICIES_LIST_TYPES /\ IsList(Property(r, "Policies"))
          THEN LET policies == Property(r, "Policies").list
               IN  {<<n, Get(policies[n], Str("PolicyDocument"))>> :
                        n \in {m \in DOMAIN policies : IsDict(policies[m])}}
          ELSE {})
StatementsOf(doc) ==
    IF IsDict(doc) THEN as_list(Get(doc, Str("Statement"))) ELSE << >>
GrantsAll(stmt, field) ==
    /\ IsDict(stmt)
    /\ Get(stmt, Str("Effect")) = Str("Allow")
    /\ Str("*") \in ToSet(as_list(Get(stmt, Str(field))))
Starred(r, field) ==
    UNION {{<<d[1], n>> : n \in {m \in DOMAIN StatementsOf(d[2]) :
                                    GrantsAll(StatementsOf(d[2])[m], field)}} :
               d \in DocumentsOf(r)}

Promise(critical, high, medium) == [CRITICAL |-> critical, HIGH |-> high, MEDIUM |-> medium]
GroupPromise(r) ==
    Promise(Cardinality(AdminEntries(r)), Cardinality(OpenEntries(r) \ AdminEntries(r)), 0)
BucketPromise(r) ==
    Promise(One(Property(r, "PublicAccessBlockConfiguration") = None \/ FlagsOff(r))
               + One(Property(r, "AccessControl") \in {Str("PublicRead"), Str("PublicReadWrite")}),
            One(~Has(r, "BucketEncryption")), 0)
InstancePromise(r) ==
    Promise(One(Property(r, "PubliclyAccessible") = Bool(TRUE)),
            One(~Has(r, "StorageEncrypted") \/ Property(r, "StorageEncrypted") = Bool(FALSE)), 0)
VolumePromise(r) ==
    Promise(0, 0, One(~Has(r, "Encrypted") \/ Property(r, "Encrypted") = Bool(FALSE)))
TrailPromise(r) == Promise(0, 0, One(~Has(r, "KMSKeyId")))
PolicyPromise(r) ==
    Promise(0, Cardinality(Starred(r, "Action")), Cardinality(Starred(r, "Resource")))

Documented(r) ==
    CASE r.type = "AWS::EC2::SecurityGroup" -> GroupPromise(r)
      [] r.type = "AWS::S3::Bucket" -> BucketPromise(r)
      [] r.type = "AWS::RDS::DBInstance" -> InstancePromise(r)
      [] r.type = "AWS::EC2::Volume" -> VolumePromise(r)
      [] r.type = "AWS::CloudTrail::Trail" -> TrailPromise(r)
      [] r.type \in ALL_IAM_TYPES -> PolicyPromise(r)
      [] OTHER -> Promise(0, 0, 0)

Reported(r, severity) ==
    LET said == Audited!Opinions(r)
    IN  Cardinality({n \in DOMAIN said : said[n].severity = severity})
Raised(r) == \E n \in DOMAIN all_rules :
    r.type \in all_rules[n].resource_types /\ evaluate(all_rules[n].id, r).raised

FindingsAsDocumented ==
    stage = "persisted" =>
        \A n \in DOMAIN template.resources :
            LET r == template.resources[n]
            IN  Raised(r) \/ \A severity \in {"CRITICAL", "HIGH", "MEDIUM"} :
                                 Reported(r, severity) = Documented(r)[severity]

\* sg.py:57, the docstring of evaluate: "Emit one finding per offending inline
\* ingress entry".
OneFindingPerOpenEntry ==
    stage = "persisted" =>
        \A n \in DOMAIN template.resources :
            LET r == template.resources[n]
            IN  r.type = "AWS::EC2::SecurityGroup" =>
                    Len(Audited!Opinions(r)) = Cardinality(OpenEntries(r))
=============================================================================
