------------------------------- MODULE Checks -------------------------------
(***************************************************************************)
(* The ten guardrail rules of rules/checks, each as an operator from a     *)
(* resource to what its evaluate() gives: a sequence of findings, or an    *)
(* exception (Raises).  A resource is [logical_id, type, properties].      *)
(*                                                                         *)
(* The message of a finding is left out; remediation texts are keyed by    *)
(* the rule.                                                               *)
(***************************************************************************)
EXTENDS Values, Ranking, SequencesExt

Finding(rule_id, severity, resource) ==
    [rule_id |-> rule_id, severity |-> severity,
     resource_logical_id |-> resource.logical_id]

Returns(findings) == [raised |-> FALSE, findings |-> findings]
Raises == [raised |-> TRUE, findings |-> << >>]

\* One finding when the condition holds, else [].
FiresWhen(condition, rule_id, severity, resource) ==
    Returns(IF condition THEN <<Finding(rule_id, severity, resource)>> ELSE << >>)

\* [s[n] for n in positions], in order
kept(s, positions) ==
    LET place == Ranked(positions, {pair \in positions \X positions : pair[1] < pair[2]})
    IN  [n \in DOMAIN place |-> s[place[n]]]

Has(resource, property) == HasKey(resource.properties, Str(property))
Property(resource, property) == Get(resource.properties, Str(property))
Literal(resource, property) == literal_or_none(Property(resource, property))

\* Absent, or literally false: the pattern of the two encryption flags.
AbsentOrFalse(resource, property) ==
    ~Has(resource, property) \/ Literal(resource, property) = Bool(FALSE)
-----------------------------------------------------------------------------
(* cloudtrail.py, ec2.py, rds.py *)

CloudTrailMissingKmsKeyId(r) ==
    FiresWhen(~Has(r, "KMSKeyId"), "CFN_CT_001", "MEDIUM", r)

EbsVolumeNotEncrypted(r) ==
    FiresWhen(AbsentOrFalse(r, "Encrypted"), "CFN_EC2_001", "MEDIUM", r)

RdsStorageNotEncrypted(r) ==
    FiresWhen(AbsentOrFalse(r, "StorageEncrypted"), "CFN_RDS_001", "HIGH", r)

\* Mutated RdsPubliclyAccessible: anything but a literal false fires.
RdsPubliclyAccessibleTruthy(r) ==
    FiresWhen(Property(r, "PubliclyAccessible") \notin {None, Bool(FALSE)},
              "CFN_RDS_002", "CRITICAL", r)

RdsPubliclyAccessible(r) ==
    FiresWhen(Literal(r, "PubliclyAccessible") = Bool(TRUE), "CFN_RDS_002", "CRITICAL", r)
-----------------------------------------------------------------------------
(* s3.py *)

S3MissingBucketEncryption(r) ==
    FiresWhen(~Has(r, "BucketEncryption"), "CFN_S3_001", "HIGH", r)

PUBLIC_ACCESS_BLOCK_FLAGS ==
    {"BlockPublicAcls", "IgnorePublicAcls", "BlockPublicPolicy", "RestrictPublicBuckets"}

\* Absent and null are the same; an intrinsic or a non-dict block passes; one
\* finding however many flags are literally false.
S3MissingPublicAccessBlock(r) ==
    LET block == Property(r, "PublicAccessBlockConfiguration")
        offending == {flag \in PUBLIC_ACCESS_BLOCK_FLAGS :
                         /\ HasKey(block, Str(flag))
                         /\ literal_or_none(Get(block, Str(flag))) = Bool(FALSE)}
    IN  FiresWhen(\/ block = None
                  \/ IsDict(block) /\ ~is_intrinsic(block) /\ offending # {},
                  "CFN_S3_002", "CRITICAL", r)

\* The literal is looked up in a set: a list or a dict cannot be hashed.
S3PublicAcl(r) ==
    LET access_control == Literal(r, "AccessControl")
    IN  IF ~Hashable(access_control)
        THEN Raises
        ELSE FiresWhen(access_control \in {Str("PublicRead"), Str("PublicReadWrite")},
                       "CFN_S3_003", "CRITICAL", r)
-----------------------------------------------------------------------------
(* sg.py *)

OPEN_CIDRS == {Str("0.0.0.0/0"), Str("::/0")}
HIGH_RISK_PORTS == {22, 3389}

\* Mutated port_range_covers_high_risk: only a bound that is such a port counts.
port_range_covers_high_riskBounds(from_port, to_port) ==
    LET fp == literal_or_none(from_port)
        tp == literal_or_none(to_port)
    IN  IsInt(fp) /\ IsInt(tp) /\ {AsInt(fp), AsInt(tp)} \cap (HIGH_RISK_PORTS \cup {-1}) # {}

\* Not known when a bound is no literal int; -1 stands for all ports; the bounds
\* may be given in either order.
port_range_covers_high_risk(from_port, to_port) ==
    LET fp == literal_or_none(from_port)
        tp == literal_or_none(to_port)
    IN  /\ IsInt(fp) /\ IsInt(tp)
        /\ \/ -1 \in {AsInt(fp), AsInt(tp)}
           \/ \E port \in HIGH_RISK_PORTS :
                 \/ AsInt(fp) <= port /\ port <= AsInt(tp)
                 \/ AsInt(tp) <= port /\ port <= AsInt(fp)

\* "cidr_v4 in _OPEN_CIDRS or cidr_v6 in _OPEN_CIDRS", which raises when it gets
\* to a value that cannot be hashed.
Cidrs(entry) == <<literal_or_none(Get(entry, Str("CidrIp"))),
                  literal_or_none(Get(entry, Str("CidrIpv6")))>>
CidrRaises(entry) ==
    LET c == Cidrs(entry)
    IN  ~Hashable(c[1]) \/ (c[1] \notin OPEN_CIDRS /\ ~Hashable(c[2]))
WideOpen(entry) == \E i \in 1..2 : Cidrs(entry)[i] \in OPEN_CIDRS

IngressFinding(entry, r) ==
    Finding("CFN_SG_001",
            IF port_range_covers_high_risk(Get(entry, Str("FromPort")), Get(entry, Str("ToPort")))
            THEN "CRITICAL" ELSE "HIGH",
            r)

\* One finding per open entry; an entry that raises loses them all.
SecurityGroupWideOpenIngress(r) ==
    LET ingress == Literal(r, "SecurityGroupIngress")
        entry == IF IsList(ingress) THEN ingress.list ELSE << >>
        readable == {n \in DOMAIN entry : IsDict(entry[n]) /\ ~is_intrinsic(entry[n])}
        open == kept(entry, {n \in readable : WideOpen(entry[n])})
    IN  IF \E n \in readable : CidrRaises(entry[n])
        THEN Raises
        ELSE Returns([i \in DOMAIN open |-> IngressFinding(open[i], r)])
-----------------------------------------------------------------------------
(* iam.py *)

POLICY_DOCUMENT_TYPES == {"AWS::IAM::Policy", "AWS::IAM::ManagedPolicy"}
POLICIES_LIST_TYPES == {"AWS::IAM::Role", "AWS::IAM::User", "AWS::IAM::Group"}
ALL_IAM_TYPES == POLICY_DOCUMENT_TYPES \cup POLICIES_LIST_TYPES

\* if doc is not None: docs.append(doc)
not_none(docs) == kept(docs, {n \in DOMAIN docs : docs[n] # None})

\* The documents of the inline policies; a policy that is no literal dict has
\* none.
InlineDocuments(policies) ==
    [i \in DOMAIN policies |->
        IF IsDict(literal_or_none(policies[i]))
        THEN literal_or_none(Get(policies[i], Str("PolicyDocument")))
        ELSE None]

\* Every document attached to the resource that is not an intrinsic.
iter_policy_documents(r) ==
    LET policies == Literal(r, "Policies")
        single == IF r.type \in POLICY_DOCUMENT_TYPES
                  THEN <<Literal(r, "PolicyDocument")>> ELSE << >>
        inline == IF r.type \in POLICIES_LIST_TYPES /\ IsList(policies)
                  THEN InlineDocuments(policies.list) ELSE << >>
        assume == IF r.type = "AWS::IAM::Role"
                  THEN <<Literal(r, "AssumeRolePolicyDocument")>> ELSE << >>
    IN  not_none(single) \o not_none(inline) \o not_none(assume)

IsAllow(stmt) ==
    LET stmt_lit == literal_or_none(stmt)
    IN  IsDict(stmt_lit) /\ literal_or_none(Get(stmt_lit, Str("Effect"))) = Str("Allow")

allow_statements(document) ==
    LET value == literal_or_none(Get(document, Str("Statement")))
        statements == as_list(value)
    IN  IF ~IsDict(document) \/ value = None
        THEN << >>
        ELSE kept(statements, {n \in DOMAIN statements : IsAllow(statements[n])})

has_literal_star(v) ==
    /\ literal_or_none(v) # None
    /\ \E i \in DOMAIN as_list(v) : as_list(v)[i] = Str("*")

\* The Allow statements of a document whose field has the full wildcard.
starred(doc, field) ==
    {n \in DOMAIN allow_statements(doc) :
        has_literal_star(Get(allow_statements(doc)[n], Str(field)))}

\* Both rules: one finding for each of them, document by document.
StarFindings(r, field, rule_id, severity) ==
    LET docs == iter_policy_documents(r)
    IN  Returns(FlattenSeq([i \in DOMAIN docs |->
                    [k \in 1..Cardinality(starred(docs[i], field)) |->
                        Finding(rule_id, severity, r)]]))

IamAllowActionWildcard(r) == StarFindings(r, "Action", "CFN_IAM_001", "HIGH")

IamAllowResourceWildcard(r) == StarFindings(r, "Resource", "CFN_IAM_002", "MEDIUM")
-----------------------------------------------------------------------------
(* The registry, in the order rules/checks/__init__.py imports the modules. *)

Rule(id, resource_types) == [id |-> id, resource_types |-> resource_types]

all_rules ==
    << Rule("CFN_CT_001", {"AWS::CloudTrail::Trail"}),
       Rule("CFN_EC2_001", {"AWS::EC2::Volume"}),
       Rule("CFN_IAM_001", ALL_IAM_TYPES),
       Rule("CFN_IAM_002", ALL_IAM_TYPES),
       Rule("CFN_RDS_001", {"AWS::RDS::DBInstance"}),
       Rule("CFN_RDS_002", {"AWS::RDS::DBInstance"}),
       Rule("CFN_S3_001", {"AWS::S3::Bucket"}),
       Rule("CFN_S3_002", {"AWS::S3::Bucket"}),
       Rule("CFN_S3_003", {"AWS::S3::Bucket"}),
       Rule("CFN_SG_001", {"AWS::EC2::SecurityGroup"}) >>

\* rule.evaluate(resource, template); no rule looks at the template.
evaluate(rule_id, r) ==
    CASE rule_id = "CFN_CT_001" -> CloudTrailMissingKmsKeyId(r)
      [] rule_id = "CFN_EC2_001" -> EbsVolumeNotEncrypted(r)
      [] rule_id = "CFN_IAM_001" -> IamAllowActionWildcard(r)
      [] rule_id = "CFN_IAM_002" -> IamAllowResourceWildcard(r)
      [] rule_id = "CFN_RDS_001" -> RdsStorageNotEncrypted(r)
      [] rule_id = "CFN_RDS_002" -> RdsPubliclyAccessible(r)
      [] rule_id = "CFN_S3_001" -> S3MissingBucketEncryption(r)
      [] rule_id = "CFN_S3_002" -> S3MissingPublicAccessBlock(r)
      [] rule_id = "CFN_S3_003" -> S3PublicAcl(r)
      [] rule_id = "CFN_SG_001" -> SecurityGroupWideOpenIngress(r)
=============================================================================
