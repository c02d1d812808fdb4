------------------------------ MODULE MCEngine ------------------------------
(* The instance of DocumentScans for TLC.  Clients begin with a document of  *)
(* one or two resources of the types rules ask for, with a root that is no   *)
(* template, with a content that is faulty, or with an empty template to     *)
(* which they add entries.                                                   *)
EXTENDS DocumentScans, TLC


\* A dict, from pairs of a string and a value.
D(ps) == Dict([n \in DOMAIN ps |-> Item(Str(ps[n][1]), ps[n][2])])
Ref == D(<< <<"Ref", Str("Name")>> >>)
Opaque == D(<< <<"!Unknown", Str("Name")>> >>)    \* an unknown short tag
TwoKeys == D(<< <<"Ref", Str("Name")>>, <<"Other", Str("x")>> >>)

\* The values tried for a property: literals of every kind, and intrinsics.
Literals == {None, Bool(TRUE), Bool(FALSE), Num(0), Str("x"), List(<< >>), Ref, Opaque, TwoKeys}

R(type, ps) == [type |-> type, properties |-> D(ps)]

Flags(flags) == <<"PublicAccessBlockConfiguration", D(flags)>>
AllOn == Flags(<< <<"BlockPublicAcls", Bool(TRUE)>> >>)
Encrypted == <<"BucketEncryption", Ref>>

Buckets ==
    { R("AWS::S3::Bucket", << >>) }
    \cup { R("AWS::S3::Bucket", <<Encrypted, <<"PublicAccessBlockConfiguration", v>> >>) : v \in Literals }
    \cup { R("AWS::S3::Bucket", <<AllOn, <<"AccessControl", v>> >>) :
              v \in Literals \cup {Str("PublicRead"), Str("Private")} }
    \cup { R("AWS::S3::Bucket", <<Encrypted, Flags(<< <<"BlockPublicAcls", v>>, <<"IgnorePublicAcls", w>> >>)>>) :
              v, w \in {Bool(TRUE), Bool(FALSE), Ref, Str("false")} }

\* Ingress entries: each family of addresses, ports in and out of order, the
\* sentinel, a bool for a port, intrinsics, and addresses that cannot be hashed.
E4(cidr, from, to) == D(<< <<"CidrIp", cidr>>, <<"FromPort", from>>, <<"ToPort", to>> >>)
Any4 == Str("0.0.0.0/0")
Entries ==
    { E4(Any4, from, to) : from, to \in {Num(-1), Num(22), Num(80), Num(443), Num(4000), Ref, Bool(TRUE)} }
    \cup { E4(Str("10.0.0.0/8"), Num(22), Num(22)), E4(Ref, Num(22), Num(22)), E4(List(<<Any4>>), Num(22), Num(22)) }
    \cup { D(<< <<"CidrIpv6", v>> >>) : v \in {Str("::/0"), Opaque} }
    \cup { D(<< <<"CidrIp", Any4>>, <<"CidrIpv6", Opaque>> >>), Ref, None }
FewEntries == { E4(Any4, Num(80), Num(80)), E4(List(<<Any4>>), Num(22), Num(22)),
                E4(Any4, Num(0), Num(8080)) }

SecurityGroups ==
    { R("AWS::EC2::SecurityGroup", << <<"SecurityGroupIngress", v>> >>) : v \in Literals }
    \cup { R("AWS::EC2::SecurityGroup", << <<"SecurityGroupIngress", List(<<e, f>>)>> >>) :
              e \in Entries, f \in FewEntries }

\* Statements: one or several, in every kind of document an IAM resource has.
Stmt(effect, action, onto) ==
    D(<< <<"Effect", effect>>, <<"Action", action>>, <<"Resource", onto>> >>)
Star == Str("*")
Statements ==
    { Stmt(e, a, o) : e \in {Str("Allow"), Str("Deny"), Ref},
                      a \in {Star, Str("s3:*"), List(<<Str("s3:Get"), Star>>), Ref},
                      o \in {Star, List(<<Ref>>)} }
Doc(statement) == D(<< <<"Statement", statement>> >>)
Policies(v) == <<"Policies", List(<<D(<< <<"PolicyDocument", v>> >>), Ref>>)>>
Allow == Stmt(Str("Allow"), Star, Star)
IamResources ==
    { R("AWS::IAM::Policy", << <<"PolicyDocument", Doc(s)>> >>) : s \in Statements \cup {Ref, None} }
    \cup { R("AWS::IAM::ManagedPolicy", << <<"PolicyDocument", Doc(List(<<s, Allow>>))>> >>) : s \in Statements }
    \cup { R("AWS::IAM::Role", <<Policies(Doc(s)), <<"AssumeRolePolicyDocument", v>> >>) :
              s \in {Allow, Ref}, v \in {Doc(Allow), Ref, None, Str("x")} }
    \cup { R("AWS::IAM::User", << Policies(v) >>) : v \in {Doc(Allow), Ref, None, List(<<Allow>>)} }

Volumes ==
    { R(ty, << >>) : ty \in {"AWS::EC2::Volume", "AWS::RDS::DBInstance", "AWS::CloudTrail::Trail", "AWS::SQS::Queue"} }
    \cup { R("AWS::EC2::Volume", << <<"Encrypted", v>> >>) : v \in Literals }
    \cup { R("AWS::RDS::DBInstance", << <<"StorageEncrypted", v>>, <<"PubliclyAccessible", w>> >>) : v, w \in Literals }
    \cup { R("AWS::CloudTrail::Trail", << <<"KMSKeyId", v>> >>) : v \in {Ref, None, Str("key")} }

\* A resource of every kind beside one on which a rule raises, before and after.
Raising == { R("AWS::S3::Bucket", << <<"AccessControl", Opaque>> >>),
             R("AWS::EC2::SecurityGroup", << <<"SecurityGroupIngress", List(<<E4(Opaque, None, None)>>)>> >>) }
Few == { R("AWS::S3::Bucket", << >>), R("AWS::EC2::Volume", << >>),
         R("AWS::IAM::Policy", << <<"PolicyDocument", Doc(Allow)>> >>) }


\* The document a dict of resources is read from.
RECURSIVE Node(_)
Node(v) ==
    CASE IsDict(v) -> Mapping([n \in DOMAIN v.dict |-> Pair(Node(v.dict[n].key), Node(v.dict[n].value))])
      [] IsList(v) -> [tag |-> "", seq |-> [n \in DOMAIN v.list |-> Node(v.list[n])]]
      [] OTHER -> [tag |-> "", scalar |-> v, text |-> "literal"]
Entry(id, r) == Pair(Plain(id), Node(D(<< <<"Type", Str(r.type)>>, <<"Properties", r.properties>> >>)))

AuditedContents ==
    { Authored(<<Entry("A", r)>>) : r \in Buckets \cup SecurityGroups \cup IamResources \cup Volumes }
    \cup { Authored(<<Entry("A", q), Entry("B", r)>>) : q, r \in Raising \cup Few }
-----------------------------------------------------------------------------
MCTags == DOMAIN SHORT_TO_FULL \cup {"Foo", "Transform2"}
MCDotted == ("Role.Arn" :> <<"Role", "Arn">>) @@ ("Role.Tags.0" :> <<"Role", "Tags.0">>)

Scalar(value, text) == [tag |-> "", scalar |-> value, text |-> text]
Tagged(tag, n) == [n EXCEPT !.tag = tag]
Seq2(a, b) == [tag |-> "", seq |-> <<a, b>>]
True == Scalar(Bool(TRUE), "true")

\* Property values: tagged scalars, sequences and mappings, also nested, and an
\* unknown tag.
TaggedValues ==
    << True, Tagged("Ref", Plain("Role")), Tagged("GetAtt", Plain("Role.Arn")),
       Tagged("GetAtt", Plain("Role.Tags.0")), Tagged("GetAtt", Plain("Role")),
       Tagged("GetAtt", Seq2(Plain("Role"), Plain("Arn"))), Tagged("Condition", True),
       Tagged("If", Seq2(Plain("Prod"), Tagged("Ref", Plain("Role")))),
       Tagged("Sub", Mapping(<<Pair(Plain("k"), Tagged("GetAtt", Plain("Role.Arn")))>>)),
       Tagged("Transform2", Plain("x")) >>

Body(type, props) == Mapping(<<Pair(Plain("Type"), type), Pair(Plain("Properties"), props)>>)
MCBodies ==
    { Body(Plain("T"), Mapping([n \in DOMAIN TaggedValues |-> Pair(Plain(ToString(n)), TaggedValues[n])])),
      Body(Plain("T"), Scalar(None, "null")), Body(Plain("T"), Tagged("Ref", Plain("Role"))),
      Body(Plain(""), Mapping(<< >>)), Body(Tagged("Ref", Plain("Role")), Mapping(<< >>)),
      Mapping(<<Pair(Plain("Type"), Plain("T"))>>), Plain("T") }

MCIds == { Plain("A"), Plain("B"), Scalar(Num(1), "1"), Tagged("Ref", Plain("A")) }

MCRoots ==
    { Scalar(None, ""), Plain("x"), Seq2(Plain("x"), True), Tagged("Ref", Plain("x")),
      Mapping(<<Pair(Plain("Resources"), Plain("x"))>>),
      Mapping(<<Pair(Plain("Description"), True),
                Pair(Plain("Resources"), Tagged("Foo", Body(Plain("T"), True)))>>),
      Mapping(<<Pair(Plain("Resources"), Mapping(<<Pair(Plain("A"), Body(Plain("T"), Mapping(<< >>)))>>)),
                Pair(Plain("Description"), True)>>) }

MCContents ==
    AuditedContents \cup {Authored(<< >>)}
    \cup [faults : SUBSET {"encode", "size", "utf-8", "yaml", "loader"}, root : MCRoots]
=============================================================================
