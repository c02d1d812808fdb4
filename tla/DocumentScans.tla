--------------------------- MODULE DocumentScans ---------------------------
(***************************************************************************)
(* From a document to a scan: an author adds entries to the Resources      *)
(* mapping of a document, possibly under an id that is already there, and   *)
(* posts it at some point; Parser reads it and Engine audits it.           *)
(***************************************************************************)
EXTENDS Engine

CONSTANTS
    Ids,         \* nodes used as logical ids
    Bodies,      \* nodes used as resources
    MaxEntries   \* bound on the entries an author adds

ASSUME AuthorAssumption ==
    /\ MaxEntries \in Nat
    /\ Depth >= 2 /\ Ids \cup Bodies \subseteq Within[Depth - 2]
    /\ {"Description", "Resources", "x"} \subseteq STRING

VARIABLE entries  \* the pairs of the author's Resources mapping, in document order

Plain(s) == [tag |-> "", scalar |-> Str(s), text |-> s]
Mapping(ps) == [tag |-> "", map |-> ps]
Pair(key, value) == [key |-> key, value |-> value]
Document(es) ==
    Mapping(<<Pair(Plain("Description"), Plain("x")), Pair(Plain("Resources"), Mapping(es))>>)
Authored(es) == [faults |-> {}, root |-> Document(es)]

\* The author adds an entry.
Add(id, body) ==
    /\ stage = "parse"
    /\ content = Authored(entries)
    /\ Len(entries) < MaxEntries
    /\ entries' = Append(entries, Pair(id, body))
    /\ content' = Authored(entries')
    /\ UNCHANGED <<stage, template, i, j, pairs, failures, counts>>

DocumentNext ==
    \/ \E id \in Ids, body \in Bodies : Add(id, body)
    \/ Next /\ UNCHANGED entries

DocumentInit == entries = << >> /\ Init

DocumentSpec == DocumentInit /\ [][DocumentNext]_<<vars, entries>>
-----------------------------------------------------------------------------
\* The properties of the parser are about the content: they are looked at while
\* it is written.
Written == stage = "parse"
result == parse_template(content)
Accepted == result.error = "none"

LogicalId(n) == construct[entries[n].key]
LastEntry(id) ==
    CHOOSE n \in DOMAIN entries :
        /\ LogicalId(n) = id
        /\ \A m \in DOMAIN entries : m > n => LogicalId(m) # id

\* The entries that keep a document from being a template: the last under its id,
\* and not a resource.
Malformed(n) == ~well_formed(Item(LogicalId(n), construct[entries[n].value]))
Offending == {n \in DOMAIN entries : n = LastEntry(LogicalId(n)) /\ Malformed(n)}

\* Each logical id is audited once and in its last version: the resource that
\* stands for an id in the template is the one CloudFormation would see after
\* the loader has dropped earlier entries with the same key.
LastVersionAudited ==
    Written /\ entries # << >> /\ Accepted =>
        /\ Len(result.resources) = Cardinality({LogicalId(n) : n \in DOMAIN entries})
        /\ \A n \in DOMAIN entries :
              LET last == Item(LogicalId(n), construct[entries[LastEntry(LogicalId(n))].value])
              IN  well_formed(last)
                  /\ \E m \in DOMAIN result.resources : result.resources[m] = Resource(last)

\* The same document with every short tag spelled out, the way the JSON form of
\* a template has it.
LongForm ==
    [ Ref |-> "Ref", Condition |-> "Condition", GetAtt |-> "Fn::GetAtt", Sub |-> "Fn::Sub",
      Join |-> "Fn::Join", Select |-> "Fn::Select", Split |-> "Fn::Split",
      GetAZs |-> "Fn::GetAZs", ImportValue |-> "Fn::ImportValue", Base64 |-> "Fn::Base64",
      Cidr |-> "Fn::Cidr", FindInMap |-> "Fn::FindInMap", If |-> "Fn::If", And |-> "Fn::And",
      Or |-> "Fn::Or", Not |-> "Fn::Not", Equals |-> "Fn::Equals", Length |-> "Fn::Length",
      Transform |-> "Fn::Transform", ToJsonString |-> "Fn::ToJsonString" ]
Attribute(text) == [tag |-> "", seq |-> [n \in 1..2 |-> Plain(partition(text)[n])]]
untagged(node, inner) ==
    CASE IsScalarNode(node) -> IF node.tag = "" THEN node ELSE Plain(node.text)
      [] IsSequenceNode(node) -> [tag |-> "", seq |-> [n \in DOMAIN node.seq |-> inner[node.seq[n]]]]
      [] OTHER -> Mapping([n \in DOMAIN node.map |->
                              Pair(inner[node.map[n].key], inner[node.map[n].value])])
spelled[node \in Within[Depth]] ==
    CASE node.tag = "GetAtt" /\ IsScalarNode(node) ->
            Mapping(<<Pair(Plain("Fn::GetAtt"), Attribute(node.text))>>)
      [] node.tag \in DOMAIN LongForm /\ ~(node.tag = "GetAtt" /\ IsScalarNode(node)) ->
            Mapping(<<Pair(Plain(LongForm[node.tag]), untagged(node, spelled))>>)
      [] OTHER -> [untagged(node, spelled) EXCEPT !.tag = node.tag]

\* A template means the same in YAML with short tags and in JSON without them,
\* wherever the tags stand; it is refused for the same reason, too.
ShortFormIsLongForm ==
    Written => result = parse_template([content EXCEPT !.root = spelled[content.root]])

\* What the next content is read as.
Reread == parse_template(content')

\* One entry that is not a resource refuses the whole template (prompts.md:217 and
\* scanner.py:10 have it degrade per node), and only writing that entry anew brings
\* it back: when the document is accepted again, every entry that kept it from being
\* accepted is under the id just written, and no other entry made up for it.
OnlyRepairAccepts ==
    [][ entries # << >> /\ entries' # entries /\ ~Accepted /\ Reread.error = "none" =>
           /\ Offending # {}
           /\ \A n \in Offending : LogicalId(n) = construct[Last(entries').key] ]_entries
=============================================================================
