------------------------------- MODULE Loader -------------------------------
(***************************************************************************)
(* parser/loader.py: from YAML nodes to values.                            *)
(*                                                                         *)
(* PyYAML's scanner, its implicit resolver, its merge keys and UTF-8 are    *)
(* external: a node arrives with its tag ("" when it has none of its own),  *)
(* and a scalar with both its text and the value it resolves to when it is  *)
(* not tagged.  Nodes are finite trees: a document in which an anchored    *)
(* list or mapping contains an alias of itself (PyYAML builds a cyclic value*)
(* of it when it has no tag) is left out.                                  *)
(***************************************************************************)
EXTENDS Values, SequencesExt

CONSTANTS
    Tags,      \* the short tags in documents, known to the loader or not
    Dotted,    \* the scalar texts with a dot, split at the first one
    Depth      \* how deep documents are nested

\* _SHORT_TO_FULL: Ref and Condition keep their names, the others get "Fn::".
SHORT_TO_FULL ==
    [ Ref |-> "Ref", Condition |-> "Condition", GetAtt |-> "Fn::GetAtt",
      Sub |-> "Fn::Sub", Join |-> "Fn::Join", Select |-> "Fn::Select",
      Split |-> "Fn::Split", GetAZs |-> "Fn::GetAZs",
      ImportValue |-> "Fn::ImportValue", Base64 |-> "Fn::Base64",
      Cidr |-> "Fn::Cidr", FindInMap |-> "Fn::FindInMap", If |-> "Fn::If",
      And |-> "Fn::And", Or |-> "Fn::Or", Not |-> "Fn::Not",
      Equals |-> "Fn::Equals", Transform |-> "Fn::Transform",
      Length |-> "Fn::Length", ToJsonString |-> "Fn::ToJsonString" ]

\* An unknown tag is kept: the value of !Tag is {"!Tag": ...}.
unknown(tag) == "!" \o tag

\* That the strings of this module are in STRING is true of TLA+; the provers do not
\* know it of any string.
ASSUME LoaderAssumption ==
    /\ Depth \in Nat
    /\ \A text \in DOMAIN Dotted : Dotted[text] \in STRING \X STRING
    /\ \A tag \in Tags : unknown(tag) \in STRING
    /\ \A tag \in DOMAIN SHORT_TO_FULL : SHORT_TO_FULL[tag] \in STRING
    /\ "" \in STRING

IsScalarNode(n) == "scalar" \in DOMAIN n
IsSequenceNode(n) == "seq" \in DOMAIN n

\* The nodes nested at most so deep.  Room is as deep as a document gets when
\* each of its tags is spelled out as a mapping.
Room == 2 * Depth + 2
Scalars == [str : STRING] \cup [int : Int] \cup [bool : BOOLEAN] \cup {None}
NodeTags == Tags \cup {""}
Within[depth \in 0..Room] ==
    [tag : NodeTags, scalar : Scalars, text : STRING]
    \cup (IF depth = 0 THEN {}
          ELSE LET inner == Within[depth - 1]
               IN  [tag : NodeTags, seq : Seq(inner)]
                   \cup [tag : NodeTags, map : Seq([key : inner, value : inner])])
Nodes == Within[Room]

\* str.partition(".")
partition(text) == IF text \in DOMAIN Dotted THEN Dotted[text] ELSE <<text, "">>

\* Mutated assign: the first of several equal keys wins.
assignFirst(items, key, value) ==
    IF \E n \in DOMAIN items : items[n].key = key THEN items ELSE Append(items, Item(key, value))

\* mapping[key] = value: a key keeps the place of its first occurrence and gets the
\* value of its last.
assign(items, key, value) ==
    IF \E n \in DOMAIN items : items[n].key = key
    THEN [n \in DOMAIN items |-> IF items[n].key = key THEN Item(key, value) ELSE items[n]]
    ELSE Append(items, Item(key, value))

\* Mutated intrinsic: the dotted form of !GetAtt is kept.
intrinsicDotted(full_key, value) == Dict(<<Item(Str(full_key), value)>>)

\* _construct_intrinsic: {full_key: value}, the scalar form of !GetAtt as a list.
intrinsic(full_key, value) ==
    LET canonical ==
            IF full_key = "Fn::GetAtt" /\ IsStr(value)
            THEN List([i \in 1..2 |-> Str(partition(value.str)[i])])
            ELSE value
    IN  Dict(<<Item(Str(full_key), canonical)>>)

\* construct_mapping: the pairs are assigned one after the other.
construct_mapping(pairs, inner) ==
    LET after[n \in 0..Len(pairs)] ==
            IF n = 0 THEN << >>
            ELSE assign(after[n - 1], inner[pairs[n].key], inner[pairs[n].value])
    IN  Dict(after[Len(pairs)])

\* _node_value, with the values of the inner nodes: a tagged scalar is its text,
\* whatever it would resolve to.
node_value(n, inner) ==
    CASE IsScalarNode(n) -> Str(n.text)
      [] IsSequenceNode(n) -> List([i \in DOMAIN n.seq |-> inner[n.seq[i]]])
      [] OTHER -> construct_mapping(n.map, inner)

construct[n \in Nodes] ==
    CASE n.tag = "" /\ IsScalarNode(n) -> n.scalar
      [] n.tag = "" /\ ~IsScalarNode(n) -> node_value(n, construct)
      [] n.tag \in DOMAIN SHORT_TO_FULL ->
            intrinsic(SHORT_TO_FULL[n.tag], node_value(n, construct))
      [] OTHER -> Dict(<<Item(Str(unknown(n.tag)), node_value(n, construct))>>)

\* A mapping key that cannot be hashed is a ConstructorError.
constructible[n \in Nodes] ==
    CASE IsScalarNode(n) -> TRUE
      [] IsSequenceNode(n) -> \A i \in DOMAIN n.seq : constructible[n.seq[i]]
      [] OTHER -> \A i \in DOMAIN n.map :
                     /\ constructible[n.map[i].key] /\ constructible[n.map[i].value]
                     /\ Hashable(construct[n.map[i].key])
=============================================================================
