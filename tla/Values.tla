------------------------------- MODULE Values -------------------------------
(***************************************************************************)
(* The Python values a loaded template is made of, and the helpers of      *)
(* rules/intrinsics.py on them.                                            *)
(*                                                                         *)
(* A value is a record with one field, named for its kind.  A dict keeps   *)
(* its insertion order: it is the sequence of its items, with distinct     *)
(* keys.                                                                   *)
(***************************************************************************)
EXTENDS Integers, Sequences

Str(s) == [str |-> s]
Num(n) == [int |-> n]
Bool(b) == [bool |-> b]
None == [none |-> TRUE]
List(s) == [list |-> s]
Dict(items) == [dict |-> items]
Item(key, value) == [key |-> key, value |-> value]

\* isinstance; a bool is an int for Python.
IsStr(v) == "str" \in DOMAIN v
IsInt(v) == "int" \in DOMAIN v \/ "bool" \in DOMAIN v
IsList(v) == "list" \in DOMAIN v
IsDict(v) == "dict" \in DOMAIN v

\* The int a value is (True is 1).
AsInt(v) == IF "int" \in DOMAIN v THEN v.int ELSE IF v.bool THEN 1 ELSE 0

\* hash(v) raises TypeError for a list or a dict, and so does "v in {...}".
Hashable(v) == ~IsList(v) /\ ~IsDict(v)

\* key in d, d.get(key)
HasKey(d, key) == \E i \in DOMAIN d.dict : d.dict[i].key = key
Get(d, key) ==
    IF HasKey(d, key)
    THEN d.dict[CHOOSE i \in DOMAIN d.dict : d.dict[i].key = key].value
    ELSE None

INTRINSIC_KEYS ==
    { "Ref", "Condition", "Fn::GetAtt", "Fn::Sub", "Fn::Join", "Fn::Select",
      "Fn::Split", "Fn::GetAZs", "Fn::ImportValue", "Fn::Base64", "Fn::Cidr",
      "Fn::FindInMap", "Fn::If", "Fn::And", "Fn::Or", "Fn::Not", "Fn::Equals",
      "Fn::Transform", "Fn::Length", "Fn::ToJsonString" }

is_intrinsic(v) ==
    /\ IsDict(v)
    /\ Len(v.dict) = 1
    /\ v.dict[1].key \in {Str(k) : k \in INTRINSIC_KEYS}

as_list(v) == IF IsList(v) THEN v.list ELSE <<v>>

literal_or_none(v) == IF is_intrinsic(v) THEN None ELSE v
=============================================================================
