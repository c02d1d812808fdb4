------------------------------- MODULE Parser -------------------------------
(***************************************************************************)
(* parser/parse.py: from the value of a document to a template or an error. *)
(* What goes wrong before there is a value is a fault of the content.      *)
(***************************************************************************)
EXTENDS Loader

Refused(error) == [error |-> error, resources |-> << >>, description |-> None]

\* raw_resource.get("Properties", {}), with null read as {}.
properties(raw) ==
    IF Get(raw, Str("Properties")) = None THEN Dict(<< >>) ELSE Get(raw, Str("Properties"))

\* The checks of one entry of Resources; each failure is the same error.
well_formed(item) ==
    /\ IsStr(item.key)
    /\ IsDict(item.value)
    /\ IsStr(Get(item.value, Str("Type"))) /\ Get(item.value, Str("Type")) # Str("")
    /\ IsDict(properties(item.value))

Resource(item) ==
    [ logical_id |-> item.key.str, type |-> Get(item.value, Str("Type")).str,
      properties |-> properties(item.value) ]

\* Mutated build_template: the return stands inside the loop, so that the first
\* entry is all that is looked at.
build_templateFirst(parsed) ==
    LET resources_raw == Get(parsed, Str("Resources"))
        items == resources_raw.dict
    IN  IF ~IsDict(parsed) \/ ~IsDict(resources_raw) \/ items = << >> \/ ~well_formed(items[1])
        THEN Refused("NotACloudFormationTemplate")
        ELSE [error |-> "none", resources |-> <<Resource(items[1])>>, description |-> None]

build_template(parsed) ==
    LET resources_raw == Get(parsed, Str("Resources"))
        items == resources_raw.dict
        description == Get(parsed, Str("Description"))
    IN  IF \/ ~IsDict(parsed)
           \/ ~IsDict(resources_raw)
           \/ items = << >>
           \/ \E i \in DOMAIN items : ~well_formed(items[i])
        THEN Refused("NotACloudFormationTemplate")
        ELSE [ error |-> "none",
               resources |-> [i \in DOMAIN items |-> Resource(items[i])],
               description |-> IF IsStr(description) THEN description ELSE None ]

\* parse_template.  Faults, in the order they are met: "encode" (a lone
\* surrogate), "size", "utf-8", "yaml" (any YAMLError) and "loader" (another
\* exception of the loader).  The first and the last are caught by nobody.
parse_template(content) ==
    CASE "encode" \in content.faults -> Refused("Exception")
      [] content.faults \cap {"encode", "size"} = {"size"} -> Refused("TemplateTooLarge")
      [] content.faults \cap {"encode", "size"} = {}
            /\ (content.faults \cap {"utf-8", "yaml"} # {} \/ ~constructible[content.root]) ->
            Refused("MalformedTemplate")
      [] content.faults = {"loader"} /\ constructible[content.root] -> Refused("Exception")
      [] OTHER -> build_template(construct[content.root])
=============================================================================
