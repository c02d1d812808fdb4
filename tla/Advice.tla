------------------------------- MODULE Advice -------------------------------
(***************************************************************************)
(* One GET /scans/{id}/advice after the scan is loaded:                     *)
(*   advisor/provider.py   get_provider                                     *)
(*   advisor/static.py, advisor/anthropic.py   advise                       *)
(*   api/routes/scans.py   the response get_scan_advice builds              *)
(*                                                                         *)
(* The remediation text of an item is a record of where it comes from.     *)
(* What the model service answers is a sequence of content blocks, or an    *)
(* exception; a block's text is "none" (it has no text, or an empty one),   *)
(* "blank" (white space) or "words".                                        *)
(***************************************************************************)
EXTENDS Retrieval

CONSTANTS
    Findings,        \* the findings of a scan, in order: [id, rule_id, words]
    Headers,         \* the headers authors write
    MaxStem,         \* bound on the files' names
    MaxTopK,         \* bound on the values of top_k in the properties
    Registered,      \* the rule ids of REMEDIATION_BY_RULE_ID
    Configurations,  \* settings: [llm_provider, llm_api_key, constructs]
    Contents         \* contents of the model's messages

ASSUME FindingsAssumption ==
    /\ Len(Findings) \in Nat /\ DOMAIN Findings = 1..Len(Findings)
    /\ \A n \in DOMAIN Findings : IsFiniteSet(Findings[n].words)
ASSUME BoundsAssumption == MaxStem \in Nat /\ MaxTopK \in Nat

TOP_K == 2
None == "none"

VARIABLES
    settings,
    files,       \* the corpus
    pc,          \* "select", "retrieve", "call", "append" or "done"
    provider,    \* the provider's name
    passages,    \* _advise_one's local: the grounding of its prompt
    item,        \* _advise_one's locals remediation and source
    items,       \* what advise has collected
    response,    \* [status, provider, items]
    failed       \* history: the positions whose call raised or gave no text

vars == <<settings, files, pc, provider, passages, item, items, response, failed>>

NoText == [from |-> "nowhere"]
NoItem == [remediation |-> NoText, source |-> None]
NoResponse == [status |-> 0, provider |-> None, items |-> << >>]

Init ==
    /\ settings \in Configurations
    /\ files = {}
    /\ pc = "select"
    /\ provider = None
    /\ passages = << >>
    /\ item = NoItem
    /\ items = << >>
    /\ response = NoResponse
    /\ failed = {}

finding == Findings[Len(items) + 1]
More == Len(items) < Len(Findings)

\* REMEDIATION_BY_RULE_ID.get(rule_id, fallback)
static_remediation(rule_id) ==
    IF rule_id \in Registered
    THEN [from |-> "map", rule_id |-> rule_id]
    ELSE [from |-> "fallback"]

\* An author adds a file under a new name.
Author ==
    /\ pc = "select"
    /\ \E stem \in 0..MaxStem, header \in Headers :
          /\ \A f \in files : f.stem # stem
          /\ stem = README => header = NoHeader
          /\ files' = files \cup {[stem |-> stem, header |-> header]}
    /\ UNCHANGED <<settings, pc, provider, passages, item, items, response, failed>>

\* The names get_provider can return for a configuration.
Selected(config) ==
    IF config.llm_provider = "anthropic" /\ config.llm_api_key # None /\ config.constructs
    THEN "anthropic" ELSE "static"

\* Mutated get_provider: an unknown provider is not replaced.
get_providerUnset ==
    /\ pc = "select"
    /\ provider' = IF settings.llm_provider = "other" THEN "other" ELSE Selected(settings)
    /\ pc' = "retrieve"
    /\ UNCHANGED <<settings, files, passages, item, items, response, failed>>

\* Mutated get_provider: the constructor's exception is not caught.
get_providerUncaught ==
    /\ pc = "select"
    /\ IF settings.llm_provider = "anthropic" /\ settings.llm_api_key # None /\ ~settings.constructs
       THEN /\ response' = [NoResponse EXCEPT !.status = 500]
            /\ pc' = "done"
            /\ UNCHANGED provider
       ELSE /\ provider' = Selected(settings)
            /\ pc' = "retrieve"
            /\ UNCHANGED response
    /\ UNCHANGED <<settings, files, passages, item, items, failed>>

\* get_provider; a constructor that raises is caught there.
get_provider ==
    /\ pc = "select"
    /\ provider' = Selected(settings)
    /\ pc' = "retrieve"
    /\ UNCHANGED <<settings, files, passages, item, items, response, failed>>

\* The static provider: the next finding's text from the canonical map.
StaticItem ==
    /\ pc = "retrieve" /\ More
    /\ provider = "static"
    /\ item' = [remediation |-> static_remediation(finding.rule_id), source |-> "static"]
    /\ pc' = "append"
    /\ UNCHANGED <<settings, files, provider, passages, items, response, failed>>

\* Mutated Retrieve: every prompt is grounded like the first one.
RetrieveOnce ==
    /\ pc = "retrieve" /\ More
    /\ provider = "anthropic"
    /\ readable(files)
    /\ passages' = retrieve(Findings[1], files, TOP_K)
    /\ pc' = "call"
    /\ UNCHANGED <<settings, files, provider, item, items, response, failed>>

\* retrieve and build_prompt, outside the try.
Retrieve ==
    /\ pc = "retrieve" /\ More
    /\ provider = "anthropic"
    /\ readable(files)
    /\ passages' = retrieve(finding, files, TOP_K)
    /\ pc' = "call"
    /\ UNCHANGED <<settings, files, provider, item, items, response, failed>>

\* load_corpus raises: nothing catches it, the request ends as a 500.
CorpusFails ==
    /\ pc = "retrieve" /\ More
    /\ provider = "anthropic"
    /\ ~readable(files)
    /\ response' = [NoResponse EXCEPT !.status = 500]
    /\ pc' = "done"
    /\ UNCHANGED <<settings, files, provider, passages, item, items, failed>>

\* The first block with text, stripped; "raises" when there is none.
extract_text(content) ==
    LET texts == SelectSeq(content, LAMBDA text : text # "none")
    IN  IF texts = << >> THEN "raises" ELSE Head(texts)

\* The model's text for this finding, from the prompt with these passages.
ModelText(text) ==
    IF text = "blank" THEN [from |-> "empty"]
    ELSE [from |-> "model", finding_id |-> finding.id, passages |-> passages]

CallSucceeds ==
    /\ pc = "call"
    /\ \E content \in Contents :
          /\ extract_text(content) # "raises"
          /\ item' = [remediation |-> ModelText(extract_text(content)), source |-> "llm"]
    /\ pc' = "append"
    /\ UNCHANGED <<settings, files, provider, passages, items, response, failed>>

\* messages.create raises (after the SDK's own retries), or its message has no
\* usable text: this finding gets the static text.
CallFails ==
    /\ pc = "call"
    /\ item' = [remediation |-> static_remediation(finding.rule_id), source |-> "static"]
    /\ failed' = failed \cup {Len(items) + 1}
    /\ pc' = "append"
    /\ UNCHANGED <<settings, files, provider, passages, items, response>>

\* Mutated AppendItem: the list grows at its front.
AppendItemInFront ==
    /\ pc = "append"
    /\ items' = << [finding_id |-> finding.id, rule_id |-> finding.rule_id,
                    remediation |-> item.remediation, source |-> item.source] >> \o items
    /\ item' = NoItem
    /\ passages' = << >>
    /\ pc' = "retrieve"
    /\ UNCHANGED <<settings, files, provider, response, failed>>

\* The AdviceItem, with the fields of the finding echoed.
AppendItem ==
    /\ pc = "append"
    /\ items' = Append(items, [finding_id |-> finding.id, rule_id |-> finding.rule_id,
                               remediation |-> item.remediation, source |-> item.source])
    /\ item' = NoItem
    /\ passages' = << >>
    /\ pc' = "retrieve"
    /\ UNCHANGED <<settings, files, provider, response, failed>>

\* get_scan_advice builds the response; the label is the provider's, the
\* sources are the items'.
Respond ==
    /\ pc = "retrieve" /\ ~More
    /\ response' = [status |-> 200, provider |-> provider, items |-> items]
    /\ pc' = "done"
    /\ UNCHANGED <<settings, files, provider, passages, item, items, failed>>

Next ==
    \/ Author
    \/ get_provider
    \/ StaticItem
    \/ Retrieve \/ CorpusFails
    \/ CallSucceeds \/ CallFails
    \/ AppendItem
    \/ Respond

Spec == Init /\ [][Next]_vars
-----------------------------------------------------------------------------
Answered == response.status = 200

TypeOK ==
    /\ pc \in {"select", "retrieve", "call", "append", "done"}
    /\ provider \in {None, "static", "anthropic"}
    /\ Len(items) <= Len(Findings)
    /\ failed \subseteq DOMAIN Findings
    /\ response.status \in {0, 200, 500}
    /\ (pc = "done") <=> (response.status # 0)

Keyed(about, p) == about.rule_id \in p.rule_ids
Overlap(about, p) == Cardinality(p.keywords \cap finding_tokens(about))

Asked == {Findings[n] : n \in DOMAIN Findings}

\* rag.py:6, the weight of a rule match: as long as no other passage shares ten
\* keywords with the finding.
KeyDecides(about, corpus) ==
    /\ \E p \in corpus : Keyed(about, p)
    /\ \A p \in corpus : Keyed(about, p) \/ Overlap(about, p) < 10

\* A new file can only take a place, never reorder the others: with it, the answer
\* is the one before it, or that with the new passage put in somewhere and, when it
\* was full, without its last.
NewFileDisplacesOnly ==
    [][ readable(files') =>
            \A f \in files' \ files, about \in Asked, top_k \in 1..MaxTopK :
                LET old == retrieve(about, files, top_k)
                    new == retrieve(about, files \cup {f}, top_k)
                IN  \/ new = old
                    \/ \E m \in 1..(Len(old) + 1) :
                          new = first(InsertAt(old, m, parse_passage(f)), top_k) ]_files

\* anthropic.py:121, "one AdviceItem per finding, preserving order", and prompts.md:409,
\* "source then honestly reads static": also when some calls fail and others do not,
\* item n carries the id of finding n and a text made for that finding or looked up
\* for its rule, and it claims the model exactly when the model was asked about
\* finding n and answered, whatever became of the findings before it.
ItemPerFinding ==
    Answered =>
        /\ Len(response.items) = Len(Findings)
        /\ \A n \in DOMAIN Findings :
              LET advice == response.items[n]
                  text == advice.remediation
              IN  /\ advice.finding_id = Findings[n].id
                  /\ text.from = "model" => text.finding_id = Findings[n].id
                  /\ text.from = "map" => text.rule_id = Findings[n].rule_id
                  /\ text.from = "fallback" => Findings[n].rule_id \notin Registered
                  /\ advice.source = "llm" <=> provider = "anthropic" /\ n \notin failed
                  /\ advice.source = "llm" <=> text.from \in {"model", "empty"}

\* anthropic.py:6-12: the model is only given material about the finding at hand.
\* A text of the model stands on a passage that names the finding's rule, where
\* the key decides, and on none that has nothing to do with the finding.
GroundedInOwnRule ==
    \A n \in DOMAIN items :
        LET text == items[n].remediation
        IN  text.from = "model" =>
                /\ KeyDecides(Findings[n], load_corpus(files)) => Keyed(Findings[n], text.passages[1])
                /\ \A i \in DOMAIN text.passages : relevance(Findings[n], text.passages[i]) > 0

\* provider.py:12, "the API never breaks because the LLM is misconfigured": no
\* configuration and no failure of the model service ends in an error; only a
\* corpus that cannot be read does, and only when the model is used.
MisconfigurationNeverBreaks ==
    response.status = 500 => ~readable(files) /\ Selected(settings) = "anthropic"

\* prompts.md:369, "assert every finding has non-empty remediation".
EveryItemHasRemediation ==
    Answered => \A n \in DOMAIN Findings : response.items[n].remediation.from # "empty"
=============================================================================
