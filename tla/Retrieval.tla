----------------------------- MODULE Retrieval -----------------------------
(***************************************************************************)
(* advisor/rag.py: the corpus files, what _parse_passage makes of them, and *)
(* the ranking of passages for a finding.                                  *)
(*                                                                         *)
(* A corpus is a set of files: the ranking is a total order on the ids,    *)
(* which are the file names, so the order they are loaded in is lost.  A   *)
(* file has a numbered stem (0 is the README) and a header: the sequence of *)
(* the "key: value" lines of its frontmatter, or NoHeader.  Words of a     *)
(* value and tokens of a finding are members of Words.                     *)
(***************************************************************************)
EXTENDS Ranking, SequencesExt

CONSTANTS
    Words,      \* rule ids, keywords and tokens
    lower,      \* word -> its lower-case form
    NoHeader,   \* the file has no frontmatter
    NotUtf8     \* the file is in another encoding

ASSUME LowerAssumption ==
    /\ lower \in [Words -> Words]
    /\ \A w \in Words : lower[lower[w]] = lower[w]

README == 0

\* The list given for a key, without its empty items; the last line of that key
\* counts, and lines of other keys are ignored.
ValueOf(header, key) ==
    LET lines == SelectSeq(header, LAMBDA line : line.key = key)
    IN  IF lines = << >> THEN {} ELSE Last(lines).value \ {""}

\* Keywords are folded to lower case, rule ids are not.
parse_passage(file) ==
    IF file.header = NoHeader
    THEN [id |-> file.stem, rule_ids |-> {}, keywords |-> {}]
    ELSE [id |-> file.stem,
          rule_ids |-> ValueOf(file.header, "rule_ids"),
          keywords |-> {lower[w] : w \in ValueOf(file.header, "keywords")}]

\* Every file but the README is read as strict UTF-8; one that is not raises.
readable(files) == \A f \in files : f.stem = README \/ f.header # NotUtf8

load_corpus(files) == {parse_passage(f) : f \in {g \in files : g.stem # README}}

\* The tokens of the rule id, the resource type and the message.
finding_tokens(finding) == {lower[w] : w \in finding.words}

RULE_MATCH == 10

relevance(finding, passage) ==
    (IF finding.rule_id \in passage.rule_ids THEN RULE_MATCH ELSE 0)
    + Cardinality(passage.keywords \cap finding_tokens(finding))

\* Mutated Relevant: passages that name the rule shut the others out.
RelevantKeyed(finding, passages) ==
    LET keyed == {p \in passages : finding.rule_id \in p.rule_ids}
    IN  IF keyed # {} THEN keyed ELSE {p \in passages : relevance(finding, p) > 0}

Relevant(finding, passages) == {p \in passages : relevance(finding, p) > 0}

\* The sort key (-score, id).
Before(finding, p, q) ==
    \/ relevance(finding, p) > relevance(finding, q)
    \/ relevance(finding, p) = relevance(finding, q) /\ p.id < q.id

ByKey(finding, passages) ==
    {pair \in passages \X passages : Before(finding, pair[1], pair[2])}

rank_passages(finding, passages) ==
    Ranked(Relevant(finding, passages), ByKey(finding, Relevant(finding, passages)))

retrieve(finding, files, top_k) == first(rank_passages(finding, load_corpus(files)), top_k)
=============================================================================
