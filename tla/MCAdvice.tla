------------------------------ MODULE MCAdvice ------------------------------
(* An instance of Advice for TLC: a finding with much text, one that shares  *)
(* a word with some passages, and one whose rule is no longer registered;    *)
(* a configuration of each kind; passages that share nine, ten and eleven words with  *)
(* a finding, rule ids and keywords in both cases, and files with mistakes.  *)
EXTENDS Advice, TLC

Nine == {"k1", "k2", "k3", "k4", "k5", "k6", "k7", "k8", "k9"}
Ten == Nine \cup {"k10"}
MCWords == Ten \cup {"", "R1", "r1", "R2", "r2", "R3", "r3", "Bucket", "bucket"}
MCLower == ("R1" :> "r1") @@ ("R2" :> "r2") @@ ("R3" :> "r3") @@ ("Bucket" :> "bucket") @@ [w \in MCWords |-> w]

F(id, rule_id, words) == [id |-> id, rule_id |-> rule_id, words |-> words \cup {rule_id}]
MCFindings == << F(11, "R1", Ten \cup {"Bucket"}), F(12, "R2", {"Bucket"}), F(13, "R3", {}) >>

L(key, value) == [key |-> key, value |-> value]
MCHeaders ==
    { NoHeader, NotUtf8,
      << L("rule_ids", {"R1", ""}) >>,
      << L("rule_ids", {"R1"}), L("title", {"R2"}), L("rule_ids", {"R2"}), L("keywords", {"Bucket"}) >>,
      << L("keywords", {"bucket", ""}) >>,
      << L("keywords", Nine) >>,
      << L("keywords", Ten) >>,
      << L("keywords", Ten \cup {"R1"}) >> }

C(llm_provider, llm_api_key, constructs) ==
    [llm_provider |-> llm_provider, llm_api_key |-> llm_api_key, constructs |-> constructs]
MCConfigurations ==
    { C(None, "key", TRUE), C("other", "key", TRUE), C("anthropic", None, TRUE),
      C("anthropic", "key", FALSE), C("anthropic", "key", TRUE) }

MCContents == { << >>, <<"none">>, <<"none", "words">>, <<"blank", "words">>, <<"words">> }
=============================================================================
