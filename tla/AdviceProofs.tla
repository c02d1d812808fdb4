---------------------------- MODULE AdviceProofs ----------------------------
(***************************************************************************)
(* Theorems about Advice, for any findings, configurations, contents of the *)
(* model's messages and corpus.                                            *)
(***************************************************************************)
EXTENDS Advice, SequenceFacts

IsSeq(s) == \E S : s \in Seq(S)

\* A text that finding n may be given: made for it, or looked up for its rule, and
\* it claims the model exactly when the model was asked and has answered.
MadeFor(n, text, source, asked, lost) ==
    /\ text.from = "model" => text.finding_id = Findings[n].id
    /\ text.from = "map" => text.rule_id = Findings[n].rule_id
    /\ text.from = "fallback" => Findings[n].rule_id \notin Registered
    /\ source = "llm" <=> asked /\ n \notin lost
    /\ source = "llm" <=> text.from \in {"model", "empty"}

Asking == provider = "anthropic"

ItemFor(n, advice, asked, lost) ==
    /\ advice.finding_id = Findings[n].id
    /\ MadeFor(n, advice.remediation, advice.source, asked, lost)

\* Position n of what is collected is finding n's.
Collected ==
    /\ IsSeq(items)
    /\ \A n \in 1..Len(items) : ItemFor(n, items[n], Asking, failed)

\* What the loop is about: the finding after the collected ones.
Current ==
    /\ pc \in {"call", "append"} => Len(items) < Len(Findings)
    /\ pc = "call" => Asking
    /\ pc = "append" => MadeFor(Len(items) + 1, item.remediation, item.source, Asking, failed)

\* Only findings that had their turn can have failed.
TurnsTaken ==
    /\ failed \subseteq 1..(Len(items) + 1)
    /\ pc # "append" => failed \subseteq 1..Len(items)

\* The provider is chosen once, before the first finding.
Chosen ==
    /\ pc = "select" => items = << >>
    /\ pc # "select" => provider = Selected(settings)

\* What a request ends with.
Outcome ==
    /\ response.status = 200 => response.items = items /\ Len(items) = Len(Findings)
    /\ response.status = 500 => ~readable(files) /\ provider = "anthropic"

IInv == TypeOK /\ Collected /\ Current /\ TurnsTaken /\ Chosen /\ Outcome
-----------------------------------------------------------------------------
USE DEF None

LEMMA SeqFacts ==
    ASSUME NEW s, IsSeq(s), NEW e
    PROVE  /\ Len(s) \in Nat /\ DOMAIN s = 1..Len(s)
           /\ IsSeq(Append(s, e))
           /\ Len(Append(s, e)) = Len(s) + 1
           /\ \A n \in 1..Len(s) : Append(s, e)[n] = s[n]
           /\ Append(s, e)[Len(s) + 1] = e
<1>1. PICK S : s \in Seq(S)
  BY DEF IsSeq
<1>2. s \in Seq(S \cup {e})
  BY <1>1, SeqMonotonic
<1> QED
  BY <1>2, LenProperties, AppendProperties DEF IsSeq

LEMMA Lengths ==
    ASSUME IInv
    PROVE  Len(items) \in Nat /\ Len(Findings) \in Nat /\ DOMAIN Findings = 1..Len(Findings)
BY SeqFacts, FindingsAssumption DEF IInv, Collected

\* The static text for the finding whose turn it is.
LEMMA StaticText ==
    ASSUME NEW n, NEW asked \in BOOLEAN, NEW lost, ~asked \/ n \in lost
    PROVE  MadeFor(n, static_remediation(Findings[n].rule_id), "static", asked, lost)
BY DEF MadeFor, static_remediation

LEMMA Starts == Init => IInv
<1> SUFFICES ASSUME Init
             PROVE  IInv
  OBVIOUS
<1>1. /\ pc = "select" /\ provider = "none" /\ items = << >> /\ failed = {}
      /\ response.status = 0
  BY DEF Init, NoResponse
<1>2. Len(items) = 0 /\ IsSeq(items)
  BY <1>1, EmptySeq DEF IsSeq
<1>3. TypeOK
  BY <1>1, <1>2, FindingsAssumption DEF TypeOK
<1>4. Collected /\ TurnsTaken
  BY <1>1, <1>2 DEF Collected, TurnsTaken
<1>5. Current /\ Chosen /\ Outcome
  BY <1>1 DEF Current, Chosen, Outcome
<1> QED
  BY <1>3, <1>4, <1>5 DEF IInv

\* A step that leaves what is collected alone.
LEMMA CollectedStays ==
    ASSUME IInv, UNCHANGED <<provider, items, failed>>
    PROVE  Collected'
BY DEF IInv, Collected, Asking

LEMMA AuthorKeeps ==
    ASSUME IInv, Author
    PROVE  IInv'
<1>1. pc = "select" /\ UNCHANGED <<settings, pc, provider, passages, item, items, response, failed>>
  BY DEF Author
<1>2. response.status = 0
  BY <1>1 DEF IInv, TypeOK
<1>3. TypeOK'
  BY <1>1 DEF IInv, TypeOK
<1>4. Collected'
  BY <1>1, CollectedStays
<1>5. Current' /\ TurnsTaken' /\ Chosen' /\ Outcome'
  BY <1>1, <1>2 DEF IInv, Current, TurnsTaken, Chosen, Outcome
<1> QED
  BY <1>3, <1>4, <1>5 DEF IInv

LEMMA SelectKeeps ==
    ASSUME IInv, get_provider
    PROVE  IInv'
<1>1. /\ pc = "select" /\ pc' = "retrieve" /\ provider' = Selected(settings)
      /\ UNCHANGED <<settings, files, passages, item, items, response, failed>>
  BY DEF get_provider
<1>2. Selected(settings) \in {"static", "anthropic"}
  BY DEF Selected
<1>3. response.status = 0 /\ items = << >> /\ Len(items) = 0
  BY <1>1, EmptySeq DEF IInv, TypeOK, Chosen
<1>4. TypeOK'
  BY <1>1, <1>2, <1>3 DEF IInv, TypeOK
<1>5. Collected'
  BY <1>1, <1>3 DEF IInv, Collected
<1>6. Current' /\ Chosen' /\ Outcome'
  BY <1>1, <1>3 DEF Current, Chosen, Outcome, Selected
<1>7. TurnsTaken'
  BY <1>1 DEF IInv, TurnsTaken
<1> QED
  BY <1>4, <1>5, <1>6, <1>7 DEF IInv

LEMMA StaticItemKeeps ==
    ASSUME IInv, StaticItem
    PROVE  IInv'
<1>1. /\ pc = "retrieve" /\ pc' = "append" /\ provider = "static"
      /\ Len(items) < Len(Findings)
      /\ item'.remediation = static_remediation(Findings[Len(items) + 1].rule_id)
      /\ item'.source = "static"
      /\ UNCHANGED <<settings, files, provider, passages, items, response, failed>>
  BY DEF StaticItem, More, finding
<1>2. response.status = 0
  BY <1>1 DEF IInv, TypeOK
<1>3. TypeOK'
  BY <1>1, <1>2 DEF IInv, TypeOK
<1>4. Collected'
  BY <1>1, CollectedStays
<1>5. Current'
  <2>1. ~Asking' /\ Asking' \in BOOLEAN
    BY <1>1 DEF Asking
  <2>2. MadeFor(Len(items) + 1, item'.remediation, item'.source, Asking', failed')
    BY <1>1, <2>1, StaticText
  <2> QED
    BY <1>1, <2>2 DEF Current
<1>6. TurnsTaken'
  BY <1>1 DEF IInv, TurnsTaken
<1>7. Chosen' /\ Outcome'
  BY <1>1, <1>2 DEF IInv, Chosen, Outcome, Selected
<1> QED
  BY <1>3, <1>4, <1>5, <1>6, <1>7 DEF IInv

LEMMA RetrieveKeeps ==
    ASSUME IInv, Retrieve
    PROVE  IInv'
<1>1. /\ pc = "retrieve" /\ pc' = "call" /\ provider = "anthropic"
      /\ Len(items) < Len(Findings)
      /\ UNCHANGED <<settings, files, provider, item, items, response, failed>>
  BY DEF Retrieve, More
<1>2. response.status = 0
  BY <1>1 DEF IInv, TypeOK
<1>3. TypeOK'
  BY <1>1, <1>2 DEF IInv, TypeOK
<1>4. Collected'
  BY <1>1, CollectedStays
<1>5. Current' /\ TurnsTaken'
  BY <1>1 DEF IInv, Current, TurnsTaken, Asking
<1>6. Chosen' /\ Outcome'
  BY <1>1, <1>2 DEF IInv, Chosen, Outcome, Selected
<1> QED
  BY <1>3, <1>4, <1>5, <1>6 DEF IInv

LEMMA CorpusFailsKeeps ==
    ASSUME IInv, CorpusFails
    PROVE  IInv'
<1>1. /\ pc = "retrieve" /\ pc' = "done" /\ provider = "anthropic"
      /\ ~readable(files) /\ response'.status = 500
      /\ UNCHANGED <<settings, files, provider, passages, item, items, failed>>
  BY DEF CorpusFails, NoResponse
<1>2. TypeOK'
  BY <1>1 DEF IInv, TypeOK
<1>3. Collected'
  BY <1>1, CollectedStays
<1>4. Current' /\ TurnsTaken'
  BY <1>1 DEF IInv, Current, TurnsTaken
<1>5. Chosen'
  BY <1>1 DEF IInv, Chosen, Selected
<1>6. Outcome'
  BY <1>1 DEF Outcome, readable
<1> QED
  BY <1>2, <1>3, <1>4, <1>5, <1>6 DEF IInv

LEMMA CallSucceedsKeeps ==
    ASSUME IInv, CallSucceeds
    PROVE  IInv'
<1>1. PICK text : item' = [remediation |-> ModelText(text), source |-> "llm"]
  BY DEF CallSucceeds
<1>2. /\ pc = "call" /\ pc' = "append"
      /\ UNCHANGED <<settings, files, provider, passages, items, response, failed>>
  BY DEF CallSucceeds
<1>3. response.status = 0
  BY <1>2 DEF IInv, TypeOK
<1>4. TypeOK'
  BY <1>2, <1>3 DEF IInv, TypeOK
<1>5. Collected'
  BY <1>2, CollectedStays
<1>6. Current'
  <2>1. Asking' /\ Len(items) < Len(Findings)
    BY <1>2 DEF IInv, Current, Asking
  <2>2. Len(items) + 1 \notin failed
    BY <1>2, Lengths DEF IInv, TurnsTaken
  <2>3. \/ item'.remediation.from = "empty"
        \/ /\ item'.remediation.from = "model"
           /\ item'.remediation.finding_id = Findings[Len(items) + 1].id
    BY <1>1 DEF ModelText, finding
  <2>4. MadeFor(Len(items) + 1, item'.remediation, item'.source, Asking', failed)
    BY <1>1, <2>1, <2>2, <2>3 DEF MadeFor
  <2> QED
    BY <1>2, <2>1, <2>4 DEF Current
<1>7. TurnsTaken'
  BY <1>2 DEF IInv, TurnsTaken
<1>8. Chosen' /\ Outcome'
  BY <1>2, <1>3 DEF IInv, Chosen, Outcome, Selected
<1> QED
  BY <1>4, <1>5, <1>6, <1>7, <1>8 DEF IInv

LEMMA CallFailsKeeps ==
    ASSUME IInv, CallFails
    PROVE  IInv'
<1>1. /\ pc = "call" /\ pc' = "append"
      /\ item'.remediation = static_remediation(Findings[Len(items) + 1].rule_id)
      /\ item'.source = "static"
      /\ failed' = failed \cup {Len(items) + 1}
      /\ UNCHANGED <<settings, files, provider, passages, items, response>>
  BY DEF CallFails, finding
<1>2. response.status = 0 /\ Len(items) < Len(Findings)
  BY <1>1 DEF IInv, TypeOK, Current
<1>3. /\ Len(items) \in Nat /\ Len(Findings) \in Nat /\ DOMAIN Findings = 1..Len(Findings)
  BY Lengths
<1>4. TypeOK'
  <2>1. failed' \subseteq DOMAIN Findings
    BY <1>1, <1>2, <1>3 DEF IInv, TypeOK
  <2> QED
    BY <1>1, <1>2, <2>1 DEF IInv, TypeOK
<1>5. Collected'
  <2>1. \A n \in 1..Len(items) : n \in failed' <=> n \in failed
    BY <1>1, <1>3
  <2>2. \A n \in 1..Len(items) : ItemFor(n, items[n], Asking, failed')
    BY <2>1 DEF IInv, Collected, ItemFor, MadeFor
  <2> QED
    BY <1>1, <2>2 DEF IInv, Collected, Asking
<1>6. Current'
  <2>1. Asking' \in BOOLEAN /\ Len(items) + 1 \in failed'
    BY <1>1 DEF Asking
  <2>2. MadeFor(Len(items) + 1, item'.remediation, item'.source, Asking', failed')
    BY <1>1, <2>1, StaticText
  <2> QED
    BY <1>1, <1>2, <2>2 DEF Current
<1>7. TurnsTaken'
  <2>1. failed \subseteq 1..Len(items)
    BY <1>1 DEF IInv, TurnsTaken
  <2>2. 1..Len(items) \subseteq 1..(Len(items) + 1) /\ Len(items) + 1 \in 1..(Len(items) + 1)
    BY <1>3
  <2>3. failed' \subseteq 1..(Len(items) + 1)
    BY <1>1, <2>1, <2>2
  <2> QED
    BY <1>1, <2>3 DEF TurnsTaken
<1>8. Chosen' /\ Outcome'
  BY <1>1, <1>2 DEF IInv, Chosen, Outcome, Selected
<1> QED
  BY <1>4, <1>5, <1>6, <1>7, <1>8 DEF IInv

LEMMA AppendItemKeeps ==
    ASSUME IInv, AppendItem
    PROVE  IInv'
<1> DEFINE advice == [finding_id |-> finding.id, rule_id |-> finding.rule_id,
                      remediation |-> item.remediation, source |-> item.source]
<1>1. /\ pc = "append" /\ pc' = "retrieve" /\ items' = Append(items, advice)
      /\ UNCHANGED <<settings, files, provider, response, failed>>
  BY DEF AppendItem
<1>2. /\ Len(items) \in Nat /\ Len(Findings) \in Nat /\ IsSeq(items)
      /\ response.status = 0 /\ Len(items) < Len(Findings)
  BY <1>1, Lengths DEF IInv, TypeOK, Current, Collected
<1>3. ItemFor(Len(items) + 1, advice, Asking, failed)
  <2>1. advice.finding_id = Findings[Len(items) + 1].id
    BY DEF finding
  <2>2. MadeFor(Len(items) + 1, item.remediation, item.source, Asking, failed)
    BY <1>1 DEF IInv, Current
  <2>3. advice.remediation = item.remediation /\ advice.source = item.source
    OBVIOUS
  <2> HIDE DEF advice
  <2> QED
    BY <2>1, <2>2, <2>3 DEF ItemFor
<1> HIDE DEF advice
<1>4. /\ IsSeq(items') /\ Len(items') = Len(items) + 1
      /\ \A n \in 1..Len(items) : items'[n] = items[n]
      /\ items'[Len(items) + 1] = advice
  BY <1>1, <1>2, SeqFacts
<1>5. TypeOK'
  <2>1. Len(items') <= Len(Findings)
    BY <1>2, <1>4
  <2> QED
    BY <1>1, <1>2, <2>1 DEF IInv, TypeOK
<1>6. Collected'
  <2>1. \A n \in 1..Len(items) : ItemFor(n, items'[n], Asking, failed)
    BY <1>4 DEF IInv, Collected
  <2>2. \A n \in 1..Len(items') : n \in 1..Len(items) \/ n = Len(items) + 1
    BY <1>2, <1>4
  <2>3. \A n \in 1..Len(items') : ItemFor(n, items'[n], Asking, failed)
    BY <1>3, <1>4, <2>1, <2>2
  <2>4. Asking' = Asking /\ failed' = failed
    BY <1>1 DEF Asking
  <2> QED
    BY <1>4, <2>3, <2>4 DEF Collected
<1>7. TurnsTaken'
  <2>1. failed \subseteq 1..(Len(items) + 1)
    BY DEF IInv, TurnsTaken
  <2>2. failed' \subseteq 1..Len(items')
    BY <1>1, <1>4, <2>1
  <2>3. 1..Len(items') \subseteq 1..(Len(items') + 1)
    BY <1>2, <1>4
  <2> QED
    BY <1>1, <2>2, <2>3 DEF TurnsTaken
<1>8. Current' /\ Chosen' /\ Outcome'
  BY <1>1, <1>2 DEF IInv, Current, Chosen, Outcome, Selected
<1> QED
  BY <1>5, <1>6, <1>7, <1>8 DEF IInv

LEMMA RespondKeeps ==
    ASSUME IInv, Respond
    PROVE  IInv'
<1>1. /\ pc = "retrieve" /\ pc' = "done" /\ ~(Len(items) < Len(Findings))
      /\ response'.status = 200 /\ response'.items = items
      /\ UNCHANGED <<settings, files, provider, passages, item, items, failed>>
  BY DEF Respond, More
<1>2. Len(items) = Len(Findings)
  BY <1>1, Lengths DEF IInv, TypeOK
<1>3. TypeOK'
  BY <1>1 DEF IInv, TypeOK
<1>4. Collected'
  BY <1>1, CollectedStays
<1>5. Current' /\ TurnsTaken'
  BY <1>1 DEF IInv, Current, TurnsTaken
<1>6. Chosen' /\ Outcome'
  BY <1>1, <1>2 DEF IInv, Chosen, Outcome, Selected
<1> QED
  BY <1>3, <1>4, <1>5, <1>6 DEF IInv

LEMMA Steps == IInv /\ [Next]_vars => IInv'
<1> SUFFICES ASSUME IInv, [Next]_vars
             PROVE  IInv'
  OBVIOUS
<1>1. CASE Author
  BY <1>1, AuthorKeeps
<1>2. CASE get_provider
  BY <1>2, SelectKeeps
<1>3. CASE StaticItem
  BY <1>3, StaticItemKeeps
<1>4. CASE Retrieve
  BY <1>4, RetrieveKeeps
<1>5. CASE CorpusFails
  BY <1>5, CorpusFailsKeeps
<1>6. CASE CallSucceeds
  BY <1>6, CallSucceedsKeeps
<1>7. CASE CallFails
  BY <1>7, CallFailsKeeps
<1>8. CASE AppendItem
  BY <1>8, AppendItemKeeps
<1>9. CASE Respond
  BY <1>9, RespondKeeps
<1>10. CASE UNCHANGED vars
  <2>1. TypeOK' /\ Current' /\ TurnsTaken'
    BY <1>10 DEF vars, IInv, TypeOK, Current, TurnsTaken, Asking
  <2>2. Collected'
    BY <1>10, CollectedStays DEF vars
  <2>3. Chosen' /\ Outcome'
    BY <1>10 DEF vars, IInv, Chosen, Outcome, Selected, readable
  <2> QED
    BY <2>1, <2>2, <2>3 DEF IInv
<1> QED
  BY <1>1, <1>2, <1>3, <1>4, <1>5, <1>6, <1>7, <1>8, <1>9, <1>10 DEF Next

-----------------------------------------------------------------------------
(* rag.py: the ranking *)

\* u is s with x put in at m.
PutIn(u, s, m, x) ==
    /\ Len(u) = Len(s) + 1
    /\ \A n \in 1..(Len(s) + 1) :
          u[n] = IF n < m THEN s[n] ELSE IF n = m THEN x ELSE s[n - 1]

LEMMA InsertAtFacts ==
    ASSUME NEW T, NEW s \in Seq(T), NEW m \in 1..(Len(s) + 1), NEW x \in T
    PROVE  InsertAt(s, m, x) \in Seq(T) /\ PutIn(InsertAt(s, m, x), s, m, x)
<1> DEFINE front == SubSeq(s, 1, m - 1)
           back == SubSeq(s, m, Len(s))
<1>1. /\ Len(s) \in Nat /\ \A n \in 1..Len(s) : s[n] \in T
  BY LenProperties, ElementOfSeq
<1>2. /\ front \in Seq(T) /\ Len(front) = m - 1
      /\ \A n \in 1..(m - 1) : front[n] = s[n]
  BY <1>1, SubSeqProperties
<1>3. /\ back \in Seq(T) /\ Len(back) = Len(s) - m + 1
      /\ \A n \in 1..(Len(s) - m + 1) : back[n] = s[m + n - 1]
  BY <1>1, SubSeqProperties
<1>4. <<x>> \in Seq(T) /\ Len(<<x>>) = 1 /\ <<x>>[1] = x
  OBVIOUS
<1>5. InsertAt(s, m, x) = (front \o <<x>>) \o back
  BY DEF InsertAt
<1> HIDE DEF front, back
<1> DEFINE head == front \o <<x>>
<1>6. /\ head \in Seq(T) /\ Len(head) = m
      /\ \A n \in 1..m : head[n] = IF n < m THEN s[n] ELSE x
  <2>1. /\ head \in Seq(T) /\ Len(head) = m
        /\ \A n \in 1..m : head[n] = IF n <= m - 1 THEN front[n] ELSE <<x>>[n - (m - 1)]
    BY <1>2, <1>4, ConcatProperties
  <2> HIDE DEF head
  <2>2. ASSUME NEW n \in 1..m
        PROVE  head[n] = IF n < m THEN s[n] ELSE x
    <3>1. CASE n < m
      BY <3>1, <2>1, <1>2
    <3>2. CASE n = m
      BY <3>2, <2>1, <1>4
    <3> QED
      BY <3>1, <3>2
  <2> QED
    BY <2>1, <2>2
<1> HIDE DEF head
<1>7. /\ head \o back \in Seq(T) /\ Len(head \o back) = Len(s) + 1
      /\ \A n \in 1..(Len(s) + 1) : (head \o back)[n] = IF n <= m THEN head[n] ELSE back[n - m]
  <2>1. /\ head \o back \in Seq(T) /\ Len(head \o back) = Len(head) + Len(back)
        /\ \A n \in 1..(Len(head) + Len(back)) :
              (head \o back)[n] = IF n <= Len(head) THEN head[n] ELSE back[n - Len(head)]
    BY <1>3, <1>6, ConcatProperties
  <2>2. Len(head) = m /\ Len(head) + Len(back) = Len(s) + 1
    BY <1>1, <1>3, <1>6
  <2> QED
    BY <2>1, <2>2
<1>8. ASSUME NEW n \in 1..(Len(s) + 1)
      PROVE  (head \o back)[n] = IF n < m THEN s[n] ELSE IF n = m THEN x ELSE s[n - 1]
  <2>1. CASE n <= m
    BY <2>1, <1>6, <1>7
  <2>2. CASE n > m
    <3>1. n - m \in 1..(Len(s) - m + 1)
      BY <2>2, <1>1
    <3>2. back[n - m] = s[m + (n - m) - 1]
      BY <3>1, <1>3
    <3>3. m + (n - m) - 1 = n - 1
      OBVIOUS
    <3>4. ~(n <= m) /\ ~(n < m) /\ n # m
      BY <2>2, <1>1
    <3>5. (head \o back)[n] = back[n - m]
      BY <3>4, <1>7
    <3> QED
      BY <3>2, <3>3, <3>4, <3>5
  <2>3. n <= m \/ n > m
    BY <1>1
  <2> QED
    BY <2>1, <2>2, <2>3
<1> QED
  BY <1>5, <1>7, <1>8 DEF head, PutIn

\* One element more takes the place that is its own, and moves the later ones up.
LEMMA RankedInsert ==
    ASSUME NEW S, IsFiniteSet(S), NEW order, NEW x, x \notin S, StrictlyOrders(order, S \cup {x}),
           NEW m, m = Cardinality(Below(S, order, x)) + 1
    PROVE  /\ m \in 1..(Cardinality(S) + 1)
           /\ Ranked(S \cup {x}, order) = InsertAt(Ranked(S, order), m, x)
<1> DEFINE T == S \cup {x}
           r == Ranked(S, order)
           t == Ranked(T, order)
<1>1. StrictlyOrders(order, S) /\ StrictlyOrders(order, T)
  BY DEF StrictlyOrders
<1>2. IsFiniteSet(T) /\ Cardinality(T) = Cardinality(S) + 1 /\ Cardinality(S) \in Nat
  BY FS_AddElement, FS_CardinalityType
<1>3. Below(T, order, x) = Below(S, order, x)
  BY <1>1 DEF Below, StrictlyOrders
<1>4. m \in 1..Cardinality(T) /\ t[m] = x
  BY <1>1, <1>2, <1>3, RankedPlace
<1>5. /\ r \in Seq(S) /\ Len(r) = Cardinality(S)
      /\ \A n \in 1..Cardinality(S) : r[n] \in S /\ Cardinality(Below(S, order, r[n])) = n - 1
  BY <1>1, RankedFacts
<1>6. t \in Seq(T) /\ Len(t) = Cardinality(T)
  BY <1>1, <1>2, RankedFacts
<1>7. \A y \in T : t[Cardinality(Below(T, order, y)) + 1] = y
  BY <1>1, <1>2, RankedPlace
<1> HIDE DEF r, t
<1>8. ASSUME NEW n \in 1..Cardinality(S)
      PROVE  IF n < m THEN t[n] = r[n] ELSE t[n + 1] = r[n]
  <2> DEFINE y == r[n]
             X == Below(S, order, x)
             Y == Below(S, order, y)
  <2>1. y \in S /\ Cardinality(Y) = n - 1 /\ y # x
    BY <1>5
  <2>2. IsFiniteSet(X) /\ Cardinality(X) = m - 1 /\ IsFiniteSet(Y)
    BY BelowIsFinite
  <2>3. <<x, y>> \in order \/ <<y, x>> \in order
    BY <2>1 DEF StrictlyOrders
  <2>4. CASE <<y, x>> \in order
    <3>1. Y \cup {y} \in SUBSET X /\ y \notin Y
      BY <2>1, <2>4 DEF Below, StrictlyOrders
    <3>2. Below(T, order, y) = Y
      BY <2>1, <2>4 DEF Below, StrictlyOrders
    <3> HIDE DEF X, Y, y
    <3>3. Cardinality(Y \cup {y}) = n
      <4>1. Cardinality(Y \cup {y}) = Cardinality(Y) + 1
        BY <2>2, <3>1, FS_AddElement
      <4> QED
        BY <2>1, <4>1
    <3>4. n <= m - 1
      BY <2>2, <3>1, <3>3, FS_Subset
    <3>5. t[(n - 1) + 1] = y
      BY <1>7, <2>1, <3>2
    <3> QED
      BY <1>4, <3>4, <3>5 DEF y
  <2>5. CASE <<x, y>> \in order
    <3>1. X \in SUBSET Y
      BY <2>1, <2>5 DEF Below, StrictlyOrders
    <3>2. Below(T, order, y) = Y \cup {x} /\ x \notin Y
      BY <2>1, <2>5 DEF Below
    <3> HIDE DEF X, Y, y
    <3>3. Cardinality(Y \cup {x}) = n
      <4>1. Cardinality(Y \cup {x}) = Cardinality(Y) + 1
        BY <2>2, <3>2, FS_AddElement
      <4> QED
        BY <2>1, <4>1
    <3>4. m - 1 <= n - 1
      BY <2>1, <2>2, <3>1, FS_Subset
    <3>5. t[n + 1] = y
      BY <1>7, <2>1, <3>2, <3>3
    <3> QED
      BY <1>4, <3>4, <3>5 DEF y
  <2> QED
    BY <2>3, <2>4, <2>5
<1> DEFINE u == InsertAt(r, m, x)
<1>9. /\ u \in Seq(T) /\ Len(u) = Cardinality(T)
      /\ \A n \in 1..Cardinality(T) :
            u[n] = IF n < m THEN r[n] ELSE IF n = m THEN x ELSE r[n - 1]
  <2>1. r \in Seq(T) /\ x \in T
    BY <1>5, SeqMonotonic
  <2>2. m \in 1..(Len(r) + 1)
    BY <1>2, <1>4, <1>5
  <2> HIDE DEF T
  <2>3. u \in Seq(T) /\ PutIn(u, r, m, x)
    BY <2>1, <2>2, InsertAtFacts
  <2>4. Cardinality(T) = Len(r) + 1
    BY <1>2, <1>5
  <2> QED
    BY <2>3, <2>4 DEF PutIn
<1> HIDE DEF u
<1>10. ASSUME NEW n \in 1..Cardinality(T)
       PROVE  t[n] = u[n]
  <2>1. CASE n < m
    <3>1. n \in 1..Cardinality(S)
      BY <2>1, <1>2, <1>4
    <3> QED
      BY <2>1, <3>1, <1>8, <1>9
  <2>2. CASE n = m
    <3>1. ~(n < m)
      BY <2>2, <1>2, <1>4
    <3> QED
      BY <2>2, <3>1, <1>4, <1>9
  <2>3. CASE n > m
    <3>1. /\ n - 1 \in 1..Cardinality(S) /\ ~(n - 1 < m) /\ (n - 1) + 1 = n
          /\ ~(n < m) /\ n # m
      BY <2>3, <1>2, <1>4
    <3>2. t[n] = r[n - 1]
      BY <3>1, <1>8
    <3> QED
      BY <3>1, <3>2, <1>9
  <2> QED
    BY <2>1, <2>2, <2>3, <1>2, <1>4
<1>11. t = u
  BY <1>6, <1>9, <1>10, SeqEqual
<1> QED
  BY <1>2, <1>4, <1>11 DEF t, u, r

\* The first k of a sequence with one element more: the first k of it, or these with
\* the element put in and cut again.
LEMMA FirstOfInsert ==
    ASSUME NEW T, NEW s \in Seq(T), NEW k \in Nat, NEW m \in 1..(Len(s) + 1), NEW x \in T
    PROVE  LET old == first(s, k)
               new == first(InsertAt(s, m, x), k)
           IN  \/ new = old
               \/ m \in 1..(Len(old) + 1) /\ new = first(InsertAt(old, m, x), k)
<1> DEFINE old == first(s, k)
           long == InsertAt(s, m, x)
           new == first(long, k)
           put == InsertAt(old, m, x)
           again == first(put, k)
<1>1. Len(s) \in Nat
  BY LenProperties
<1> HIDE DEF old
<1>2. long \in Seq(T) /\ PutIn(long, s, m, x)
  BY InsertAtFacts
<1>3. /\ old \in Seq(T) /\ Len(old) = IF k < Len(s) THEN k ELSE Len(s)
      /\ \A n \in 1..Len(old) : old[n] = s[n]
  BY FirstFacts DEF old
<1> HIDE DEF long
<1>4. /\ new \in Seq(T) /\ Len(new) = IF k < Len(long) THEN k ELSE Len(long)
      /\ \A n \in 1..Len(new) : new[n] = long[n]
  BY <1>2, FirstFacts
<1> HIDE DEF new
<1>5. CASE m > k
  <2>1. Len(new) = Len(old) /\ Len(old) = k
    BY <1>1, <1>2, <1>3, <1>4, <1>5 DEF PutIn
  <2>2. \A n \in 1..Len(old) : new[n] = old[n]
    BY <1>1, <1>2, <1>3, <1>4, <1>5, <2>1 DEF PutIn
  <2>3. new = old
    BY <1>3, <1>4, <2>1, <2>2, SeqEqual
  <2> QED
    BY <2>3 DEF new, old, long
<1>6. CASE m <= k
  <2>1. Len(old) \in Nat /\ m \in 1..(Len(old) + 1)
    BY <1>1, <1>3, <1>6
  <2>2. put \in Seq(T) /\ PutIn(put, old, m, x)
    BY <1>3, <2>1, InsertAtFacts
  <2> HIDE DEF put
  <2>3. /\ again \in Seq(T) /\ Len(again) = IF k < Len(put) THEN k ELSE Len(put)
        /\ \A n \in 1..Len(again) : again[n] = put[n]
    BY <2>2, FirstFacts
  <2> HIDE DEF again
  <2>4. Len(new) = Len(again) /\ Len(new) <= Len(old) + 1 /\ Len(new) <= Len(s) + 1 /\ Len(new) \in Nat
    BY <1>1, <1>2, <1>3, <1>4, <2>2, <2>3 DEF PutIn
  <2>5. ASSUME NEW n \in 1..Len(new)
        PROVE  new[n] = again[n]
    <3>1. n \in 1..(Len(old) + 1) /\ n \in 1..(Len(s) + 1)
      BY <2>1, <2>4, <1>1
    <3>2. new[n] = long[n] /\ again[n] = put[n]
      BY <1>4, <2>3, <2>4
    <3>3. CASE n < m
      <4>1. n \in 1..Len(old)
        BY <2>1, <3>3
      <4> QED
        BY <3>1, <3>2, <3>3, <4>1, <1>2, <1>3, <2>2 DEF PutIn
    <3>4. CASE n = m
      BY <3>1, <3>2, <3>4, <1>2, <2>2 DEF PutIn
    <3>5. CASE n > m
      <4>1. n - 1 \in 1..Len(old)
        BY <2>1, <3>1, <3>5
      <4>2. long[n] = s[n - 1]
        BY <3>1, <3>5, <1>2 DEF PutIn
      <4>3. put[n] = old[n - 1]
        BY <3>1, <3>5, <2>2 DEF PutIn
      <4> QED
        BY <3>2, <4>1, <4>2, <4>3, <1>3
    <3>6. n < m \/ n = m \/ n > m
      BY <2>1, <3>1
    <3> QED
      BY <3>3, <3>4, <3>5, <3>6
  <2>6. new = again
    BY <1>4, <2>3, <2>4, <2>5, SeqEqual
  <2> QED
    BY <2>1, <2>6 DEF new, again, put, old, long
<1> QED
  BY <1>1, <1>5, <1>6
-----------------------------------------------------------------------------
(* The corpus, and what retrieve gives of it. *)

\* File names are unique.
Library(fs) ==
    /\ IsFiniteSet(fs)
    /\ \A f \in fs : f.stem \in Int
    /\ \A f, g \in fs : f.stem = g.stem => f = g

\* What is ranked for a finding.
Ranking(about, fs) == Relevant(about, load_corpus(fs))

LEMMA TokensAreFinite ==
    ASSUME NEW about, IsFiniteSet(about.words)
    PROVE  IsFiniteSet(finding_tokens(about))
<1> DEFINE W == about.words
           f == [w \in W |-> lower[w]]
<1>1. f \in [W -> finding_tokens(about)]
  BY DEF finding_tokens
<1>2. \A t \in finding_tokens(about) : \E w \in W : f[w] = t
  BY DEF finding_tokens
<1>3. f \in Surjection(W, finding_tokens(about))
  BY <1>1, <1>2 DEF Surjection
<1> QED
  BY <1>3, FS_Surjection

LEMMA RelevanceIsNat ==
    ASSUME NEW about, IsFiniteSet(about.words), NEW p
    PROVE  /\ Overlap(about, p) \in Nat
           /\ relevance(about, p) \in Nat
           /\ relevance(about, p) = IF Keyed(about, p) THEN 10 + Overlap(about, p) ELSE Overlap(about, p)
<1>1. p.keywords \cap finding_tokens(about) \in SUBSET finding_tokens(about)
  OBVIOUS
<1>2. IsFiniteSet(p.keywords \cap finding_tokens(about))
  BY <1>1, TokensAreFinite, FS_Subset
<1>3. Overlap(about, p) \in Nat
  BY <1>2, FS_CardinalityType DEF Overlap
<1> QED
  BY <1>3 DEF Overlap, relevance, Keyed, RULE_MATCH

LEMMA ByKeyOrders ==
    ASSUME NEW about, IsFiniteSet(about.words), NEW P,
           \A p \in P : p.id \in Int,
           \A p, q \in P : p.id = q.id => p = q
    PROVE  StrictlyOrders(ByKey(about, P), P)
<1>1. \A p, q \in P : <<p, q>> \in ByKey(about, P) <=> Before(about, p, q)
  BY DEF ByKey
<1>2. \A p \in P : relevance(about, p) \in Nat /\ p.id \in Int
  BY RelevanceIsNat
<1>3. \A p \in P : ~Before(about, p, p)
  BY <1>2 DEF Before
<1>4. \A p, q \in P : p # q => Before(about, p, q) \/ Before(about, q, p)
  BY <1>2 DEF Before
<1>5. \A p, q, r \in P : Before(about, p, q) /\ Before(about, q, r) => Before(about, p, r)
  BY <1>2 DEF Before
<1> QED
  BY <1>1, <1>3, <1>4, <1>5 DEF StrictlyOrders

LEMMA CorpusFacts ==
    ASSUME NEW fs, Library(fs)
    PROVE  /\ IsFiniteSet(load_corpus(fs))
           /\ \A p \in load_corpus(fs) : p.id \in Int
           /\ \A p, q \in load_corpus(fs) : p.id = q.id => p = q
<1> DEFINE S == {g \in fs : g.stem # README}
           h == [f \in S |-> parse_passage(f)]
<1>1. \A f \in fs : parse_passage(f).id = f.stem
  BY DEF parse_passage
<1>2. IsFiniteSet(S)
  BY FS_Subset DEF Library
<1>3. h \in [S -> load_corpus(fs)]
  BY DEF load_corpus
<1>4. \A p \in load_corpus(fs) : \E f \in S : h[f] = p
  BY DEF load_corpus
<1>5. h \in Surjection(S, load_corpus(fs))
  BY <1>3, <1>4 DEF Surjection
<1>6. IsFiniteSet(load_corpus(fs))
  BY <1>2, <1>5, FS_Surjection
<1>7. \A p \in load_corpus(fs) : \E f \in fs : p = parse_passage(f)
  BY DEF load_corpus
<1> QED
  BY <1>1, <1>6, <1>7 DEF Library

LEMMA RankingFacts ==
    ASSUME NEW fs, Library(fs), NEW about, IsFiniteSet(about.words)
    PROVE  /\ Ranking(about, fs) \in SUBSET load_corpus(fs)
           /\ IsFiniteSet(Ranking(about, fs))
           /\ StrictlyOrders(ByKey(about, Ranking(about, fs)), Ranking(about, fs))
<1>1. Ranking(about, fs) \in SUBSET load_corpus(fs)
  BY DEF Ranking, Relevant
<1>2. IsFiniteSet(Ranking(about, fs))
  BY <1>1, CorpusFacts, FS_Subset
<1>3. /\ \A p \in Ranking(about, fs) : p.id \in Int
      /\ \A p, q \in Ranking(about, fs) : p.id = q.id => p = q
  BY <1>1, CorpusFacts
<1> QED
  BY <1>1, <1>2, <1>3, ByKeyOrders

LEMMA RankFacts ==
    ASSUME NEW fs, Library(fs), NEW about, IsFiniteSet(about.words),
           NEW r, r = rank_passages(about, load_corpus(fs))
    PROVE  /\ r \in Seq(Ranking(about, fs)) /\ Len(r) = Cardinality(Ranking(about, fs))
           /\ \A p \in Ranking(about, fs) :
                 /\ Len(r) \in Nat \ {0}
                 /\ p = r[1] \/ Before(about, r[1], p)
<1> DEFINE P == Ranking(about, fs)
           order == ByKey(about, P)
<1>1. IsFiniteSet(P) /\ StrictlyOrders(order, P)
  BY RankingFacts
<1>2. r = Ranked(P, order)
  BY DEF rank_passages, Ranking
<1>3. \A p, q \in P : <<p, q>> \in order => Before(about, p, q)
  BY DEF ByKey
<1> HIDE DEF P, order
<1>4. /\ Cardinality(P) \in Nat /\ r \in Seq(P) /\ Len(r) = Cardinality(P)
      /\ \A n \in 1..Cardinality(P) : r[n] \in P
  BY <1>1, <1>2, RankedFacts
<1>5. ASSUME NEW p \in P
      PROVE  Len(r) \in Nat \ {0} /\ (p = r[1] \/ Before(about, r[1], p))
  <2> DEFINE n == Cardinality(Below(P, order, p)) + 1
  <2>1. n \in 1..Cardinality(P) /\ r[n] = p
    BY <1>1, <1>2, RankedPlace
  <2> HIDE DEF n
  <2>2. 1 \in 1..Cardinality(P) /\ (n = 1 \/ 1 < n)
    BY <1>4, <2>1
  <2>3. CASE n = 1
    BY <2>1, <2>2, <2>3, <1>4
  <2>4. CASE 1 < n
    <3>1. <<r[1], r[n]>> \in order
      BY <2>1, <2>2, <2>4, <1>1, <1>2, RankedInOrder
    <3> QED
      BY <3>1, <2>1, <2>2, <1>3, <1>4
  <2> QED
    BY <2>2, <2>3, <2>4
<1> QED
  BY <1>4, <1>5 DEF P

\* What the model is shown is about the finding, and led by a passage of its rule
\* where the key decides.
LEMMA RetrieveGrounds ==
    ASSUME NEW fs, Library(fs), NEW about, IsFiniteSet(about.words),
           NEW k \in Nat \ {0}, NEW s, s = retrieve(about, fs, k)
    PROVE  /\ DOMAIN s = 1..Len(s)
           /\ \A n \in 1..Len(s) : relevance(about, s[n]) > 0
           /\ KeyDecides(about, load_corpus(fs)) => Keyed(about, s[1])
<1> DEFINE P == Ranking(about, fs)
           r == rank_passages(about, load_corpus(fs))
<1>1. /\ r \in Seq(P)
      /\ \A p \in P : Len(r) \in Nat \ {0} /\ (p = r[1] \/ Before(about, r[1], p))
  BY RankFacts
<1>2. s = first(r, k)
  BY DEF retrieve
<1>3. \A p \in P : p \in load_corpus(fs) /\ relevance(about, p) > 0
  BY DEF Ranking, Relevant
<1>4. \A p \in load_corpus(fs) : relevance(about, p) > 0 => p \in P
  BY DEF Ranking, Relevant
<1> HIDE DEF P, r
<1>5. /\ s \in Seq(P) /\ Len(s) = IF k < Len(r) THEN k ELSE Len(r)
      /\ \A n \in 1..Len(s) : s[n] = r[n]
  <2>1. r \in Seq(P) /\ k \in Nat
    BY <1>1
  <2>2. /\ first(r, k) \in Seq(P)
        /\ Len(first(r, k)) = IF k < Len(r) THEN k ELSE Len(r)
        /\ \A n \in 1..Len(first(r, k)) : first(r, k)[n] = r[n]
    BY <2>1, FirstFacts
  <2> QED
    BY <1>2, <2>2
<1>6. /\ DOMAIN s = 1..Len(s)
      /\ \A n \in 1..Len(s) : s[n] \in P
  BY <1>5, LenProperties, ElementOfSeq
<1>7. ASSUME KeyDecides(about, load_corpus(fs))
      PROVE  Keyed(about, s[1])
  <2>1. PICK p \in load_corpus(fs) : Keyed(about, p)
    BY <1>7 DEF KeyDecides
  <2>2. relevance(about, p) >= 10 /\ p \in P
    <3>1. relevance(about, p) = 10 + Overlap(about, p) /\ Overlap(about, p) \in Nat
      BY <2>1, RelevanceIsNat
    <3>2. relevance(about, p) >= 10 /\ relevance(about, p) > 0
      BY <3>1
    <3> QED
      BY <3>2, <1>4
  <2>3. Len(r) \in Nat \ {0} /\ (p = r[1] \/ Before(about, r[1], p))
    BY <1>1, <2>2
  <2>4. 1 \in 1..Len(s)
    BY <1>5, <2>3
  <2>5. s[1] = r[1] /\ s[1] \in load_corpus(fs)
    BY <1>3, <1>5, <1>6, <2>4
  <2>6. relevance(about, s[1]) >= 10
    BY <2>2, <2>3, <2>5, RelevanceIsNat DEF Before
  <2>7. Keyed(about, s[1]) \/ Overlap(about, s[1]) < 10
    BY <1>7, <2>5 DEF KeyDecides
  <2>8. ~Keyed(about, s[1]) => relevance(about, s[1]) = Overlap(about, s[1])
    BY RelevanceIsNat
  <2> QED
    BY <2>6, <2>7, <2>8, RelevanceIsNat
<1> QED
  BY <1>3, <1>6, <1>7

\* One file more: nothing of the ranking changes but the place it takes.
LEMMA FileTakesAPlace ==
    ASSUME NEW fs, NEW f, f \notin fs, Library(fs \cup {f}),
           NEW about, IsFiniteSet(about.words), NEW k \in Nat
    PROVE  LET old == retrieve(about, fs, k)
               new == retrieve(about, fs \cup {f}, k)
           IN  \/ new = old
               \/ \E m \in 1..(Len(old) + 1) :
                     new = first(InsertAt(old, m, parse_passage(f)), k)
<1> DEFINE gs == fs \cup {f}
           p == parse_passage(f)
           P == Ranking(about, fs)
           Q == Ranking(about, gs)
<1>1. Library(fs)
  BY FS_Subset DEF Library
<1>2. load_corpus(gs) = IF f.stem # README THEN load_corpus(fs) \cup {p} ELSE load_corpus(fs)
  BY DEF load_corpus
<1>3. CASE Q = P
  <2>1. rank_passages(about, load_corpus(gs)) = rank_passages(about, load_corpus(fs))
    BY <1>3 DEF rank_passages, Ranking
  <2> QED
    BY <2>1 DEF retrieve
<1>4. CASE Q # P
  <2>1. Q = P \cup {p} /\ f.stem # README
    BY <1>2, <1>4 DEF Ranking, Relevant
  <2>2. \A g \in fs : parse_passage(g) # p
    BY DEF parse_passage, Library
  <2>3. p \notin P
    BY <2>2 DEF Ranking, Relevant, load_corpus
  <2> DEFINE order == ByKey(about, Q)
             r == Ranked(P, order)
             m == Cardinality(Below(P, order, p)) + 1
  <2>4. IsFiniteSet(P) /\ StrictlyOrders(order, P \cup {p})
    BY <1>1, <2>1, RankingFacts
  <2>5. rank_passages(about, load_corpus(fs)) = r
    <3>1. \A x, y \in P : <<x, y>> \in ByKey(about, P) <=> <<x, y>> \in order
      BY <2>1 DEF ByKey
    <3> HIDE DEF order
    <3>2. Ranked(P, ByKey(about, P)) = Ranked(P, order)
      BY <3>1, RankedAgrees
    <3> QED
      BY <3>2 DEF rank_passages, Ranking
  <2>6. rank_passages(about, load_corpus(gs)) = Ranked(P \cup {p}, order)
    BY <2>1 DEF rank_passages, Ranking
  <2> HIDE DEF order, P, Q, p
  <2>7. /\ m \in 1..(Cardinality(P) + 1)
        /\ Ranked(P \cup {p}, order) = InsertAt(r, m, p)
    BY <2>3, <2>4, RankedInsert
  <2>8. StrictlyOrders(order, P)
    BY <2>4 DEF StrictlyOrders
  <2>9. r \in Seq(P) /\ Len(r) = Cardinality(P)
    BY <2>4, <2>8, RankedFacts
  <2> HIDE DEF r, m
  <2>10. r \in Seq(P \cup {p}) /\ m \in 1..(Len(r) + 1) /\ p \in P \cup {p}
    BY <2>7, <2>9, SeqMonotonic
  <2>11. LET old == first(r, k)
             new == first(InsertAt(r, m, p), k)
         IN  \/ new = old
             \/ m \in 1..(Len(old) + 1) /\ new = first(InsertAt(old, m, p), k)
    BY <2>10, FirstOfInsert
  <2>12. retrieve(about, fs, k) = first(r, k) /\ retrieve(about, gs, k) = first(InsertAt(r, m, p), k)
    BY <2>5, <2>6, <2>7 DEF retrieve
  <2> QED
    BY <2>11, <2>12 DEF p
<1> QED
  BY <1>3, <1>4
-----------------------------------------------------------------------------
(* The grounding of what is collected *)

\* A text of the model stands on the ranking of finding n.
FromRanking(text, n, fs) ==
    text.from = "model" => text.passages = retrieve(Findings[n], fs, TOP_K)

\* The corpus that a request reads is a directory, and what stands in its prompts,
\* its item at hand and its items is ranked for their own findings.
Grounding ==
    /\ Library(files)
    /\ pc = "call" => passages = retrieve(Findings[Len(items) + 1], files, TOP_K)
    /\ pc = "append" => FromRanking(item.remediation, Len(items) + 1, files)
    /\ \A n \in 1..Len(items) : FromRanking(items[n].remediation, n, files)

LEMMA LibraryGrows ==
    ASSUME NEW fs, Library(fs), NEW f, f.stem \in Int, \A g \in fs : g.stem # f.stem
    PROVE  Library(fs \cup {f})
<1>1. IsFiniteSet(fs \cup {f})
  BY FS_AddElement DEF Library
<1> QED
  BY <1>1 DEF Library

\* What Author does to the corpus.
LEMMA AuthorAddsOne ==
    ASSUME Author, Library(files)
    PROVE  \E f : f \notin files /\ files' = files \cup {f} /\ Library(files \cup {f})
<1>1. PICK stem \in 0..MaxStem, header \in Headers :
         /\ \A f \in files : f.stem # stem
         /\ files' = files \cup {[stem |-> stem, header |-> header]}
  BY DEF Author
<1> DEFINE f == [stem |-> stem, header |-> header]
<1>2. f.stem = stem /\ f.stem \in Int
  BY BoundsAssumption
<1>3. f \notin files /\ \A g \in files : g.stem # f.stem
  BY <1>1, <1>2
<1> HIDE DEF f
<1>4. Library(files \cup {f})
  BY <1>2, <1>3, LibraryGrows
<1> QED
  BY <1>1, <1>3, <1>4 DEF f

LEMMA GroundingStarts == Init => Grounding
<1> SUFFICES ASSUME Init
             PROVE  Grounding
  OBVIOUS
<1>1. files = {} /\ pc = "select" /\ items = << >> /\ Len(items) = 0
  BY EmptySeq DEF Init
<1>2. Library(files)
  BY <1>1, FS_EmptySet DEF Library
<1> QED
  BY <1>1, <1>2 DEF Grounding

\* A step that moves on with the items and the corpus as they are.
LEMMA ItemsStay ==
    ASSUME Grounding, UNCHANGED <<files, items>>
    PROVE  /\ Library(files')
           /\ \A n \in 1..Len(items') : FromRanking(items'[n].remediation, n, files')
BY DEF Grounding

LEMMA GroundingSteps ==
    ASSUME IInv, Grounding, [Next]_vars
    PROVE  Grounding'
<1>1. CASE Author
  <2>1. pc = "select" /\ pc' = pc /\ items' = items /\ items = << >> /\ Len(items) = 0
    BY <1>1, EmptySeq DEF Author, IInv, Chosen
  <2>2. Library(files')
    BY <1>1, AuthorAddsOne DEF Grounding
  <2> QED
    BY <2>1, <2>2 DEF Grounding
<1>2. CASE get_provider
  BY <1>2, ItemsStay DEF get_provider, Grounding
<1>3. CASE StaticItem
  <2>1. /\ pc' = "append" /\ UNCHANGED <<files, items>>
        /\ item'.remediation = static_remediation(finding.rule_id)
    BY <1>3 DEF StaticItem
  <2>2. item'.remediation.from # "model"
    BY <2>1 DEF static_remediation
  <2> QED
    BY <2>1, <2>2, ItemsStay DEF Grounding, FromRanking
<1>4. CASE Retrieve
  <2>1. /\ pc' = "call" /\ UNCHANGED <<files, items>>
        /\ passages' = retrieve(Findings[Len(items) + 1], files, TOP_K)
    BY <1>4 DEF Retrieve, finding
  <2> QED
    BY <2>1, ItemsStay DEF Grounding
<1>5. CASE CorpusFails
  BY <1>5, ItemsStay DEF CorpusFails, Grounding
<1>6. CASE CallSucceeds
  <2>1. /\ pc = "call" /\ pc' = "append" /\ UNCHANGED <<files, items>>
        /\ \E text : item'.remediation = ModelText(text)
    BY <1>6 DEF CallSucceeds
  <2>2. item'.remediation.from = "model" => item'.remediation.passages = passages
    BY <2>1 DEF ModelText
  <2>3. FromRanking(item'.remediation, Len(items) + 1, files)
    BY <2>1, <2>2 DEF Grounding, FromRanking
  <2> QED
    BY <2>1, <2>3, ItemsStay DEF Grounding
<1>7. CASE CallFails
  <2>1. /\ pc' = "append" /\ UNCHANGED <<files, items>>
        /\ item'.remediation = static_remediation(finding.rule_id)
    BY <1>7 DEF CallFails
  <2>2. item'.remediation.from # "model"
    BY <2>1 DEF static_remediation
  <2> QED
    BY <2>1, <2>2, ItemsStay DEF Grounding, FromRanking
<1>8. CASE AppendItem
  <2> DEFINE advice == [finding_id |-> finding.id, rule_id |-> finding.rule_id,
                        remediation |-> item.remediation, source |-> item.source]
  <2>1. /\ pc = "append" /\ pc' = "retrieve" /\ files' = files
        /\ items' = Append(items, advice) /\ advice.remediation = item.remediation
    BY <1>8 DEF AppendItem
  <2> HIDE DEF advice
  <2>2. /\ Len(items) \in Nat /\ Len(items') = Len(items) + 1
        /\ \A n \in 1..Len(items) : items'[n] = items[n]
        /\ items'[Len(items) + 1] = advice
    BY <2>1, SeqFacts DEF IInv, Collected
  <2>3. \A n \in 1..Len(items') : n \in 1..Len(items) \/ n = Len(items) + 1
    BY <2>2
  <2>4. FromRanking(items'[Len(items) + 1].remediation, Len(items) + 1, files)
    BY <2>1, <2>2 DEF Grounding
  <2>5. \A n \in 1..Len(items) : FromRanking(items'[n].remediation, n, files)
    BY <2>2 DEF Grounding
  <2>6. \A n \in 1..Len(items') : FromRanking(items'[n].remediation, n, files)
    BY <2>3, <2>4, <2>5
  <2> QED
    BY <2>1, <2>6 DEF Grounding
<1>9. CASE Respond
  BY <1>9, ItemsStay DEF Respond, Grounding
<1>10. CASE UNCHANGED vars
  BY <1>10 DEF vars, Grounding
<1> QED
  BY <1>1, <1>2, <1>3, <1>4, <1>5, <1>6, <1>7, <1>8, <1>9, <1>10 DEF Next
-----------------------------------------------------------------------------

\* The variables keep their types, for any findings and configurations.
THEOREM TypeCorrect == Spec => []TypeOK
<1>1. IInv => TypeOK
  BY DEF IInv
<1> QED
  BY Starts, Steps, <1>1, PTL DEF Spec

\* However many findings a scan has, and whichever calls of the model fail, advise
\* returns one item per finding, in order, with a text and a source that are its own
\* (anthropic.py:120-155, static.py:34-45).
THEOREM OneOwnItemEach == Spec => []ItemPerFinding
<1>1. IInv => ItemPerFinding
  <2> SUFFICES ASSUME IInv, response.status = 200
               PROVE  /\ Len(response.items) = Len(Findings)
                      /\ \A n \in DOMAIN Findings :
                            ItemFor(n, response.items[n], Asking, failed)
    BY DEF ItemPerFinding, Answered, ItemFor, MadeFor, Asking
  <2>1. response.items = items /\ Len(items) = Len(Findings)
    BY DEF IInv, Outcome
  <2>2. DOMAIN Findings = 1..Len(items)
    BY <2>1, Lengths
  <2> QED
    BY <2>1, <2>2 DEF IInv, Collected
<1> QED
  BY Starts, Steps, <1>1, PTL DEF Spec

\* No configuration, and no failure of the model service, ends in a 500: only a corpus
\* that cannot be read does, and only with the model selected (provider.py:8-16).
THEOREM OnlyTheCorpusBreaks == Spec => []MisconfigurationNeverBreaks
<1>1. IInv => MisconfigurationNeverBreaks
  <2> SUFFICES ASSUME IInv, response.status = 500
               PROVE  ~readable(files) /\ Selected(settings) = "anthropic"
    BY DEF MisconfigurationNeverBreaks
  <2>1. ~readable(files) /\ provider = "anthropic"
    BY DEF IInv, Outcome
  <2>2. pc = "done"
    BY DEF IInv, TypeOK
  <2> QED
    BY <2>1, <2>2 DEF IInv, Chosen
<1> QED
  BY Starts, Steps, <1>1, PTL DEF Spec

\* A text of the model is grounded in its own finding (anthropic.py:137-145), however
\* many passages the corpus has, whatever they are about and whichever calls fail.
THEOREM NoStrayGrounding == Spec => []GroundedInOwnRule
<1>1. IInv /\ Grounding => GroundedInOwnRule
  <2> SUFFICES ASSUME IInv, Grounding, NEW n \in DOMAIN items,
                      items[n].remediation.from = "model"
               PROVE  LET s == items[n].remediation.passages
                      IN  /\ KeyDecides(Findings[n], load_corpus(files)) => Keyed(Findings[n], s[1])
                          /\ \A i \in DOMAIN s : relevance(Findings[n], s[i]) > 0
    BY DEF GroundedInOwnRule
  <2>1. n \in 1..Len(items)
    BY SeqFacts DEF IInv, Collected
  <2>2. n \in DOMAIN Findings
    BY <2>1, Lengths DEF IInv, TypeOK
  <2>3. Library(files) /\ IsFiniteSet(Findings[n].words)
    BY <2>2, FindingsAssumption DEF Grounding
  <2>4. items[n].remediation.passages = retrieve(Findings[n], files, TOP_K)
    BY <2>1 DEF Grounding, FromRanking
  <2>5. TOP_K \in Nat \ {0}
    BY DEF TOP_K
  <2> QED
    BY <2>3, <2>4, <2>5, RetrieveGrounds
<1>2. IInv /\ Grounding /\ [Next]_vars => Grounding'
  BY GroundingSteps
<1> QED
  BY Starts, Steps, GroundingStarts, <1>1, <1>2, PTL DEF Spec

\* rag.py's ranking under an author's hands: with one file more, every finding gets
\* the passages it had, or the new one among them in its place (rag.py:138-153).
THEOREM RankingIsStable == Spec => NewFileDisplacesOnly
<1> DEFINE Displaces ==
             readable(files') =>
                 \A f \in files' \ files, about \in Asked, top_k \in 1..MaxTopK :
                     LET old == retrieve(about, files, top_k)
                         new == retrieve(about, files \cup {f}, top_k)
                     IN  \/ new = old
                         \/ \E m \in 1..(Len(old) + 1) :
                               new = first(InsertAt(old, m, parse_passage(f)), top_k)
<1>1. ASSUME IInv, Grounding, [Next]_vars
      PROVE  [Displaces]_files
  <2>1. CASE Author
    <3>1. PICK f : f \notin files /\ files' = files \cup {f} /\ Library(files \cup {f})
      BY <1>1, <2>1, AuthorAddsOne DEF Grounding
    <3>2. ASSUME NEW about \in Asked, NEW top_k \in 1..MaxTopK
          PROVE  LET old == retrieve(about, files, top_k)
                     new == retrieve(about, files \cup {f}, top_k)
                 IN  \/ new = old
                     \/ \E m \in 1..(Len(old) + 1) :
                           new = first(InsertAt(old, m, parse_passage(f)), top_k)
      <4>1. IsFiniteSet(about.words)
        BY FindingsAssumption DEF Asked
      <4>2. top_k \in Nat
        BY BoundsAssumption
      <4> QED
        BY <3>1, <4>1, <4>2, FileTakesAPlace
    <3>3. \A g \in files' \ files : g = f
      BY <3>1
    <3> QED
      BY <3>2, <3>3
  <2>2. CASE UNCHANGED files
    BY <2>2
  <2> QED
    BY <1>1, <2>1, <2>2 DEF Next, vars, get_provider, StaticItem, Retrieve, CorpusFails,
       CallSucceeds, CallFails, AppendItem, Respond
<1>2. IInv /\ Grounding /\ [Next]_vars => Grounding'
  BY GroundingSteps
<1> QED
  BY Starts, Steps, GroundingStarts, <1>1, <1>2, PTL DEF Spec, NewFileDisplacesOnly
=============================================================================
