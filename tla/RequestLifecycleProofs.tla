----------------------- MODULE RequestLifecycleProofs -----------------------
(***************************************************************************)
(* Theorems about RequestLifecycle, for any number of requests at once, any *)
(* inputs, caps, restarts and failures of the limiter, and about the start  *)
(* of the process that serves them (Bootstrap, at the end), for any number  *)
(* of workers, boots and rules.                                            *)
(***************************************************************************)
EXTENDS RequestLifecycle, Bootstrap, FiniteSetTheorems, TLAPS

InFlight == {"limiter", "gate", "handler", "finally", "raised"}

\* A request that has not arrived has left no trace.
Fresh(r) ==
    pc[r] = "unsent" => log[r] = << >> /\ r \notin served /\ response[r].status = 0

\* The scope keeps a request's id for good, the context variable as long as the
\* request is inside the first middleware; every record is written with that id.
Identified(r) ==
    /\ pc[r] # "unsent" => input[r] \in Inputs /\ scope[r] = request_id(r, input[r])
    /\ pc[r] \in InFlight => context[r] = scope[r]
    /\ pc[r] = "done" => response[r].id = scope[r]
    /\ \A i \in DOMAIN log[r] : log[r][i].id = scope[r]

\* The access line is written when a request leaves the first middleware.
AccessLines(records) == {i \in DOMAIN records : records[i].message = "request.complete"}
OneLine(records, status) ==
    \E i \in AccessLines(records) : AccessLines(records) = {i} /\ records[i].status = status
Lined(r) ==
    /\ pc[r] \in InFlight => AccessLines(log[r]) = {}
    /\ pc[r] = "error handler" => OneLine(log[r], 500)
    /\ pc[r] = "done" => OneLine(log[r], response[r].status)

\* Whoever is at the handler, or was, came through the gate, and is not refused
\* afterwards.
Cleared(r) == Gated(r) /\ expected # None => Supplied(r) = expected
Refusals == {401, 422, 429}
Judged(r) ==
    /\ pc[r] = "handler" \/ r \in served => Cleared(r)
    /\ pc[r] \in {"limiter", "gate", "handler"} => r \notin served /\ response[r].status = 0
    /\ r \in served => response[r].status \notin Refusals
    /\ pc[r] \in {"raised", "error handler"} => response[r].status = 0

LocalOK(r) == Fresh(r) /\ Identified(r) /\ Lined(r) /\ Judged(r)

\* What a process has let through it has counted, up to the cap; earlier processes
\* of the window have let through a cap each.
Lower(m, n) == IF m < n THEN m ELSE n
Before == cap * (boots - 1)
Spent ==
    Limiter!enabled =>
        \A k \in ClientKeys : passed[k] <= Before + faults[k] + Lower(counts[now][k], cap)

\* A bucket has no more counts than requests of its client have come past the limiter.
Presented == {in.apiKey : in \in Inputs} \ {None, ""}
Callers(labels, inputs, a) ==
    {q \in Requests : labels[q] \notin {"unsent", "limiter"} /\ inputs[q].apiKey = a}
Charged ==
    \A a \in Presented : \A w \in 0..MaxWindow :
        counts[w][<<"api", a>>] <= Cardinality(Callers(pc, input, a))
Unmixed ==
    \A r \in Requests : response[r].status = 429 /\ PresentsKey(r) =>
        Cardinality(Callers(pc, input, input[r].apiKey)) > cap

IInv ==
    /\ TypeOK
    /\ \A r \in Requests : LocalOK(r)
    /\ Spent /\ Charged /\ Unmixed
-----------------------------------------------------------------------------
\* An instance with a window of one tick has one window per tick.
LEMMA OneTickWindows ==
    ASSUME TypeOK
    PROVE  /\ Limiter!Windows = 0..MaxWindow
           /\ Limiter!Win(now) = now
           /\ cap \in Nat /\ MaxWindow \in Nat /\ now \in Nat
<1>0. \A n \in Nat : n \div 1 = n
  OBVIOUS
<1>1. MaxWindow \div 1 = MaxWindow /\ now \div 1 = now /\ now \in Nat
  <2>1. MaxWindow \in Nat /\ now \in 0..MaxWindow
    BY BoundsAssumption DEF TypeOK
  <2>2. QED
    BY <1>0, <2>1
<1>2. QED
  BY <1>1, BoundsAssumption, CapsAssumption DEF TypeOK, Limiter!Windows, Limiter!Win

LEMMA IdsAreIds ==
    ASSUME NEW r \in Requests, NEW in \in Inputs
    PROVE  request_id(r, in) \in Ids /\ uuid4(r) \in Ids /\ ClientKey(in) \in ClientKeys
BY DEF request_id, uuid4, Ids, ClientKeys

LEMMA PresentedKeys ==
    ASSUME NEW a \in Presented
    PROVE  /\ <<"api", a>> \in ClientKeys
           /\ \A in \in Inputs : ClientKey(in) = <<"api", a>> => in.apiKey = a
<1>1. PICK in \in Inputs : in.apiKey = a /\ a \notin {None, ""}
  BY DEF Presented
<1>2. ClientKey(in) = <<"api", a>>
  BY <1>1 DEF ClientKey
<1>3. <<"api", a>> \in ClientKeys
  BY <1>2 DEF ClientKeys
<1>4. ASSUME NEW i \in Inputs, ClientKey(i) = <<"api", a>>
      PROVE  i.apiKey = a
  BY <1>4 DEF ClientKey
<1>5. QED
  BY <1>3, <1>4

LEMMA CallersCounted ==
    ASSUME NEW labels, NEW inputs, NEW a
    PROVE  /\ IsFiniteSet(Callers(labels, inputs, a))
           /\ Cardinality(Callers(labels, inputs, a)) \in Nat
           /\ Cardinality(Callers(labels, inputs, a)) >= 0
<1>1. Callers(labels, inputs, a) \in SUBSET Requests
  BY DEF Callers
<1>2. IsFiniteSet(Callers(labels, inputs, a))
  BY <1>1, RequestsAssumption, FS_Subset
<1>3. Cardinality(Callers(labels, inputs, a)) \in Nat
  BY <1>2, FS_CardinalityType
<1>4. QED
  BY <1>2, <1>3

\* More callers, and one more caller.
LEMMA MoreCallers ==
    ASSUME NEW l, NEW i, NEW m, NEW j, NEW a, Callers(l, i, a) \subseteq Callers(m, j, a)
    PROVE  /\ Cardinality(Callers(l, i, a)) <= Cardinality(Callers(m, j, a))
           /\ \A r \in Callers(m, j, a) \ Callers(l, i, a) :
                 Cardinality(Callers(l, i, a)) + 1 <= Cardinality(Callers(m, j, a))
<1>. DEFINE S == Callers(l, i, a)
            T == Callers(m, j, a)
<1>1. IsFiniteSet(S) /\ IsFiniteSet(T) /\ S \subseteq T
  BY CallersCounted
<1>. HIDE DEF S, T
<1>2. Cardinality(S) <= Cardinality(T)
  BY <1>1, FS_Subset
<1>3. ASSUME NEW r \in T \ S
      PROVE  Cardinality(S) + 1 <= Cardinality(T)
  <2>1. Cardinality(S \cup {r}) = Cardinality(S) + 1
    BY <1>1, FS_AddElement
  <2>2. S \cup {r} \in SUBSET T
    BY <1>1
  <2>3. QED
    BY <1>1, <2>1, <2>2, FS_Subset
<1>4. QED
  BY <1>2, <1>3 DEF S, T

\* What counting one more request does to the buckets.
LEMMA CountOne ==
    ASSUME TypeOK, NEW k \in ClientKeys
    PROVE  /\ Counted(k) \in [0..MaxWindow -> [ClientKeys -> Nat]]
           /\ Counted(k)[now][k] = counts[now][k] + 1
           /\ \A c \in ClientKeys \ {k} : Counted(k)[now][c] = counts[now][c]
           /\ \A w \in 0..MaxWindow, c \in ClientKeys :
                 Counted(k)[w][c] <= IF c = k THEN counts[w][c] + 1 ELSE counts[w][c]
           /\ Verdict(k).allowed <=> counts[now][k] + 1 <= cap
<1>. DEFINE more == [counts EXCEPT ![now][k] = @ + 1]
<1>1. /\ now \in 0..MaxWindow
      /\ more \in [0..MaxWindow -> [ClientKeys -> Nat]]
      /\ more[now][k] = counts[now][k] + 1
      /\ \A c \in ClientKeys \ {k} : more[now][c] = counts[now][c]
      /\ \A w \in 0..MaxWindow \ {now}, c \in ClientKeys : more[w][c] = counts[w][c]
  <2>0. now \in 0..MaxWindow /\ counts \in [0..MaxWindow -> [ClientKeys -> Nat]]
    BY DEF TypeOK
  <2>1. counts[now] \in [ClientKeys -> Nat] /\ counts[now][k] \in Nat /\ counts[now][k] + 1 \in Nat
    BY <2>0
  <2>2. more = [counts EXCEPT ![now] = [counts[now] EXCEPT ![k] = counts[now][k] + 1]]
    OBVIOUS
  <2>3. [counts[now] EXCEPT ![k] = counts[now][k] + 1] \in [ClientKeys -> Nat]
    BY <2>1
  <2>4. more[now] = [counts[now] EXCEPT ![k] = counts[now][k] + 1]
    BY <2>0, <2>1, <2>2
  <2>5. \A w \in 0..MaxWindow \ {now} : more[w] = counts[w]
    BY <2>0, <2>2
  <2>6. more \in [0..MaxWindow -> [ClientKeys -> Nat]]
    BY <2>0, <2>2, <2>3
  <2>7. QED
    BY <2>0, <2>1, <2>3, <2>4, <2>5, <2>6
<1>2. Counted(k) = [w \in 0..MaxWindow |-> IF w < now THEN [c \in ClientKeys |-> 0] ELSE more[w]]
  BY OneTickWindows DEF Counted, Limiter!gc
<1>3. \A w \in 0..MaxWindow, c \in ClientKeys : counts[w][c] \in Nat
  BY DEF TypeOK
<1>. HIDE DEF more
<1>4. ~ (now < now)
  BY <1>1
<1>5. Counted(k)[now] = more[now]
  BY <1>1, <1>2, <1>4
<1>6. Counted(k) \in [0..MaxWindow -> [ClientKeys -> Nat]]
  BY <1>1, <1>2
<1>7. ASSUME NEW w \in 0..MaxWindow, NEW c \in ClientKeys
      PROVE  Counted(k)[w][c] <= IF c = k THEN counts[w][c] + 1 ELSE counts[w][c]
  BY <1>1, <1>2, <1>3
<1>8. Verdict(k).allowed <=> counts[now][k] + 1 <= cap
  BY <1>1, <1>3, OneTickWindows
     DEF Verdict, Limiter!outcome, Limiter!rejected, Limiter!Allowed
<1>9. QED
  BY <1>1, <1>5, <1>6, <1>7, <1>8
-----------------------------------------------------------------------------
LEMMA InitInvariant ==
    Init => IInv
<1>. SUFFICES ASSUME Init PROVE IInv
  OBVIOUS
<1>1. TypeOK
  <2>1. << >> \in Seq(Records)
    OBVIOUS
  <2>2. NoCounts \in [0..MaxWindow -> [ClientKeys -> Nat]]
    BY DEF NoCounts
  <2>3. 0 \in 0..MaxWindow
    BY BoundsAssumption
  <2>4. QED
    BY <2>1, <2>2, <2>3 DEF Init, TypeOK, NoResponse, Nobody, Labels, Responses
<1>2. ASSUME NEW r \in Requests PROVE LocalOK(r)
  <2>1. Fresh(r) /\ Identified(r) /\ Judged(r)
    BY DEF Init, Fresh, Identified, Judged, NoResponse, InFlight
  <2>2. Lined(r)
    BY DEF Init, Lined, InFlight
  <2>3. QED
    BY <2>1, <2>2 DEF LocalOK
<1>3. Unmixed
  <2>1. \A r \in Requests : response[r].status # 429
    BY DEF Init, NoResponse
  <2>2. QED
    BY <2>1 DEF Unmixed
<1>4. Spent
  <2>1. ASSUME NEW k \in ClientKeys
        PROVE  passed[k] <= Before + faults[k] + Lower(counts[now][k], cap)
    <3>1. passed[k] = 0 /\ faults[k] = 0 /\ boots = 1 /\ counts[now][k] = 0
      BY BoundsAssumption DEF Init, Nobody, NoCounts
    <3>2. cap \in Nat
      BY <1>1, CapsAssumption DEF TypeOK
    <3>3. Lower(counts[now][k], cap) = 0 /\ Before = 0
      BY <3>1, <3>2 DEF Lower, Before
    <3>4. QED
      BY <3>1, <3>3
  <2>2. QED
    BY <2>1 DEF Spent
<1>5. Charged
  <2>1. ASSUME NEW a \in Presented, NEW w \in 0..MaxWindow
        PROVE  counts[w][<<"api", a>>] <= Cardinality(Callers(pc, input, a))
    <3>1. <<"api", a>> \in ClientKeys
      BY PresentedKeys
    <3>2. counts[w][<<"api", a>>] = 0
      BY <3>1 DEF Init, NoCounts
    <3>3. QED
      BY <3>2, CallersCounted
  <2>2. QED
    BY <2>1 DEF Charged
<1>6. QED
  BY <1>1, <1>2, <1>3, <1>4, <1>5 DEF IInv
-----------------------------------------------------------------------------
\* What one step changes, entry by entry.
LEMMA GotoTyped ==
    ASSUME TypeOK, NEW r \in Requests, NEW label \in Labels, Goto(r, label)
    PROVE  /\ pc' \in [Requests -> Labels]
           /\ pc'[r] = label
           /\ \A q \in Requests \ {r} : pc'[q] = pc[q]
BY DEF TypeOK, Goto

LEMMA EmitTyped ==
    ASSUME TypeOK, NEW r \in Requests, NEW record \in Records, Emit(r, record)
    PROVE  /\ log' \in [Requests -> Seq(Records)]
           /\ log'[r] = Append(log[r], record)
           /\ \A q \in Requests \ {r} : log'[q] = log[q]
<1>1. log \in [Requests -> Seq(Records)]
  BY DEF TypeOK
<1>2. Append(log[r], record) \in Seq(Records)
  BY <1>1
<1>3. QED
  BY <1>1, <1>2 DEF Emit

AnswersWith(r, answer) == response' = [response EXCEPT ![r] = answer]

LEMMA AnswerTyped ==
    ASSUME TypeOK, NEW r \in Requests, NEW status \in Nat, NEW id \in Ids,
           AnswersWith(r, [status |-> status, id |-> id])
    PROVE  /\ response' \in [Requests -> Responses]
           /\ response'[r].status = status /\ response'[r].id = id
           /\ \A q \in Requests \ {r} : response'[q] = response[q]
<1>1. response \in [Requests -> Responses]
  BY DEF TypeOK
<1>2. [status |-> status, id |-> id] \in Responses
  BY DEF Responses
<1>3. QED
  BY <1>1, <1>2 DEF AnswersWith

LEMMA StatusTyped ==
    ASSUME TypeOK, NEW r \in Requests, NEW status \in Nat,
           response' = [response EXCEPT ![r].status = status]
    PROVE  /\ response' \in [Requests -> Responses]
           /\ response'[r].status = status /\ response'[r].id = response[r].id
           /\ \A q \in Requests \ {r} : response'[q] = response[q]
<1>1. response \in [Requests -> Responses] /\ response[r] \in Responses
  BY DEF TypeOK
<1>2. [response[r] EXCEPT !.status = status] \in Responses
  BY <1>1 DEF Responses
<1>3. response' = [response EXCEPT ![r] = [response[r] EXCEPT !.status = status]]
  OBVIOUS
<1>4. /\ [response[r] EXCEPT !.status = status].status = status
      /\ [response[r] EXCEPT !.status = status].id = response[r].id
  BY <1>1 DEF Responses
<1>5. QED
  BY <1>1, <1>2, <1>3, <1>4

LEMMA IdTyped ==
    ASSUME TypeOK, NEW r \in Requests, NEW id \in Ids,
           response' = [response EXCEPT ![r].id = id]
    PROVE  /\ response' \in [Requests -> Responses]
           /\ response'[r].status = response[r].status /\ response'[r].id = id
           /\ \A q \in Requests \ {r} : response'[q] = response[q]
<1>1. response \in [Requests -> Responses] /\ response[r] \in Responses
  BY DEF TypeOK
<1>2. [response[r] EXCEPT !.id = id] \in Responses
  BY <1>1 DEF Responses
<1>3. response' = [response EXCEPT ![r] = [response[r] EXCEPT !.id = id]]
  OBVIOUS
<1>4. /\ [response[r] EXCEPT !.id = id].id = id
      /\ [response[r] EXCEPT !.id = id].status = response[r].status
  BY <1>1 DEF Responses
<1>5. QED
  BY <1>1, <1>2, <1>3, <1>4

LEMMA CountTyped ==
    ASSUME NEW f \in [ClientKeys -> Nat], NEW k \in ClientKeys
    PROVE  /\ [f EXCEPT ![k] = @ + 1] \in [ClientKeys -> Nat]
           /\ [f EXCEPT ![k] = @ + 1][k] = f[k] + 1
           /\ \A c \in ClientKeys \ {k} : [f EXCEPT ![k] = @ + 1][c] = f[c]
<1>1. f[k] + 1 \in Nat
  OBVIOUS
<1>2. QED
  BY <1>1

LEMMA RecordTyped ==
    ASSUME NEW status \in Nat, NEW id \in Ids
    PROVE  /\ Record("throttled", status, id) \in Records
           /\ Record("failing open", status, id) \in Records
           /\ Record("handler", status, id) \in Records
           /\ Record("request.complete", status, id) \in Records
           /\ Record("Unhandled exception during request.", status, id) \in Records
BY DEF Record, Records

LEMMA IdInFlight ==
    ASSUME TypeOK, NEW r \in Requests, Identified(r), pc[r] \in InFlight
    PROVE  /\ scope[r] \in Ids /\ context[r] = scope[r] /\ input[r] \in Inputs
           /\ ClientKey(input[r]) \in ClientKeys
<1>1. pc[r] # "unsent"
  BY DEF InFlight
<1>2. QED
  BY <1>1, IdsAreIds DEF Identified

\* The last part of the error handler's choice is never needed.
LEMMA ErrorIdIsScope ==
    ASSUME TypeOK, NEW r \in Requests, Identified(r), pc[r] = "error handler"
    PROVE  ErrorId(r) = scope[r] /\ scope[r] \in Ids
<1>1. pc[r] # "unsent"
  OBVIOUS
<1>2. scope[r] \in Ids
  BY <1>1, IdsAreIds DEF Identified
<1>3. QED
  BY <1>2, IdsAssumption DEF ErrorId

\* What one more record does to the log of a request.
LEMMA Appended ==
    ASSUME NEW records \in Seq(Records), NEW record \in Records, NEW more,
           more = Append(records, record)
    PROVE  /\ \A id \in Ids : (\A i \in DOMAIN records : records[i].id = id) /\ record.id = id
                => \A i \in DOMAIN more : more[i].id = id
           /\ record.message # "request.complete" => AccessLines(more) = AccessLines(records)
           /\ record.message # "request.complete" =>
                 \A status \in Nat : OneLine(records, status) => OneLine(more, status)
           /\ record.message = "request.complete" /\ AccessLines(records) = {} =>
                 OneLine(more, record.status)
<1>1. Len(records) \in Nat /\ DOMAIN records = 1..Len(records)
  OBVIOUS
<1>2. /\ DOMAIN more = 1..Len(records) + 1
      /\ more[Len(records) + 1] = record
      /\ \A i \in 1..Len(records) : more[i] = records[i]
  BY <1>1
<1>3. AccessLines(more) = {i \in 1..Len(records) + 1 : more[i].message = "request.complete"}
  BY <1>2 DEF AccessLines
<1>4. AccessLines(records) = {i \in 1..Len(records) : records[i].message = "request.complete"}
  BY <1>1 DEF AccessLines
<1>5. \A i \in 1..Len(records) + 1 : i \in 1..Len(records) \/ i = Len(records) + 1
  BY <1>1
<1>6. Len(records) + 1 \in 1..Len(records) + 1 /\ 1..Len(records) \subseteq 1..Len(records) + 1
  BY <1>1
<1>7. record.message # "request.complete" => AccessLines(more) = AccessLines(records)
  BY <1>2, <1>3, <1>4, <1>5, <1>6
<1>8. ASSUME record.message = "request.complete", AccessLines(records) = {}
      PROVE  OneLine(more, record.status)
  <2>1. AccessLines(more) = {Len(records) + 1}
    BY <1>2, <1>3, <1>4, <1>5, <1>6, <1>8
  <2>2. QED
    BY <1>2, <2>1 DEF OneLine
<1>9. ASSUME record.message # "request.complete", NEW status \in Nat, OneLine(records, status)
      PROVE  OneLine(more, status)
  BY <1>2, <1>4, <1>7, <1>9 DEF OneLine
<1>10. ASSUME NEW id \in Ids, \A i \in DOMAIN records : records[i].id = id, record.id = id,
              NEW i \in DOMAIN more
       PROVE  more[i].id = id
  BY <1>1, <1>2, <1>5, <1>10
<1>11. QED
  BY <1>7, <1>8, <1>9, <1>10

\* A request whose entries a step leaves alone keeps its part of the invariant.
SameEntries(q) ==
    /\ expected' = expected
    /\ pc'[q] = pc[q] /\ input'[q] = input[q] /\ scope'[q] = scope[q]
    /\ context'[q] = context[q] /\ response'[q] = response[q] /\ log'[q] = log[q]
    /\ q \in served' <=> q \in served

LEMMA Carried ==
    ASSUME NEW q \in Requests, SameEntries(q), LocalOK(q)
    PROVE  LocalOK(q)'
<1>1. Fresh(q)'
  BY DEF SameEntries, LocalOK, Fresh
<1>2. Identified(q)'
  <2>1. request_id(q, input[q])' = request_id(q, input[q])
    BY DEF SameEntries, request_id, uuid4
  <2>2. QED
    BY <2>1 DEF SameEntries, LocalOK, Identified
<1>3. Lined(q)'
  <2>1. pc'[q] = pc[q] /\ log'[q] = log[q] /\ response'[q] = response[q]
    BY DEF SameEntries
  <2>2. Lined(q)
    BY DEF LocalOK
  <2>3. (pc[q] \in InFlight => AccessLines(log[q]) = {})'
    <3>1. pc[q] \in InFlight => AccessLines(log[q]) = {}
      BY <2>2 DEF Lined
    <3>2. QED
      BY <2>1, <3>1 DEF InFlight
  <2>4. (pc[q] = "error handler" => OneLine(log[q], 500))'
    <3>1. pc[q] = "error handler" => OneLine(log[q], 500)
      BY <2>2 DEF Lined
    <3>2. QED
      BY <2>1, <3>1
  <2>5. (pc[q] = "done" => OneLine(log[q], response[q].status))'
    <3>1. pc[q] = "done" => OneLine(log[q], response[q].status)
      BY <2>2 DEF Lined
    <3>2. QED
      BY <2>1, <3>1
  <2>6. QED
    BY <2>3, <2>4, <2>5 DEF Lined
<1>4. Judged(q)'
  <2>1. Cleared(q)' = Cleared(q)
    BY DEF SameEntries, Cleared, Gated, Supplied
  <2>2. pc'[q] = pc[q] /\ response'[q] = response[q] /\ (q \in served' <=> q \in served)
    BY DEF SameEntries
  <2>3. Judged(q)
    BY DEF LocalOK
  <2>4. (pc[q] = "handler" \/ q \in served => Cleared(q))'
    BY <2>1, <2>2, <2>3 DEF Judged
  <2>5. QED
    BY <2>2, <2>3, <2>4 DEF Judged
<1>5. QED
  BY <1>1, <1>2, <1>3, <1>4 DEF LocalOK

\* A step of one request leaves the others, the configuration and the clock alone.
Frame(r) ==
    /\ expected' = expected /\ cap' = cap /\ now' = now /\ boots' = boots
    /\ \A q \in Requests \ {r} :
          /\ pc'[q] = pc[q] /\ input'[q] = input[q] /\ scope'[q] = scope[q]
          /\ context'[q] = context[q] /\ response'[q] = response[q] /\ log'[q] = log[q]
          /\ q \in served' <=> q \in served

LEMMA Elsewhere ==
    ASSUME NEW r \in Requests, Frame(r), NEW q \in Requests \ {r}, LocalOK(q)
    PROVE  LocalOK(q)'
<1>1. SameEntries(q)
  BY DEF Frame, SameEntries
<1>2. QED
  BY <1>1, Carried

\* The limiter's state after a step.
LimiterTyped ==
    /\ counts \in [0..MaxWindow -> [ClientKeys -> Nat]]
    /\ passed \in [ClientKeys -> Nat]
    /\ faults \in [ClientKeys -> Nat]

LEMMA LimiterKept ==
    ASSUME TypeOK, UNCHANGED <<counts, histories>>
    PROVE  LimiterTyped' /\ boots' = boots
BY DEF TypeOK, LimiterTyped, histories

\* A step that moves a request on, inside the first middleware.
LEMMA QuietStep ==
    ASSUME TypeOK, NEW r \in Requests, LocalOK(r), pc[r] \in InFlight,
           NEW label \in {"gate", "handler", "raised"}, Goto(r, label),
           LimiterTyped', served' \in {served, served \cup {r}},
           UNCHANGED <<control, input, scope, context, response, log, boots>>
    PROVE  TypeOK' /\ Frame(r) /\ Fresh(r)' /\ Identified(r)' /\ Lined(r)' /\ pc'[r] = label
<1>1. /\ pc' \in [Requests -> Labels] /\ pc'[r] = label
      /\ \A q \in Requests \ {r} : pc'[q] = pc[q]
  BY GotoTyped DEF Labels
<1>2. TypeOK'
  BY <1>1 DEF TypeOK, LimiterTyped, control
<1>3. Frame(r)
  BY <1>1 DEF Frame, control
<1>4. label \in InFlight /\ label # "unsent" /\ label # "done" /\ label # "error handler"
  BY DEF InFlight
<1>5. pc[r] # "unsent" /\ pc[r] \in InFlight
  BY DEF InFlight
<1>6. Fresh(r)' /\ Identified(r)'
  BY <1>1, <1>4, <1>5 DEF LocalOK, Fresh, Identified, request_id, uuid4
<1>7. Lined(r)'
  BY <1>1, <1>4, <1>5 DEF LocalOK, Lined
<1>8. QED
  BY <1>1, <1>2, <1>3, <1>6, <1>7

\* A step that sets the status of the answer.
Answers(r, status) ==
    /\ response' = [response EXCEPT ![r].status = status]
    /\ Goto(r, "finally")
    /\ UNCHANGED <<control, counts, input, scope, context, log, histories>>

LEMMA AnswerStep ==
    ASSUME TypeOK, NEW r \in Requests, LocalOK(r), pc[r] \in {"gate", "handler"},
           NEW status \in Nat, Answers(r, status), served' \in {served, served \cup {r}}
    PROVE  /\ TypeOK' /\ Frame(r) /\ Fresh(r)' /\ Identified(r)' /\ Lined(r)'
           /\ pc'[r] = "finally" /\ response'[r].status = status
<1>1. /\ pc' \in [Requests -> Labels] /\ pc'[r] = "finally"
      /\ \A q \in Requests \ {r} : pc'[q] = pc[q]
  BY GotoTyped DEF Labels, Answers
<1>2. /\ response' \in [Requests -> Responses]
      /\ response'[r].status = status
      /\ \A q \in Requests \ {r} : response'[q] = response[q]
  BY StatusTyped DEF Answers
<1>3. TypeOK'
  BY <1>1, <1>2 DEF TypeOK, Answers, control, histories
<1>4. Frame(r)
  BY <1>1, <1>2 DEF Frame, Answers, control, histories
<1>5. Fresh(r)' /\ Identified(r)'
  BY <1>1 DEF LocalOK, Answers, Fresh, Identified, InFlight, request_id, uuid4
<1>6. Lined(r)'
  BY <1>1 DEF LocalOK, Answers, Lined, InFlight
<1>7. QED
  BY <1>1, <1>2, <1>3, <1>4, <1>5, <1>6

LEMMA BypassStep ==
    ASSUME TypeOK, NEW r \in Requests, LocalOK(r), Bypass(r)
    PROVE  TypeOK' /\ Frame(r) /\ LocalOK(r)'
<1>1. pc[r] = "limiter" /\ pc[r] \in InFlight
  BY DEF Bypass, InFlight
<1>2. TypeOK' /\ Frame(r) /\ Fresh(r)' /\ Identified(r)' /\ Lined(r)' /\ pc'[r] = "gate"
  <2>1. LimiterTyped' /\ boots' = boots
    BY LimiterKept DEF Bypass
  <2>2. QED
    BY <1>1, <2>1, QuietStep DEF Bypass
<1>3. Judged(r)'
  BY <1>1, <1>2 DEF Bypass, LocalOK, Judged
<1>4. QED
  BY <1>2, <1>3 DEF LocalOK

LEMMA GateOpensStep ==
    ASSUME TypeOK, NEW r \in Requests, LocalOK(r), GateOpens(r)
    PROVE  TypeOK' /\ Frame(r) /\ LocalOK(r)'
<1>1. pc[r] = "gate" /\ pc[r] \in InFlight
  BY DEF GateOpens, InFlight
<1>2. TypeOK' /\ Frame(r) /\ Fresh(r)' /\ Identified(r)' /\ Lined(r)' /\ pc'[r] = "handler"
  <2>1. LimiterTyped' /\ boots' = boots
    BY LimiterKept DEF GateOpens
  <2>2. QED
    BY <1>1, <2>1, QuietStep DEF GateOpens
<1>3. expected' = expected /\ input' = input /\ served' = served /\ response' = response
  BY DEF GateOpens, control
<1>4. Cleared(r) /\ Cleared(r)' = Cleared(r)
  BY <1>3 DEF GateOpens, KeyMatches, Cleared, Gated, Supplied
<1>5. Judged(r)'
  BY <1>1, <1>2, <1>3, <1>4 DEF LocalOK, Judged
<1>6. QED
  BY <1>2, <1>5 DEF LocalOK

LEMMA GateRaisesStep ==
    ASSUME TypeOK, NEW r \in Requests, LocalOK(r), GateRaises(r)
    PROVE  TypeOK' /\ Frame(r) /\ LocalOK(r)'
<1>1. pc[r] = "gate" /\ pc[r] \in InFlight
  BY DEF GateRaises, InFlight
<1>2. TypeOK' /\ Frame(r) /\ Fresh(r)' /\ Identified(r)' /\ Lined(r)' /\ pc'[r] = "raised"
  <2>1. LimiterTyped' /\ boots' = boots
    BY LimiterKept DEF GateRaises
  <2>2. QED
    BY <1>1, <2>1, QuietStep DEF GateRaises
<1>3. Judged(r)'
  BY <1>1, <1>2 DEF GateRaises, LocalOK, Judged
<1>4. QED
  BY <1>2, <1>3 DEF LocalOK

LEMMA ArriveStep ==
    ASSUME TypeOK, NEW r \in Requests, NEW in \in Inputs, LocalOK(r), Arrive(r, in)
    PROVE  TypeOK' /\ Frame(r) /\ LocalOK(r)'
<1>1. /\ pc' \in [Requests -> Labels] /\ pc[r] = "unsent" /\ pc'[r] = "limiter"
      /\ \A q \in Requests \ {r} : pc'[q] = pc[q]
  BY GotoTyped DEF Arrive, Labels
<1>2. request_id(r, in) \in Ids
  BY IdsAreIds
<1>3. /\ input' \in [Requests -> Inputs \cup {NoInput}] /\ input'[r] = in
      /\ \A q \in Requests \ {r} : input'[q] = input[q]
  BY DEF Arrive, TypeOK
<1>4. /\ scope' \in [Requests -> Ids \cup {None}] /\ scope'[r] = request_id(r, in)
      /\ \A q \in Requests \ {r} : scope'[q] = scope[q]
  BY <1>2 DEF Arrive, TypeOK
<1>5. /\ context' \in [Requests -> Ids \cup {None}] /\ context'[r] = request_id(r, in)
      /\ \A q \in Requests \ {r} : context'[q] = context[q]
  BY <1>2 DEF Arrive, TypeOK
<1>6. TypeOK'
  BY <1>1, <1>3, <1>4, <1>5 DEF Arrive, TypeOK, control, histories
<1>7. Frame(r)
  BY <1>1, <1>3, <1>4, <1>5 DEF Arrive, Frame, control, histories
<1>8. log' = log /\ log[r] = << >> /\ r \notin served /\ served' = served
      /\ response' = response /\ response[r].status = 0
  BY <1>1 DEF Arrive, LocalOK, Fresh
<1>9. Fresh(r)' /\ Identified(r)'
  <2>1. /\ pc'[r] = "limiter" /\ input'[r] = in /\ scope'[r] = request_id(r, in)
        /\ context'[r] = scope'[r] /\ log'[r] = << >>
    BY <1>1, <1>3, <1>4, <1>5, <1>8
  <2>2. Fresh(r)'
    BY <2>1 DEF Fresh
  <2>3. request_id(r, input[r])' = request_id(r, in)
    BY <2>1 DEF request_id, uuid4
  <2>4. Identified(r)'
    BY <2>1, <2>3 DEF Identified
  <2>5. QED
    BY <2>2, <2>4
<1>10. Lined(r)'
  BY <1>1, <1>8 DEF Lined, AccessLines
<1>11. Judged(r)'
  BY <1>1, <1>8 DEF Judged
<1>12. QED
  BY <1>6, <1>7, <1>9, <1>10, <1>11 DEF LocalOK

LEMMA GateRefusesStep ==
    ASSUME TypeOK, NEW r \in Requests, LocalOK(r), GateRefuses(r)
    PROVE  TypeOK' /\ Frame(r) /\ LocalOK(r)'
<1>1. pc[r] = "gate" /\ served' = served
  BY DEF GateRefuses
<1>2. /\ TypeOK' /\ Frame(r) /\ Fresh(r)' /\ Identified(r)' /\ Lined(r)'
      /\ pc'[r] = "finally"
  <2>1. /\ pc[r] \in {"gate", "handler"} /\ 401 \in Nat
        /\ served' \in {served, served \cup {r}} /\ Answers(r, 401)
    BY <1>1 DEF GateRefuses, Answers
  <2>2. QED
    BY <2>1, AnswerStep
<1>3. r \notin served
  BY <1>1 DEF LocalOK, Judged
<1>4. Judged(r)'
  BY <1>1, <1>2, <1>3 DEF Judged
<1>5. QED
  BY <1>2, <1>4 DEF LocalOK

LEMMA InvalidStep ==
    ASSUME TypeOK, NEW r \in Requests, LocalOK(r), Invalid(r)
    PROVE  TypeOK' /\ Frame(r) /\ LocalOK(r)'
<1>1. pc[r] = "gate" /\ served' = served
  BY DEF Invalid
<1>2. /\ TypeOK' /\ Frame(r) /\ Fresh(r)' /\ Identified(r)' /\ Lined(r)'
      /\ pc'[r] = "finally"
  <2>1. /\ pc[r] \in {"gate", "handler"} /\ 422 \in Nat
        /\ served' \in {served, served \cup {r}} /\ Answers(r, 422)
    BY <1>1 DEF Invalid, Answers
  <2>2. QED
    BY <2>1, AnswerStep
<1>3. r \notin served
  BY <1>1 DEF LocalOK, Judged
<1>4. Judged(r)'
  BY <1>1, <1>2, <1>3 DEF Judged
<1>5. QED
  BY <1>2, <1>4 DEF LocalOK

LEMMA HandlerReturnsStep ==
    ASSUME TypeOK, NEW r \in Requests, LocalOK(r), NEW status \in {200, 400, 404},
           HandlerReturns(r, status)
    PROVE  TypeOK' /\ Frame(r) /\ LocalOK(r)'
<1>1. pc[r] = "handler" /\ served' = served \cup {r} /\ status \in Nat
  BY DEF HandlerReturns
<1>2. /\ TypeOK' /\ Frame(r) /\ Fresh(r)' /\ Identified(r)' /\ Lined(r)'
      /\ pc'[r] = "finally" /\ response'[r].status = status
  <2>1. /\ pc[r] \in {"gate", "handler"} /\ status \in Nat
        /\ served' \in {served, served \cup {r}} /\ Answers(r, status)
    BY <1>1 DEF HandlerReturns, Answers
  <2>2. QED
    BY <2>1, AnswerStep
<1>3. Cleared(r)
  BY <1>1 DEF LocalOK, Judged
<1>4. Cleared(r)' = Cleared(r)
  BY DEF HandlerReturns, control, Cleared, Gated, Supplied
<1>5. Judged(r)'
  <2>1. status \notin Refusals
    BY DEF Refusals
  <2>2. QED
    BY <1>2, <1>3, <1>4, <2>1 DEF Judged
<1>6. QED
  BY <1>2, <1>5 DEF LocalOK

LEMMA HandlerRaisesStep ==
    ASSUME TypeOK, NEW r \in Requests, LocalOK(r), HandlerRaises(r)
    PROVE  TypeOK' /\ Frame(r) /\ LocalOK(r)'
<1>1. pc[r] = "handler" /\ pc[r] \in InFlight /\ served' = served \cup {r}
  BY DEF HandlerRaises, InFlight
<1>2. TypeOK' /\ Frame(r) /\ Fresh(r)' /\ Identified(r)' /\ Lined(r)' /\ pc'[r] = "raised"
  <2>1. LimiterTyped' /\ boots' = boots
    BY LimiterKept DEF HandlerRaises
  <2>2. QED
    BY <1>1, <2>1, QuietStep DEF HandlerRaises
<1>3. /\ Cleared(r)
      /\ response[r].status = 0
  BY <1>1 DEF LocalOK, Judged
<1>4. /\ Cleared(r)' = Cleared(r)
      /\ response' = response
  BY DEF HandlerRaises, control, Cleared, Gated, Supplied
<1>5. Judged(r)'
  <2>1. pc'[r] = "raised" /\ response'[r].status = 0 /\ Cleared(r)'
    BY <1>2, <1>3, <1>4
  <2>2. (r \in served => response[r].status \notin Refusals)'
    BY <2>1 DEF Refusals
  <2>3. QED
    BY <2>1, <2>2 DEF Judged
<1>6. QED
  BY <1>2, <1>5 DEF LocalOK

LEMMA AdmitStep ==
    ASSUME TypeOK, NEW r \in Requests, LocalOK(r), Admit(r)
    PROVE  TypeOK' /\ Frame(r) /\ LocalOK(r)'
<1>. DEFINE k == ClientKey(input[r])
<1>1. pc[r] = "limiter" /\ pc[r] \in InFlight
  BY DEF Admit, InFlight
<1>2. k \in ClientKeys
  BY <1>1, IdInFlight DEF LocalOK
<1>3. LimiterTyped'
  <2>1. passed \in [ClientKeys -> Nat] /\ faults \in [ClientKeys -> Nat]
    BY DEF TypeOK
  <2>2. counts' = Counted(k) /\ passed' = [passed EXCEPT ![k] = @ + 1] /\ faults' = faults
    BY DEF Admit
  <2>3. QED
    BY <1>2, <2>1, <2>2, CountOne, CountTyped DEF LimiterTyped
<1>4. TypeOK' /\ Frame(r) /\ Fresh(r)' /\ Identified(r)' /\ Lined(r)' /\ pc'[r] = "gate"
  BY <1>1, <1>3, QuietStep DEF Admit
<1>5. Judged(r)'
  BY <1>1, <1>4 DEF Admit, LocalOK, Judged
<1>6. QED
  BY <1>4, <1>5 DEF LocalOK

\* What a step that writes a record of its own request's id leaves in the log.
LEMMA Logged ==
    ASSUME TypeOK, NEW r \in Requests, LocalOK(r), scope[r] \in Ids,
           NEW record \in Records, record.id = scope[r], Emit(r, record)
    PROVE  /\ log' \in [Requests -> Seq(Records)]
           /\ \A q \in Requests \ {r} : log'[q] = log[q]
           /\ \A i \in DOMAIN log'[r] : log'[r][i].id = scope[r]
           /\ record.message # "request.complete" =>
                 /\ AccessLines(log'[r]) = AccessLines(log[r])
                 /\ \A status \in Nat : OneLine(log[r], status) => OneLine(log'[r], status)
           /\ record.message = "request.complete" /\ AccessLines(log[r]) = {} =>
                 OneLine(log'[r], record.status)
<1>1. /\ log' \in [Requests -> Seq(Records)]
      /\ log'[r] = Append(log[r], record)
      /\ \A q \in Requests \ {r} : log'[q] = log[q]
  BY EmitTyped
<1>2. log[r] \in Seq(Records)
  BY DEF TypeOK
<1>3. \A i \in DOMAIN log[r] : log[r][i].id = scope[r]
  BY DEF LocalOK, Identified
<1>4. /\ record.message # "request.complete" =>
            /\ AccessLines(log'[r]) = AccessLines(log[r])
            /\ \A status \in Nat : OneLine(log[r], status) => OneLine(log'[r], status)
      /\ record.message = "request.complete" /\ AccessLines(log[r]) = {} =>
            OneLine(log'[r], record.status)
  <2>. DEFINE records == log[r]
              more == log'[r]
  <2>1. records \in Seq(Records) /\ more = Append(records, record)
    BY <1>1, <1>2
  <2>. HIDE DEF records, more
  <2>2. /\ record.message # "request.complete" =>
              /\ AccessLines(more) = AccessLines(records)
              /\ \A status \in Nat : OneLine(records, status) => OneLine(more, status)
        /\ record.message = "request.complete" /\ AccessLines(records) = {} =>
              OneLine(more, record.status)
    BY <2>1, Appended
  <2>3. QED
    BY <2>2 DEF records, more
<1>5. \A i \in DOMAIN log'[r] : log'[r][i].id = scope[r]
  BY <1>1, <1>2, <1>3, Appended
<1>6. QED
  BY <1>1, <1>4, <1>5

\* The same for the record of a logger that leaves the id to the filter.
LEMMA Noted ==
    ASSUME TypeOK, NEW r \in Requests, LocalOK(r), pc[r] \in InFlight,
           NEW message \in {"throttled", "failing open", "handler"}, Emit(r, Filtered(r, message))
    PROVE  /\ log' \in [Requests -> Seq(Records)]
           /\ \A q \in Requests \ {r} : log'[q] = log[q]
           /\ \A i \in DOMAIN log'[r] : log'[r][i].id = scope[r]
           /\ AccessLines(log'[r]) = {}
<1>1. scope[r] \in Ids /\ context[r] = scope[r]
  BY IdInFlight DEF LocalOK
<1>2. /\ Filtered(r, message) \in Records /\ Filtered(r, message).id = scope[r]
      /\ Filtered(r, message).message # "request.complete"
  BY <1>1 DEF Filtered, Record, Records, get_request_id
<1>3. AccessLines(log[r]) = {}
  BY DEF LocalOK, Lined
<1>4. QED
  BY <1>1, <1>2, <1>3, Logged

LEMMA HandlerLogsStep ==
    ASSUME TypeOK, NEW r \in Requests, LocalOK(r), HandlerLogs(r)
    PROVE  TypeOK' /\ Frame(r) /\ LocalOK(r)'
<1>1. /\ pc[r] = "handler" /\ pc[r] \in InFlight
      /\ UNCHANGED <<control, counts, pc, input, scope, context, response, served, histories>>
  BY DEF HandlerLogs, InFlight
<1>2. /\ log' \in [Requests -> Seq(Records)]
      /\ \A q \in Requests \ {r} : log'[q] = log[q]
      /\ \A i \in DOMAIN log'[r] : log'[r][i].id = scope[r]
      /\ AccessLines(log'[r]) = {}
  BY <1>1, Noted DEF HandlerLogs
<1>3. TypeOK'
  BY <1>1, <1>2 DEF TypeOK, control, histories
<1>4. Frame(r)
  BY <1>1, <1>2 DEF Frame, control, histories
<1>5. Fresh(r)' /\ Identified(r)'
  BY <1>1, <1>2 DEF LocalOK, Fresh, Identified, request_id, uuid4
<1>6. Lined(r)'
  BY <1>1, <1>2 DEF Lined
<1>7. Judged(r)'
  <2>1. Cleared(r)' = Cleared(r) /\ pc' = pc /\ response' = response /\ served' = served
    BY <1>1 DEF control, Cleared, Gated, Supplied
  <2>2. QED
    BY <2>1 DEF LocalOK, Judged
<1>8. QED
  BY <1>3, <1>4, <1>5, <1>6, <1>7 DEF LocalOK

LEMMA FailOpenStep ==
    ASSUME TypeOK, NEW r \in Requests, LocalOK(r), FailOpen(r)
    PROVE  TypeOK' /\ Frame(r) /\ LocalOK(r)'
<1>. DEFINE k == ClientKey(input[r])
<1>1. /\ pc[r] = "limiter" /\ pc[r] \in InFlight
      /\ UNCHANGED <<control, input, scope, context, response, served, boots>>
  BY DEF FailOpen, InFlight
<1>2. k \in ClientKeys
  BY <1>1, IdInFlight DEF LocalOK
<1>3. /\ log' \in [Requests -> Seq(Records)]
      /\ \A q \in Requests \ {r} : log'[q] = log[q]
      /\ \A i \in DOMAIN log'[r] : log'[r][i].id = scope[r]
      /\ AccessLines(log'[r]) = {}
  BY <1>1, Noted DEF FailOpen
<1>4. /\ pc' \in [Requests -> Labels] /\ pc'[r] = "gate"
      /\ \A q \in Requests \ {r} : pc'[q] = pc[q]
  BY GotoTyped DEF FailOpen, Labels
<1>5. LimiterTyped'
  <2>1. /\ passed \in [ClientKeys -> Nat] /\ faults \in [ClientKeys -> Nat]
        /\ counts \in [0..MaxWindow -> [ClientKeys -> Nat]] /\ now \in 0..MaxWindow
    BY DEF TypeOK
  <2>2. passed' \in [ClientKeys -> Nat] /\ faults' \in [ClientKeys -> Nat]
    BY <1>2, <2>1, CountTyped DEF FailOpen
  <2>3. [counts[now] EXCEPT ![k] = @ + 1] \in [ClientKeys -> Nat]
    BY <1>2, <2>1, CountTyped
  <2>4. [counts EXCEPT ![now] = [counts[now] EXCEPT ![k] = @ + 1]]
           \in [0..MaxWindow -> [ClientKeys -> Nat]]
    BY <2>1, <2>3
  <2>5. counts' \in [0..MaxWindow -> [ClientKeys -> Nat]]
    BY <2>1, <2>4 DEF FailOpen
  <2>6. QED
    BY <2>2, <2>5 DEF LimiterTyped
<1>6. TypeOK'
  BY <1>1, <1>3, <1>4, <1>5 DEF TypeOK, control, LimiterTyped
<1>7. Frame(r)
  BY <1>1, <1>3, <1>4 DEF Frame, control
<1>8. Fresh(r)' /\ Identified(r)'
  BY <1>1, <1>3, <1>4 DEF LocalOK, Fresh, Identified, request_id, uuid4, InFlight
<1>9. Lined(r)'
  BY <1>3, <1>4 DEF Lined
<1>10. Judged(r)'
  BY <1>1, <1>4 DEF LocalOK, Judged
<1>11. QED
  BY <1>6, <1>7, <1>8, <1>9, <1>10 DEF LocalOK

LEMMA ThrottleStep ==
    ASSUME TypeOK, NEW r \in Requests, LocalOK(r), Throttle(r)
    PROVE  /\ TypeOK' /\ Frame(r) /\ LocalOK(r)'
<1>1. /\ pc[r] = "limiter" /\ pc[r] \in InFlight
      /\ UNCHANGED <<control, input, scope, context, served, histories>>
  BY DEF Throttle, InFlight
<1>2. ClientKey(input[r]) \in ClientKeys /\ scope[r] \in Ids
  BY <1>1, IdInFlight DEF LocalOK
<1>3. /\ log' \in [Requests -> Seq(Records)]
      /\ \A q \in Requests \ {r} : log'[q] = log[q]
      /\ \A i \in DOMAIN log'[r] : log'[r][i].id = scope[r]
      /\ AccessLines(log'[r]) = {}
  BY <1>1, Noted DEF Throttle
<1>4. /\ pc' \in [Requests -> Labels] /\ pc'[r] = "finally"
      /\ \A q \in Requests \ {r} : pc'[q] = pc[q]
  BY GotoTyped DEF Throttle, Labels
<1>5. counts' \in [0..MaxWindow -> [ClientKeys -> Nat]]
  BY <1>2, CountOne DEF Throttle
<1>6. /\ response' \in [Requests -> Responses]
      /\ \A q \in Requests \ {r} : response'[q] = response[q]
  <2>1. 429 \in Nat
    OBVIOUS
  <2>2. AnswersWith(r, [status |-> 429, id |-> scope[r]])
    BY DEF Throttle, AnswersWith
  <2>3. QED
    BY <1>2, <2>1, <2>2, AnswerTyped
<1>7. TypeOK'
  BY <1>1, <1>3, <1>4, <1>5, <1>6 DEF TypeOK, control, histories
<1>8. Frame(r)
  BY <1>1, <1>3, <1>4, <1>6 DEF Frame, control, histories
<1>9. Fresh(r)' /\ Identified(r)'
  BY <1>1, <1>3, <1>4 DEF LocalOK, Fresh, Identified, request_id, uuid4, InFlight
<1>10. Lined(r)'
  BY <1>3, <1>4 DEF Lined
<1>11. Judged(r)'
  BY <1>1, <1>4 DEF LocalOK, Judged
<1>12. QED
  BY <1>7, <1>8, <1>9, <1>10, <1>11 DEF LocalOK

\* Leaving the first middleware: the access line, and no context variable any more.
LEMMA Completed ==
    ASSUME TypeOK, NEW r \in Requests, LocalOK(r), pc[r] \in InFlight,
           NEW status \in Nat, Complete(r, status)
    PROVE  /\ log' \in [Requests -> Seq(Records)]
           /\ \A q \in Requests \ {r} : log'[q] = log[q]
           /\ \A i \in DOMAIN log'[r] : log'[r][i].id = scope[r]
           /\ OneLine(log'[r], status)
           /\ context' \in [Requests -> Ids \cup {None}]
           /\ \A q \in Requests \ {r} : context'[q] = context[q]
<1>. DEFINE record == Record("request.complete", status, scope[r])
<1>1. scope[r] \in Ids
  BY IdInFlight DEF LocalOK
<1>2. record \in Records
  BY <1>1, RecordTyped
<1>3. record.id = scope[r] /\ record.message = "request.complete" /\ record.status = status
  BY DEF Record
<1>4. AccessLines(log[r]) = {}
  BY DEF LocalOK, Lined
<1>5. Emit(r, record)
  BY DEF Complete
<1>6. /\ log' \in [Requests -> Seq(Records)]
      /\ \A q \in Requests \ {r} : log'[q] = log[q]
      /\ \A i \in DOMAIN log'[r] : log'[r][i].id = scope[r]
      /\ OneLine(log'[r], status)
  <2>. HIDE DEF record
  <2>1. QED
    BY <1>1, <1>2, <1>3, <1>4, <1>5, Logged
<1>7. /\ context' \in [Requests -> Ids \cup {None}]
      /\ \A q \in Requests \ {r} : context'[q] = context[q]
  BY DEF Complete, TypeOK
<1>8. QED
  BY <1>6, <1>7

LEMMA FinishStep ==
    ASSUME TypeOK, NEW r \in Requests, LocalOK(r), Finish(r)
    PROVE  TypeOK' /\ Frame(r) /\ LocalOK(r)' /\ response'[r].status = response[r].status
<1>1. /\ pc[r] = "finally" /\ pc[r] \in InFlight
      /\ UNCHANGED <<control, counts, input, scope, served, histories>>
  BY DEF Finish, InFlight
<1>2. scope[r] \in Ids /\ response[r].status \in Nat
  BY <1>1, IdInFlight DEF LocalOK, TypeOK, Responses
<1>3. /\ log' \in [Requests -> Seq(Records)]
      /\ \A q \in Requests \ {r} : log'[q] = log[q]
      /\ \A i \in DOMAIN log'[r] : log'[r][i].id = scope[r]
      /\ OneLine(log'[r], response[r].status)
      /\ context' \in [Requests -> Ids \cup {None}]
      /\ \A q \in Requests \ {r} : context'[q] = context[q]
  BY <1>1, <1>2, Completed DEF Finish
<1>4. /\ pc' \in [Requests -> Labels] /\ pc'[r] = "done"
      /\ \A q \in Requests \ {r} : pc'[q] = pc[q]
  BY GotoTyped DEF Finish, Labels
<1>5. /\ response' \in [Requests -> Responses]
      /\ response'[r].status = response[r].status /\ response'[r].id = scope[r]
      /\ \A q \in Requests \ {r} : response'[q] = response[q]
  <2>1. response' = [response EXCEPT ![r].id = scope[r]]
    BY DEF Finish
  <2>2. QED
    BY <1>2, <2>1, IdTyped
<1>6. TypeOK'
  BY <1>1, <1>3, <1>4, <1>5 DEF TypeOK, control, histories
<1>7. Frame(r)
  BY <1>1, <1>3, <1>4, <1>5 DEF Frame, control, histories
<1>8. Fresh(r)' /\ Identified(r)'
  BY <1>1, <1>3, <1>4, <1>5 DEF LocalOK, Fresh, Identified, request_id, uuid4, InFlight
<1>9. Lined(r)'
  BY <1>3, <1>4, <1>5 DEF Lined, InFlight
<1>10. Judged(r)'
  <2>1. Cleared(r)' = Cleared(r)
    BY <1>1 DEF control, Cleared, Gated, Supplied
  <2>2. QED
    BY <1>1, <1>4, <1>5, <2>1 DEF LocalOK, Judged
<1>11. QED
  BY <1>5, <1>6, <1>7, <1>8, <1>9, <1>10 DEF LocalOK

LEMMA FinishRaisedStep ==
    ASSUME TypeOK, NEW r \in Requests, LocalOK(r), FinishRaised(r)
    PROVE  TypeOK' /\ Frame(r) /\ LocalOK(r)'
<1>0. 500 \in Nat
  OBVIOUS
<1>1. /\ pc[r] = "raised" /\ pc[r] \in InFlight
      /\ UNCHANGED <<control, counts, input, scope, response, served, histories>>
  BY DEF FinishRaised, InFlight
<1>2. /\ log' \in [Requests -> Seq(Records)]
      /\ \A q \in Requests \ {r} : log'[q] = log[q]
      /\ \A i \in DOMAIN log'[r] : log'[r][i].id = scope[r]
      /\ OneLine(log'[r], 500)
      /\ context' \in [Requests -> Ids \cup {None}]
      /\ \A q \in Requests \ {r} : context'[q] = context[q]
  BY <1>0, <1>1, Completed DEF FinishRaised
<1>3. /\ pc' \in [Requests -> Labels] /\ pc'[r] = "error handler"
      /\ \A q \in Requests \ {r} : pc'[q] = pc[q]
  BY GotoTyped DEF FinishRaised, Labels
<1>4. TypeOK'
  BY <1>1, <1>2, <1>3 DEF TypeOK, control, histories
<1>5. Frame(r)
  BY <1>1, <1>2, <1>3 DEF Frame, control, histories
<1>6. Fresh(r)' /\ Identified(r)'
  BY <1>1, <1>2, <1>3 DEF LocalOK, Fresh, Identified, request_id, uuid4, InFlight
<1>7. Lined(r)'
  BY <1>2, <1>3 DEF Lined, InFlight
<1>8. Judged(r)'
  <2>1. /\ Cleared(r)' = Cleared(r)
        /\ response' = response /\ served' = served
        /\ pc[r] = "raised" /\ pc'[r] = "error handler"
    BY <1>1, <1>3 DEF control, Cleared, Gated, Supplied
  <2>2. Judged(r)
    BY DEF LocalOK
  <2>3. r \in served => Cleared(r)
                        /\ response[r].status \notin Refusals
    BY <2>2 DEF Judged
  <2>4. response[r].status = 0
    BY <2>1, <2>2 DEF Judged
  <2>5. (pc[r] = "handler" \/ r \in served => Cleared(r))'
    BY <2>1, <2>3
  <2>6. (pc[r] \in {"limiter", "gate", "handler"} => r \notin served /\ response[r].status = 0)'
    BY <2>1
  <2>7. (r \in served => response[r].status \notin Refusals)'
    BY <2>1, <2>3
  <2>8. (pc[r] \in {"raised", "error handler"} => response[r].status = 0)'
    BY <2>1, <2>4
  <2>9. QED
    BY <2>5, <2>6, <2>7, <2>8 DEF Judged
<1>9. QED
  BY <1>4, <1>5, <1>6, <1>7, <1>8 DEF LocalOK

LEMMA HandleErrorStep ==
    ASSUME TypeOK, NEW r \in Requests, LocalOK(r), HandleError(r)
    PROVE  TypeOK' /\ Frame(r) /\ LocalOK(r)' /\ response'[r].status = 500
<1>0. 500 \in Nat
  OBVIOUS
<1>1. /\ pc[r] = "error handler"
      /\ expected' = expected /\ cap' = cap /\ now' = now /\ counts' = counts
      /\ input' = input /\ scope' = scope /\ context' = context /\ served' = served
      /\ passed' = passed /\ faults' = faults /\ boots' = boots
  BY DEF HandleError, control, histories
<1>2. ErrorId(r) = scope[r] /\ scope[r] \in Ids
  BY <1>1, ErrorIdIsScope DEF LocalOK
<1>3. /\ log' \in [Requests -> Seq(Records)]
      /\ \A q \in Requests \ {r} : log'[q] = log[q]
      /\ \A i \in DOMAIN log'[r] : log'[r][i].id = scope[r]
      /\ OneLine(log'[r], 500)
  <2>. DEFINE record == Record("Unhandled exception during request.", 500, scope[r])
  <2>1. record \in Records
    BY <1>0, <1>2 DEF Record, Records
  <2>2. record.id = scope[r] /\ record.message # "request.complete"
    BY DEF Record
  <2>3. Emit(r, record)
    BY <1>2 DEF HandleError
  <2>4. OneLine(log[r], 500)
    BY <1>1 DEF LocalOK, Lined
  <2>. HIDE DEF record
  <2>5. /\ log' \in [Requests -> Seq(Records)]
        /\ \A q \in Requests \ {r} : log'[q] = log[q]
        /\ \A i \in DOMAIN log'[r] : log'[r][i].id = scope[r]
        /\ \A status \in Nat : OneLine(log[r], status) => OneLine(log'[r], status)
    BY <1>2, <2>1, <2>2, <2>3, Logged
  <2>6. OneLine(log'[r], 500)
    BY <1>0, <2>4, <2>5
  <2>7. QED
    BY <2>5, <2>6
<1>4. /\ pc' \in [Requests -> Labels] /\ pc'[r] = "done"
      /\ \A q \in Requests \ {r} : pc'[q] = pc[q]
  BY GotoTyped DEF HandleError, Labels
<1>5. /\ response' \in [Requests -> Responses]
      /\ response'[r].status = 500 /\ response'[r].id = scope[r]
      /\ \A q \in Requests \ {r} : response'[q] = response[q]
  <2>1. AnswersWith(r, [status |-> 500, id |-> ErrorId(r)])
    BY DEF HandleError, AnswersWith
  <2>2. AnswersWith(r, [status |-> 500, id |-> scope[r]])
    BY <1>2, <2>1
  <2>3. QED
    BY <1>0, <1>2, <2>2, AnswerTyped
<1>6. TypeOK'
  BY <1>1, <1>3, <1>4, <1>5 DEF TypeOK
<1>7. Frame(r)
  <2>1. ASSUME NEW q \in Requests \ {r}
        PROVE  pc'[q] = pc[q] /\ response'[q] = response[q] /\ log'[q] = log[q]
    BY <1>3, <1>4, <1>5
  <2>2. QED
    BY <1>1, <2>1 DEF Frame
<1>8. Fresh(r)' /\ Identified(r)'
  <2>1. /\ pc'[r] = "done" /\ scope' = scope /\ response'[r].id = scope[r]
        /\ \A i \in DOMAIN log'[r] : log'[r][i].id = scope[r]
    <3>1. \A i \in DOMAIN log'[r] : log'[r][i].id = scope[r]
      BY <1>3
    <3>2. pc'[r] = "done" /\ response'[r].id = scope[r]
      BY <1>4, <1>5
    <3>3. QED
      BY <1>1, <3>1, <3>2
  <2>2. input'[r] \in Inputs /\ scope'[r] = request_id(r, input[r])'
    BY <1>1 DEF LocalOK, Identified, request_id, uuid4
  <2>3. QED
    BY <2>1, <2>2 DEF Fresh, Identified, InFlight
<1>9. Lined(r)'
  BY <1>3, <1>4, <1>5 DEF Lined, InFlight
<1>10. Judged(r)'
  <2>1. Cleared(r)' = Cleared(r)
        /\ served' = served /\ response'[r].status = 500 /\ pc'[r] = "done"
    BY <1>1, <1>4, <1>5 DEF Cleared, Gated, Supplied
  <2>2. Judged(r)
    BY DEF LocalOK
  <2>3. r \in served => Cleared(r)
    BY <2>2 DEF Judged
  <2>4. (pc[r] = "handler" \/ r \in served => Cleared(r))'
    BY <2>1, <2>3
  <2>5. (pc[r] \in {"limiter", "gate", "handler"} => r \notin served /\ response[r].status = 0)'
    BY <2>1
  <2>6. (r \in served => response[r].status \notin Refusals)'
    BY <2>1 DEF Refusals
  <2>7. (pc[r] \in {"raised", "error handler"} => response[r].status = 0)'
    BY <2>1
  <2>8. QED
    BY <2>4, <2>5, <2>6, <2>7 DEF Judged
<1>11. QED
  BY <1>5, <1>6, <1>7, <1>8, <1>9, <1>10 DEF LocalOK
-----------------------------------------------------------------------------
\* The steps of one request, together.
Charging(r) == Admit(r) \/ Throttle(r) \/ FailOpen(r)

LEMMA StepLocal ==
    ASSUME TypeOK, NEW r \in Requests, LocalOK(r), Step(r)
    PROVE  TypeOK' /\ Frame(r) /\ LocalOK(r)'
BY BypassStep, AdmitStep, ThrottleStep, FailOpenStep, GateOpensStep, GateRefusesStep,
   GateRaisesStep, InvalidStep, HandlerLogsStep, HandlerRaisesStep, HandlerReturnsStep,
   FinishStep, FinishRaisedStep, HandleErrorStep DEF Step

\* A step takes its request out of the limiter, or finds it past it.
Moved(r) == input' = input /\ pc[r] # "unsent" /\ pc'[r] \notin {"unsent", "limiter"}

LEMMA StepMoves ==
    ASSUME TypeOK, NEW r \in Requests, Step(r)
    PROVE  Moved(r)
<1>1. CASE Bypass(r)
  BY <1>1, GotoTyped DEF Bypass, Labels, Moved
<1>2. CASE Admit(r)
  BY <1>2, GotoTyped DEF Admit, Labels, Moved
<1>3. CASE Throttle(r)
  BY <1>3, GotoTyped DEF Throttle, Labels, Moved
<1>4. CASE FailOpen(r)
  BY <1>4, GotoTyped DEF FailOpen, Labels, Moved
<1>5. CASE GateOpens(r)
  BY <1>5, GotoTyped DEF GateOpens, Labels, Moved
<1>6. CASE GateRefuses(r)
  BY <1>6, GotoTyped DEF GateRefuses, Labels, Moved
<1>7. CASE GateRaises(r)
  BY <1>7, GotoTyped DEF GateRaises, Labels, Moved
<1>8. CASE Invalid(r)
  BY <1>8, GotoTyped DEF Invalid, Labels, Moved
<1>9. CASE HandlerLogs(r)
  BY <1>9 DEF HandlerLogs, Moved
<1>10. CASE HandlerRaises(r)
  BY <1>10, GotoTyped DEF HandlerRaises, Labels, Moved
<1>11. ASSUME NEW status \in {200, 400, 404}, HandlerReturns(r, status)
       PROVE  Moved(r)
  <2>1. pc[r] = "handler" /\ Goto(r, "finally") /\ input' = input
    BY <1>11 DEF HandlerReturns
  <2>2. "finally" \in Labels
    BY DEF Labels
  <2>3. pc'[r] = "finally"
    BY <2>1, <2>2, GotoTyped
  <2>4. QED
    BY <2>1, <2>3 DEF Moved
<1>12. CASE Finish(r)
  BY <1>12, GotoTyped DEF Finish, Labels, Moved
<1>13. CASE FinishRaised(r)
  BY <1>13, GotoTyped DEF FinishRaised, Labels, Moved
<1>14. CASE HandleError(r)
  BY <1>14, GotoTyped DEF HandleError, Labels, Moved
<1>15. QED
  BY <1>1, <1>2, <1>3, <1>4, <1>5, <1>6, <1>7, <1>8, <1>9, <1>10, <1>11, <1>12, <1>13, <1>14
     DEF Step

\* Only the limiter counts, and only it throttles.
LEMMA OnlyLimiterCounts ==
    ASSUME TypeOK, NEW r \in Requests, LocalOK(r), Step(r), ~Charging(r)
    PROVE  /\ UNCHANGED <<counts, histories>>
           /\ response'[r].status = 429 => response[r].status = 429
<1>1. CASE response' = response /\ UNCHANGED <<counts, histories>>
  BY <1>1
<1>2. ASSUME NEW status \in Nat, status # 429, Answers(r, status)
      PROVE  UNCHANGED <<counts, histories>> /\ response'[r].status # 429
  <2>1. /\ response' \in [Requests -> Responses]
        /\ response'[r].status = status /\ response'[r].id = response[r].id
        /\ \A q \in Requests \ {r} : response'[q] = response[q]
    <3>1. response' = [response EXCEPT ![r].status = status] /\ status \in Nat
      BY <1>2 DEF Answers
    <3>2. QED
      BY <3>1, StatusTyped
  <2>2. QED
    BY <1>2, <2>1 DEF Answers
<1>3. CASE GateRefuses(r)
  <2>1. 401 \in Nat /\ 401 # 429
    OBVIOUS
  <2>2. Answers(r, 401)
    BY <1>3 DEF GateRefuses, Answers
  <2>3. QED
    BY <1>2, <2>1, <2>2
<1>4. CASE Invalid(r)
  <2>1. 422 \in Nat /\ 422 # 429
    OBVIOUS
  <2>2. Answers(r, 422)
    BY <1>4 DEF Invalid, Answers
  <2>3. QED
    BY <1>2, <2>1, <2>2
<1>5. ASSUME NEW status \in {200, 400, 404}, HandlerReturns(r, status)
      PROVE  UNCHANGED <<counts, histories>> /\ response'[r].status # 429
  <2>1. status \in Nat /\ status # 429
    OBVIOUS
  <2>2. Answers(r, status)
    BY <1>5 DEF HandlerReturns, Answers
  <2>3. QED
    BY <1>2, <2>1, <2>2
<1>6. CASE Finish(r)
  BY <1>6, FinishStep DEF Finish
<1>7. CASE HandleError(r)
  <2>1. response'[r].status = 500 /\ 500 # 429
    BY <1>7, HandleErrorStep
  <2>2. UNCHANGED <<counts, histories>>
    BY <1>7 DEF HandleError
  <2>3. QED
    BY <2>1, <2>2
<1>8. CASE Bypass(r) \/ GateOpens(r) \/ GateRaises(r) \/ HandlerLogs(r) \/ HandlerRaises(r)
           \/ FinishRaised(r)
  BY <1>1, <1>8 DEF Bypass, GateOpens, GateRaises, HandlerLogs, HandlerRaises, FinishRaised
<1>9. QED
  BY <1>3, <1>4, <1>5, <1>6, <1>7, <1>8 DEF Step, Charging

\* A request that has come past the limiter has come past it for good.
LEMMA CallersStay ==
    ASSUME NEW r \in Requests, Frame(r), pc[r] = "unsent" \/ Moved(r), NEW a
    PROVE  Callers(pc, input, a) \subseteq Callers(pc', input', a)
BY DEF Frame, Moved, Callers

\* Whoever was throttled stays rightly throttled.
LEMMA UnmixedElsewhere ==
    ASSUME TypeOK, Unmixed, NEW r \in Requests, Frame(r), pc[r] = "unsent" \/ Moved(r),
           NEW q \in Requests, response'[q].status = 429, PresentsKey(q)',
           response[q].status = 429, input'[q] = input[q]
    PROVE  Cardinality(Callers(pc', input', input'[q].apiKey)) > cap'
<1>. DEFINE a == input[q].apiKey
<1>1. Cardinality(Callers(pc, input, a)) > cap
  BY DEF Unmixed, PresentsKey
<1>2. Cardinality(Callers(pc, input, a)) <= Cardinality(Callers(pc', input', a))
  BY CallersStay, MoreCallers
<1>3. /\ Cardinality(Callers(pc, input, a)) \in Nat /\ Cardinality(Callers(pc', input', a)) \in Nat
      /\ cap \in Nat /\ cap' = cap
  BY CallersCounted, OneTickWindows DEF Frame
<1>4. QED
  BY <1>1, <1>2, <1>3

LEMMA CountsKept ==
    ASSUME TypeOK, Spent, Charged, NEW r \in Requests, Frame(r), pc[r] = "unsent" \/ Moved(r),
           UNCHANGED <<counts, histories>>
    PROVE  Spent' /\ Charged'
<1>1. /\ counts' = counts /\ passed' = passed /\ faults' = faults
      /\ cap' = cap /\ now' = now /\ boots' = boots
  BY DEF Frame, histories
<1>2. Spent'
  BY <1>1 DEF Spent, Before, Limiter!enabled
<1>3. ASSUME NEW a \in Presented, NEW w \in 0..MaxWindow
      PROVE  counts'[w][<<"api", a>>] <= Cardinality(Callers(pc', input', a))
  <2>1. counts[w][<<"api", a>>] <= Cardinality(Callers(pc, input, a))
    BY DEF Charged
  <2>2. Cardinality(Callers(pc, input, a)) <= Cardinality(Callers(pc', input', a))
    BY CallersStay, MoreCallers
  <2>3. /\ Cardinality(Callers(pc, input, a)) \in Nat /\ Cardinality(Callers(pc', input', a)) \in Nat
        /\ counts[w][<<"api", a>>] \in Nat
    BY CallersCounted, PresentedKeys DEF TypeOK
  <2>4. QED
    BY <1>1, <2>1, <2>2, <2>3
<1>4. QED
  BY <1>2, <1>3 DEF Charged

\* Counting a request that leaves the limiter charges its own client only.
LEMMA ChargedMore ==
    ASSUME TypeOK, Charged, NEW r \in Requests, Frame(r), Moved(r), pc[r] = "limiter",
           input[r] \in Inputs,
           \A w \in 0..MaxWindow, c \in ClientKeys :
              /\ counts'[w][c] \in Nat
              /\ counts'[w][c] <= IF c = ClientKey(input[r]) THEN counts[w][c] + 1 ELSE counts[w][c]
    PROVE  Charged'
<1>1. ASSUME NEW a \in Presented, NEW w \in 0..MaxWindow
      PROVE  counts'[w][<<"api", a>>] <= Cardinality(Callers(pc', input', a))
  <2>. DEFINE c == <<"api", a>>
              before == Cardinality(Callers(pc, input, a))
              after == Cardinality(Callers(pc', input', a))
  <2>1. c \in ClientKeys
    BY PresentedKeys
  <2>2. /\ counts[w][c] \in Nat /\ counts'[w][c] \in Nat
        /\ counts'[w][c] <= IF c = ClientKey(input[r]) THEN counts[w][c] + 1 ELSE counts[w][c]
    BY <2>1 DEF TypeOK
  <2>3. before \in Nat /\ after \in Nat /\ counts[w][c] <= before
    BY CallersCounted DEF Charged
  <2>4. before <= after
    BY CallersStay, MoreCallers
  <2>5. c = ClientKey(input[r]) => before + 1 <= after
    <3>1. SUFFICES ASSUME c = ClientKey(input[r]) PROVE before + 1 <= after
      OBVIOUS
    <3>2. input[r].apiKey = a
      BY <3>1, PresentedKeys
    <3>3. r \in Callers(pc', input', a) \ Callers(pc, input, a)
      BY <3>2 DEF Callers, Moved
    <3>4. QED
      BY <3>3, CallersStay, MoreCallers
  <2>6. counts'[w][c] <= after
    <3>. HIDE DEF c, before, after
    <3>1. QED
      BY <2>2, <2>3, <2>4, <2>5
  <2>7. QED
    BY <2>6
<1>2. QED
  BY <1>1 DEF Charged

\* What is let past the limiter is paid for, by a count or by a failure.
LEMMA SpentMore ==
    ASSUME TypeOK, Spent, cap' = cap, boots' = boots,
           \A c \in ClientKeys :
              /\ passed'[c] \in Nat /\ faults'[c] \in Nat /\ counts'[now'][c] \in Nat
              /\ passed'[c] - passed[c] <=
                    (faults'[c] - faults[c])
                    + (Lower(counts'[now'][c], cap) - Lower(counts[now][c], cap))
    PROVE  Spent'
<1>1. cap \in Nat /\ Before \in Int /\ Before' = Before
  BY OneTickWindows DEF Before, TypeOK
<1>2. ASSUME Limiter!enabled', NEW k \in ClientKeys
      PROVE  passed'[k] <= Before' + faults'[k] + Lower(counts'[now'][k], cap')
  <2>1. Limiter!enabled
    BY <1>2 DEF Limiter!enabled
  <2>2. passed[k] <= Before + faults[k] + Lower(counts[now][k], cap)
    BY <2>1 DEF Spent
  <2>3. passed[k] \in Nat /\ faults[k] \in Nat /\ counts[now][k] \in Nat
    BY DEF TypeOK
  <2>4. Lower(counts[now][k], cap) \in Nat /\ Lower(counts'[now'][k], cap) \in Nat
    BY <1>1, <2>3 DEF Lower
  <2>5. QED
    BY <1>1, <2>2, <2>3, <2>4
<1>3. QED
  BY <1>2 DEF Spent

LEMMA AdmitGlobal ==
    ASSUME TypeOK, Spent, Charged, NEW r \in Requests, LocalOK(r), Admit(r)
    PROVE  Spent' /\ Charged'
<1>. DEFINE k == ClientKey(input[r])
<1>1. pc[r] = "limiter" /\ input[r] \in Inputs /\ k \in ClientKeys
  <2>1. pc[r] = "limiter" /\ pc[r] \in InFlight
    BY DEF Admit, InFlight
  <2>2. QED
    BY <2>1, IdInFlight DEF LocalOK
<1>2. Frame(r) /\ Moved(r)
  BY StepLocal, StepMoves DEF Step
<1>3. counts' = Counted(k) /\ Verdict(k).allowed
  BY DEF Admit
<1>4. /\ counts' \in [0..MaxWindow -> [ClientKeys -> Nat]]
      /\ counts'[now][k] = counts[now][k] + 1
      /\ \A c \in ClientKeys \ {k} : counts'[now][c] = counts[now][c]
      /\ \A w \in 0..MaxWindow, c \in ClientKeys :
            counts'[w][c] <= IF c = k THEN counts[w][c] + 1 ELSE counts[w][c]
      /\ counts[now][k] + 1 <= cap
  BY <1>1, <1>3, CountOne
<1>5. /\ passed' \in [ClientKeys -> Nat] /\ passed'[k] = passed[k] + 1
      /\ \A c \in ClientKeys \ {k} : passed'[c] = passed[c]
      /\ faults' = faults
  <2>1. passed \in [ClientKeys -> Nat] /\ passed' = [passed EXCEPT ![k] = @ + 1] /\ faults' = faults
    BY DEF Admit, TypeOK
  <2>2. QED
    BY <1>1, <2>1, CountTyped
<1>. HIDE DEF k
<1>6. cap' = cap /\ boots' = boots /\ now' = now /\ now \in 0..MaxWindow /\ cap \in Nat
  BY <1>2, OneTickWindows DEF Frame, TypeOK
<1>7. ASSUME NEW c \in ClientKeys
      PROVE  /\ passed'[c] \in Nat /\ faults'[c] \in Nat /\ counts'[now'][c] \in Nat
             /\ passed'[c] - passed[c] <=
                   (faults'[c] - faults[c])
                   + (Lower(counts'[now'][c], cap) - Lower(counts[now][c], cap))
  <2>1. /\ passed[c] \in Nat /\ faults[c] \in Nat /\ counts[now][c] \in Nat
        /\ passed'[c] \in Nat /\ faults'[c] = faults[c] /\ counts'[now][c] \in Nat
    BY <1>4, <1>5, <1>6 DEF TypeOK
  <2>2. CASE c = k
    <3>1. counts[now][c] + 1 <= cap /\ counts'[now'][c] = counts[now][c] + 1 /\ passed'[c] = passed[c] + 1
      BY <1>4, <1>5, <1>6, <2>2
    <3>2. /\ Lower(counts[now][c], cap) = counts[now][c]
          /\ Lower(counts'[now'][c], cap) = counts[now][c] + 1
      BY <1>6, <2>1, <3>1 DEF Lower
    <3>3. QED
      BY <1>6, <2>1, <3>1, <3>2
  <2>3. CASE c # k
    <3>1. counts'[now'][c] = counts[now][c] /\ passed'[c] = passed[c]
      BY <1>4, <1>5, <1>6, <2>3
    <3>2. Lower(counts[now][c], cap) \in Nat
      BY <1>6, <2>1 DEF Lower
    <3>3. QED
      BY <1>6, <2>1, <3>1, <3>2
  <2>4. QED
    BY <2>2, <2>3
<1>8. Spent'
  BY <1>6, <1>7, SpentMore
<1>9. Charged'
  BY <1>1, <1>2, <1>4, ChargedMore DEF k
<1>10. QED
  BY <1>8, <1>9

LEMMA ThrottleGlobal ==
    ASSUME TypeOK, Spent, Charged, NEW r \in Requests, LocalOK(r), Throttle(r)
    PROVE  /\ Spent' /\ Charged' /\ counts[now][ClientKey(input[r])] + 1 > cap
<1>. DEFINE k == ClientKey(input[r])
<1>1. pc[r] = "limiter" /\ input[r] \in Inputs /\ k \in ClientKeys
  <2>1. pc[r] = "limiter" /\ pc[r] \in InFlight
    BY DEF Throttle, InFlight
  <2>2. QED
    BY <2>1, IdInFlight DEF LocalOK
<1>2. Frame(r) /\ Moved(r)
  BY StepLocal, StepMoves DEF Step
<1>3. counts' = Counted(k) /\ ~Verdict(k).allowed /\ passed' = passed /\ faults' = faults
  BY DEF Throttle, histories
<1>4. /\ counts' \in [0..MaxWindow -> [ClientKeys -> Nat]]
      /\ counts'[now][k] = counts[now][k] + 1
      /\ \A c \in ClientKeys \ {k} : counts'[now][c] = counts[now][c]
      /\ \A w \in 0..MaxWindow, c \in ClientKeys :
            counts'[w][c] <= IF c = k THEN counts[w][c] + 1 ELSE counts[w][c]
      /\ ~(counts[now][k] + 1 <= cap)
  BY <1>1, <1>3, CountOne
<1>. HIDE DEF k
<1>5. cap' = cap /\ boots' = boots /\ now' = now /\ now \in 0..MaxWindow /\ cap \in Nat
  BY <1>2, OneTickWindows DEF Frame, TypeOK
<1>6. counts[now][k] \in Nat
  BY <1>1, <1>5 DEF TypeOK
<1>7. ASSUME NEW c \in ClientKeys
      PROVE  /\ passed'[c] \in Nat /\ faults'[c] \in Nat /\ counts'[now'][c] \in Nat
             /\ passed'[c] - passed[c] <=
                   (faults'[c] - faults[c])
                   + (Lower(counts'[now'][c], cap) - Lower(counts[now][c], cap))
  <2>1. /\ passed[c] \in Nat /\ faults[c] \in Nat /\ counts[now][c] \in Nat
        /\ passed'[c] = passed[c] /\ faults'[c] = faults[c] /\ counts'[now'][c] \in Nat
    BY <1>3, <1>4, <1>5 DEF TypeOK
  <2>2. counts[now][c] <= counts'[now'][c]
    BY <1>4, <1>5, <2>1
  <2>3. /\ Lower(counts[now][c], cap) <= Lower(counts'[now'][c], cap)
        /\ Lower(counts[now][c], cap) \in Nat /\ Lower(counts'[now'][c], cap) \in Nat
    BY <1>5, <2>1, <2>2 DEF Lower
  <2>4. QED
    BY <2>1, <2>3
<1>8. Spent'
  BY <1>5, <1>7, SpentMore
<1>9. Charged'
  BY <1>1, <1>2, <1>4, ChargedMore DEF k
<1>10. counts[now][k] + 1 > cap
  BY <1>4, <1>5, <1>6
<1>11. QED
  BY <1>8, <1>9, <1>10 DEF k

LEMMA FailOpenGlobal ==
    ASSUME TypeOK, Spent, Charged, NEW r \in Requests, LocalOK(r), FailOpen(r)
    PROVE  Spent' /\ Charged'
<1>. DEFINE k == ClientKey(input[r])
            more == [counts[now] EXCEPT ![k] = @ + 1]
<1>1. pc[r] = "limiter" /\ input[r] \in Inputs /\ k \in ClientKeys
  <2>1. pc[r] = "limiter" /\ pc[r] \in InFlight
    BY DEF FailOpen, InFlight
  <2>2. QED
    BY <2>1, IdInFlight DEF LocalOK
<1>2. Frame(r) /\ Moved(r)
  BY StepLocal, StepMoves DEF Step
<1>3. /\ cap' = cap /\ boots' = boots /\ now' = now /\ now \in 0..MaxWindow /\ cap \in Nat
      /\ counts \in [0..MaxWindow -> [ClientKeys -> Nat]]
  BY <1>2, OneTickWindows DEF Frame, TypeOK
<1>4. /\ more \in [ClientKeys -> Nat] /\ more[k] = counts[now][k] + 1
      /\ \A c \in ClientKeys \ {k} : more[c] = counts[now][c]
  BY <1>1, <1>3, CountTyped
<1>5. counts' = counts \/ counts' = [counts EXCEPT ![now] = more]
  BY DEF FailOpen
<1>6. /\ passed' \in [ClientKeys -> Nat] /\ passed'[k] = passed[k] + 1
      /\ \A c \in ClientKeys \ {k} : passed'[c] = passed[c]
  <2>1. passed \in [ClientKeys -> Nat] /\ passed' = [passed EXCEPT ![k] = @ + 1]
    BY DEF FailOpen, TypeOK
  <2>2. QED
    BY <1>1, <2>1, CountTyped
<1>7. /\ faults' \in [ClientKeys -> Nat] /\ faults'[k] = faults[k] + 1
      /\ \A c \in ClientKeys \ {k} : faults'[c] = faults[c]
  <2>1. faults \in [ClientKeys -> Nat] /\ faults' = [faults EXCEPT ![k] = @ + 1]
    BY DEF FailOpen, TypeOK
  <2>2. QED
    BY <1>1, <2>1, CountTyped
<1>. HIDE DEF k, more
<1>8. \A w \in 0..MaxWindow, c \in ClientKeys :
         /\ counts'[w][c] \in Nat /\ counts[w][c] \in Nat
         /\ counts[w][c] <= counts'[w][c]
         /\ counts'[w][c] <= IF c = k THEN counts[w][c] + 1 ELSE counts[w][c]
  <2>1. CASE counts' = counts
    BY <1>3, <2>1
  <2>2. CASE counts' = [counts EXCEPT ![now] = more]
    BY <1>3, <1>4, <2>2
  <2>3. QED
    BY <1>5, <2>1, <2>2
<1>9. ASSUME NEW c \in ClientKeys
      PROVE  /\ passed'[c] \in Nat /\ faults'[c] \in Nat /\ counts'[now'][c] \in Nat
             /\ passed'[c] - passed[c] <=
                   (faults'[c] - faults[c])
                   + (Lower(counts'[now'][c], cap) - Lower(counts[now][c], cap))
  <2>1. /\ passed[c] \in Nat /\ faults[c] \in Nat /\ counts[now][c] \in Nat
        /\ passed'[c] \in Nat /\ faults'[c] \in Nat /\ counts'[now'][c] \in Nat
        /\ counts[now][c] <= counts'[now'][c]
    BY <1>3, <1>6, <1>7, <1>8 DEF TypeOK
  <2>2. passed'[c] - passed[c] = faults'[c] - faults[c]
    BY <1>6, <1>7, <2>1
  <2>3. /\ Lower(counts[now][c], cap) <= Lower(counts'[now'][c], cap)
        /\ Lower(counts[now][c], cap) \in Nat /\ Lower(counts'[now'][c], cap) \in Nat
    BY <1>3, <2>1 DEF Lower
  <2>4. QED
    BY <2>1, <2>2, <2>3
<1>10. Spent'
  BY <1>3, <1>9, SpentMore
<1>11. Charged'
  BY <1>1, <1>2, <1>8, ChargedMore DEF k
<1>12. QED
  BY <1>10, <1>11

LEMMA UnmixedStep ==
    ASSUME TypeOK, Spent, Charged, Unmixed, NEW r \in Requests, LocalOK(r), Step(r)
    PROVE  Unmixed'
<1>1. Frame(r) /\ Moved(r)
  BY StepLocal, StepMoves
<1>2. ASSUME NEW q \in Requests, response'[q].status = 429, PresentsKey(q)'
      PROVE  Cardinality(Callers(pc', input', input'[q].apiKey)) > cap'
  <2>1. input' = input
    BY <1>1 DEF Moved
  <2>2. CASE response[q].status = 429
    BY <1>1, <1>2, <2>1, <2>2, UnmixedElsewhere
  <2>3. CASE response[q].status # 429
    <3>1. q = r
      BY <1>1, <1>2, <2>3 DEF Frame
    <3>2. Throttle(r)
      <4>1. CASE ~Charging(r)
        BY <1>2, <2>3, <3>1, <4>1, OnlyLimiterCounts
      <4>2. CASE Admit(r) \/ FailOpen(r)
        BY <1>2, <2>3, <4>2 DEF Admit, FailOpen
      <4>3. QED
        BY <4>1, <4>2 DEF Charging
    <3>. DEFINE a == input[r].apiKey
                before == Cardinality(Callers(pc, input, a))
                after == Cardinality(Callers(pc', input', a))
    <3>3. pc[r] = "limiter" /\ input[r] \in Inputs
      <4>1. pc[r] = "limiter" /\ pc[r] \in InFlight
        BY <3>2 DEF Throttle, InFlight
      <4>2. QED
        BY <4>1, IdInFlight DEF LocalOK
    <3>4. a \notin {None, ""}
      BY <1>2, <2>1, <3>1 DEF PresentsKey
    <3>5. a \in Presented /\ ClientKey(input[r]) = <<"api", a>>
      BY <3>3, <3>4 DEF Presented, ClientKey
    <3>6. counts[now][<<"api", a>>] + 1 > cap /\ counts[now][<<"api", a>>] <= before
      <4>1. now \in 0..MaxWindow
        BY DEF TypeOK
      <4>2. counts[now][<<"api", a>>] <= before
        BY <3>5, <4>1 DEF Charged
      <4>3. counts[now][ClientKey(input[r])] + 1 > cap
        BY <3>2, ThrottleGlobal
      <4>4. QED
        BY <3>5, <4>2, <4>3
    <3>7. r \in Callers(pc', input', a) \ Callers(pc, input, a)
      BY <1>1, <3>3 DEF Callers, Moved
    <3>8. before + 1 <= after
      BY <1>1, <3>7, CallersStay, MoreCallers
    <3>9. /\ before \in Nat /\ after \in Nat /\ counts[now][<<"api", a>>] \in Nat
          /\ cap \in Nat /\ cap' = cap
      BY <1>1, <3>5, CallersCounted, PresentedKeys, OneTickWindows DEF Frame, TypeOK
    <3>10. after > cap'
      <4>. HIDE DEF a, before, after
      <4>1. QED
        BY <3>6, <3>8, <3>9
    <3>11. QED
      BY <2>1, <3>1, <3>10
  <2>4. QED
    BY <2>2, <2>3
<1>3. QED
  BY <1>2 DEF Unmixed

LEMMA StepInvariant ==
    ASSUME IInv, NEW r \in Requests, Step(r)
    PROVE  IInv'
<1>1. TypeOK /\ LocalOK(r) /\ Spent /\ Charged /\ Unmixed
  BY DEF IInv
<1>2. TypeOK' /\ Frame(r) /\ LocalOK(r)' /\ Moved(r)
  BY <1>1, StepLocal, StepMoves
<1>3. \A q \in Requests : LocalOK(q)'
  <2>1. ASSUME NEW q \in Requests \ {r} PROVE LocalOK(q)'
    BY <1>2, Elsewhere DEF IInv
  <2>2. QED
    BY <1>2, <2>1
<1>4. Spent' /\ Charged'
  <2>1. CASE ~Charging(r)
    BY <1>1, <1>2, <2>1, OnlyLimiterCounts, CountsKept
  <2>2. CASE Charging(r)
    BY <1>1, <2>2, AdmitGlobal, ThrottleGlobal, FailOpenGlobal DEF Charging
  <2>3. QED
    BY <2>1, <2>2
<1>5. Unmixed'
  BY <1>1, UnmixedStep
<1>6. QED
  BY <1>2, <1>3, <1>4, <1>5 DEF IInv

LEMMA ArriveInvariant ==
    ASSUME IInv, NEW r \in Requests, NEW in \in Inputs, Arrive(r, in)
    PROVE  IInv'
<1>1. TypeOK /\ LocalOK(r) /\ Spent /\ Charged /\ Unmixed
  BY DEF IInv
<1>2. TypeOK' /\ Frame(r) /\ LocalOK(r)'
  BY <1>1, ArriveStep
<1>3. /\ pc[r] = "unsent" /\ response' = response /\ response[r].status = 0
      /\ UNCHANGED <<counts, histories>>
  BY <1>1 DEF Arrive, LocalOK, Fresh
<1>4. \A q \in Requests : LocalOK(q)'
  <2>1. ASSUME NEW q \in Requests \ {r} PROVE LocalOK(q)'
    BY <1>2, Elsewhere DEF IInv
  <2>2. QED
    BY <1>2, <2>1
<1>5. Spent' /\ Charged'
  BY <1>1, <1>2, <1>3, CountsKept
<1>6. Unmixed'
  <2>1. ASSUME NEW q \in Requests, response'[q].status = 429, PresentsKey(q)'
        PROVE  Cardinality(Callers(pc', input', input'[q].apiKey)) > cap'
    <3>1. response[q].status = 429 /\ q # r
      BY <1>3, <2>1
    <3>2. input'[q] = input[q]
      BY <1>2, <3>1 DEF Frame
    <3>3. QED
      BY <1>1, <1>2, <1>3, <2>1, <3>1, <3>2, UnmixedElsewhere
  <2>2. QED
    BY <2>1 DEF Unmixed
<1>7. QED
  BY <1>2, <1>4, <1>5, <1>6 DEF IInv

LEMMA NextWindowInvariant ==
    ASSUME IInv, NextWindow
    PROVE  IInv'
<1>1. TypeOK /\ Spent /\ Charged /\ Unmixed /\ \A r \in Requests : LocalOK(r)
  BY DEF IInv
<1>2. /\ now < MaxWindow /\ now' = now + 1 /\ passed' = Nobody /\ faults' = Nobody /\ boots' = 1
      /\ expected' = expected /\ cap' = cap /\ counts' = counts /\ pc' = pc /\ input' = input
      /\ scope' = scope /\ context' = context /\ response' = response /\ log' = log
      /\ served' = served
  BY DEF NextWindow
<1>3. now \in 0..MaxWindow /\ now' \in 0..MaxWindow /\ cap \in Nat
  <2>1. now \in 0..MaxWindow
    BY <1>1 DEF TypeOK
  <2>2. QED
    BY <1>1, <1>2, <2>1, BoundsAssumption, OneTickWindows
<1>4. Nobody \in [ClientKeys -> Nat] /\ 1 \in Nat \ {0}
  BY DEF Nobody
<1>5. TypeOK'
  BY <1>1, <1>2, <1>3, <1>4 DEF TypeOK
<1>6. ASSUME NEW r \in Requests PROVE LocalOK(r)'
  BY <1>1, <1>2, Carried DEF SameEntries
<1>7. ASSUME NEW k \in ClientKeys
      PROVE  passed'[k] <= Before' + faults'[k] + Lower(counts'[now'][k], cap')
  <2>1. passed'[k] = 0 /\ faults'[k] = 0 /\ counts'[now'][k] \in Nat
    BY <1>1, <1>2, <1>3 DEF Nobody, TypeOK
  <2>2. Before' = 0
    BY <1>2, <1>3 DEF Before
  <2>3. Lower(counts'[now'][k], cap') \in Nat
    BY <1>2, <1>3, <2>1 DEF Lower
  <2>4. QED
    BY <2>1, <2>2, <2>3
<1>8. Charged' /\ Unmixed'
  BY <1>1, <1>2 DEF Charged, Unmixed, PresentsKey
<1>9. QED
  BY <1>5, <1>6, <1>7, <1>8 DEF IInv, Spent

LEMMA OneMoreBudget ==
    ASSUME NEW c \in Nat, NEW b \in Nat \ {0}
    PROVE  /\ c * (b - 1) \in Int
           /\ c * (b - 1) + c = c * b
           /\ c * ((b + 1) - 1) = c * (b - 1) + c
OBVIOUS

LEMMA RestartInvariant ==
    ASSUME IInv, Restart
    PROVE  IInv'
<1>1. TypeOK /\ Spent /\ Charged /\ Unmixed /\ \A r \in Requests : LocalOK(r)
  BY DEF IInv
<1>2. /\ boots' = boots + 1 /\ counts' = NoCounts
      /\ pc' = [r \in Requests |-> IF pc[r] \in {"unsent", "done"} THEN pc[r] ELSE "lost"]
      /\ context' = [r \in Requests |-> None]
      /\ expected' = expected /\ cap' = cap /\ now' = now /\ input' = input
      /\ scope' = scope /\ response' = response /\ log' = log /\ served' = served
      /\ passed' = passed /\ faults' = faults
  BY DEF Restart, control
<1>3. now \in 0..MaxWindow /\ cap \in Nat /\ boots \in Nat \ {0}
  BY <1>1, OneTickWindows DEF TypeOK
<1>4. TypeOK'
  <2>1. NoCounts \in [0..MaxWindow -> [ClientKeys -> Nat]]
    BY DEF NoCounts
  <2>2. pc' \in [Requests -> Labels]
    BY <1>1, <1>2 DEF TypeOK, Labels
  <2>3. context' \in [Requests -> Ids \cup {None}]
    BY <1>2
  <2>4. boots' \in Nat \ {0}
    BY <1>2, <1>3
  <2>5. QED
    BY <1>1, <1>2, <2>1, <2>2, <2>3, <2>4 DEF TypeOK
<1>5. ASSUME NEW r \in Requests PROVE LocalOK(r)'
  <2>1. LocalOK(r)
    BY <1>1
  <2>2. \/ pc'[r] = pc[r] /\ pc[r] \in {"unsent", "done"}
        \/ pc'[r] = "lost" /\ pc[r] # "unsent"
    BY <1>2
  <2>3. /\ log'[r] = log[r] /\ response'[r] = response[r] /\ input'[r] = input[r]
        /\ scope'[r] = scope[r] /\ (r \in served' <=> r \in served)
    BY <1>2
  <2>4. Fresh(r)' /\ Identified(r)'
    BY <2>1, <2>2, <2>3 DEF LocalOK, Fresh, Identified, InFlight, request_id, uuid4
  <2>5. Lined(r)'
    <3>1. pc'[r] \notin InFlight /\ pc'[r] # "error handler" /\ (pc'[r] = "done" => pc[r] = "done")
      BY <2>2 DEF InFlight
    <3>2. pc[r] = "done" => OneLine(log[r], response[r].status)
      BY <2>1 DEF LocalOK, Lined
    <3>3. (pc[r] = "done" => OneLine(log[r], response[r].status))'
      BY <2>3, <3>1, <3>2
    <3>4. QED
      BY <3>1, <3>3 DEF Lined
  <2>6. Judged(r)'
    <3>1. Cleared(r)' = Cleared(r)
      BY <1>2 DEF Cleared, Gated, Supplied
    <3>2. Judged(r)
      BY <2>1 DEF LocalOK
    <3>3. pc'[r] \notin {"limiter", "gate", "handler", "raised", "error handler"}
      BY <2>2
    <3>4. r \in served => Cleared(r)
                          /\ response[r].status \notin Refusals
      BY <3>2 DEF Judged
    <3>5. (pc[r] = "handler" \/ r \in served => Cleared(r))'
      BY <2>3, <3>1, <3>3, <3>4
    <3>6. (pc[r] \in {"limiter", "gate", "handler"} => r \notin served /\ response[r].status = 0)'
      BY <3>3
    <3>7. (r \in served => response[r].status \notin Refusals)'
      BY <2>3, <3>4
    <3>8. (pc[r] \in {"raised", "error handler"} => response[r].status = 0)'
      BY <3>3
    <3>9. QED
      BY <3>5, <3>6, <3>7, <3>8 DEF Judged
  <2>7. QED
    BY <2>4, <2>5, <2>6 DEF LocalOK
<1>6. ASSUME Limiter!enabled', NEW k \in ClientKeys
      PROVE  passed'[k] <= Before' + faults'[k] + Lower(counts'[now'][k], cap')
  <2>1. Limiter!enabled /\ cap > 0
    BY <1>2, <1>6 DEF Limiter!enabled
  <2>2. passed[k] <= Before + faults[k] + Lower(counts[now][k], cap)
    BY <1>1, <2>1 DEF Spent
  <2>3. passed[k] \in Nat /\ faults[k] \in Nat /\ counts[now][k] \in Nat
    BY <1>1, <1>3 DEF TypeOK
  <2>4. Lower(counts[now][k], cap) \in Nat /\ Lower(counts[now][k], cap) <= cap
    BY <1>3, <2>3 DEF Lower
  <2>5. Before \in Int /\ Before' = Before + cap
    BY <1>2, <1>3, OneMoreBudget DEF Before
  <2>6. Lower(counts'[now'][k], cap') = 0
    BY <1>2, <1>3, <2>1 DEF Lower, NoCounts
  <2>7. QED
    BY <1>2, <1>3, <2>2, <2>3, <2>4, <2>5, <2>6
<1>7. ASSUME NEW a
      PROVE  Cardinality(Callers(pc, input, a)) <= Cardinality(Callers(pc', input', a))
  <2>1. Callers(pc, input, a) \subseteq Callers(pc', input', a)
    BY <1>2 DEF Callers
  <2>2. QED
    BY <2>1, MoreCallers
<1>8. ASSUME NEW a \in Presented, NEW w \in 0..MaxWindow
      PROVE  counts'[w][<<"api", a>>] <= Cardinality(Callers(pc', input', a))
  <2>1. counts'[w][<<"api", a>>] = 0
    BY <1>2, PresentedKeys DEF NoCounts
  <2>2. QED
    BY <2>1, CallersCounted
<1>9. ASSUME NEW q \in Requests, response'[q].status = 429, PresentsKey(q)'
      PROVE  Cardinality(Callers(pc', input', input'[q].apiKey)) > cap'
  <2>1. Cardinality(Callers(pc, input, input[q].apiKey)) > cap
    BY <1>1, <1>2, <1>9 DEF Unmixed, PresentsKey
  <2>2. QED
    BY <1>2, <1>3, <1>7, <2>1, CallersCounted
<1>10. QED
  BY <1>4, <1>5, <1>6, <1>8, <1>9 DEF IInv, Spent, Charged, Unmixed

LEMMA StutterInvariant ==
    ASSUME IInv, UNCHANGED vars
    PROVE  IInv'
<1>1. TypeOK /\ Spent /\ Charged /\ Unmixed /\ \A r \in Requests : LocalOK(r)
  BY DEF IInv
<1>2. /\ passed' = passed /\ faults' = faults /\ boots' = boots
      /\ expected' = expected /\ cap' = cap /\ now' = now
      /\ counts' = counts /\ pc' = pc /\ input' = input
      /\ scope' = scope /\ context' = context /\ response' = response /\ log' = log
      /\ served' = served
  BY DEF vars
<1>3. TypeOK'
  BY <1>1, <1>2 DEF TypeOK
<1>4. Spent' /\ Charged' /\ Unmixed'
  BY <1>1, <1>2 DEF Spent, Before, Limiter!enabled, Charged, Unmixed, PresentsKey
<1>5. ASSUME NEW r \in Requests PROVE LocalOK(r)'
  BY <1>1, <1>2, Carried DEF SameEntries
<1>6. QED
  BY <1>3, <1>4, <1>5 DEF IInv
-----------------------------------------------------------------------------
\* The inductive invariant holds in every reachable state.
THEOREM Invariant == Spec => []IInv
<1>1. Init => IInv
  BY InitInvariant
<1>2. IInv /\ [Next]_vars => IInv'
  <2>. SUFFICES ASSUME IInv, [Next]_vars PROVE IInv'
    OBVIOUS
  <2>1. ASSUME NEW r \in Requests, Step(r) PROVE IInv'
    BY <2>1, StepInvariant
  <2>2. ASSUME NEW r \in Requests, NEW in \in Inputs, Arrive(r, in) PROVE IInv'
    BY <2>2, ArriveInvariant
  <2>3. QED
    BY <2>1, <2>2, NextWindowInvariant, RestartInvariant, StutterInvariant DEF Next
<1>3. QED
  BY <1>1, <1>2, PTL DEF Spec

\* The variables keep the types TypeOK gives them.
THEOREM TypeCorrect == Spec => []TypeOK
<1>1. IInv => TypeOK
  BY DEF IInv
<1>2. QED
  BY <1>1, Invariant, PTL

\* However a request ends, and whatever else is in flight, its access line is
\* written once, with the status its client was sent (observability.py:142-148).
THEOREM EveryAnswerHasItsLine == Spec => []OneTruthfulLine
<1>1. IInv => OneTruthfulLine
  <2>. SUFFICES ASSUME IInv, NEW r \in Requests, pc[r] = "done"
                PROVE  \E i \in Lines(r) : Lines(r) = {i} /\ log[r][i].status = response[r].status
    BY DEF OneTruthfulLine
  <2>1. OneLine(log[r], response[r].status)
    <3>1. Lined(r)
      BY DEF IInv, LocalOK
    <3>2. QED
      BY <3>1 DEF Lined
  <2>2. Lines(r) = AccessLines(log[r])
    BY DEF Lines, AccessLines
  <2>3. QED
    BY <2>1, <2>2 DEF OneLine
<1>2. QED
  BY <1>1, Invariant, PTL

\* Every record and every answer carries the id of its own request, however many are
\* served at once (observability.py:119-154).
THEOREM IdsNeverMix == Spec => []IdsAreTheirOwn
<1>1. IInv => RecordsCarryOwnId
  BY DEF IInv, LocalOK, Identified, RecordsCarryOwnId
<1>2. IInv => ResponseCarriesOwnId
  <2>. SUFFICES ASSUME IInv, NEW r \in Requests, pc[r] = "done"
                PROVE  /\ input[r].sent \notin {None, ""} =>
                             response[r].id = <<"client", input[r].sent>>
                       /\ input[r].sent \in {None, ""} =>
                             \A q \in Requests \ {r} :
                                pc[q] = "done" => response[q].id # response[r].id
    BY DEF ResponseCarriesOwnId
  <2>1. ASSUME NEW q \in Requests, pc[q] = "done"
        PROVE  response[q].id = request_id(q, input[q])
    BY <2>1 DEF IInv, LocalOK, Identified
  <2>2. response[r].id = request_id(r, input[r])
    BY <2>1
  <2>3. ASSUME input[r].sent \in {None, ""}, NEW q \in Requests \ {r}, pc[q] = "done"
        PROVE  response[q].id # response[r].id
    <3>1. response[r].id = <<"server", r>>
      BY <2>2, <2>3 DEF request_id, uuid4
    <3>2. response[q].id = <<"server", q>> \/ response[q].id = <<"client", input[q].sent>>
      BY <2>1, <2>3 DEF request_id, uuid4
    <3>3. <<"server", q>> # <<"server", r>>
      BY <2>3
    <3>4. \A x : <<"client", x>> # <<"server", r>>
      OBVIOUS
    <3>5. QED
      BY <3>1, <3>2, <3>3, <3>4
  <2>4. QED
    BY <2>2, <2>3 DEF request_id
<1>3. QED
  BY <1>1, <1>2, Invariant, PTL DEF IdsAreTheirOwn

\* No handler has run for a request that was answered 401, 422 or 429, and a gated
\* handler only for the configured key (dependencies.py:37-41, rate_limit.py:179-201).
THEOREM RefusedNeverServed == Spec => []RefusedIsNotServed
<1>1. IInv => RefusedIsNotServed
  <2>. SUFFICES ASSUME IInv, NEW r \in served
                PROVE  /\ response[r].status \notin {401, 422, 429}
                       /\ Gated(r) /\ expected # None => Supplied(r) = expected
    BY DEF RefusedIsNotServed
  <2>1. r \in Requests
    BY DEF IInv, TypeOK
  <2>2. Judged(r)
    BY <2>1 DEF IInv, LocalOK
  <2>3. response[r].status \notin Refusals /\ Cleared(r)
    BY <2>1, <2>2 DEF Judged
  <2>4. response[r].status \notin {401, 422, 429}
    BY <2>3 DEF Refusals
  <2>5. Gated(r) /\ expected # None => Supplied(r) = expected
    BY <2>3 DEF Cleared
  <2>6. QED
    BY <2>4, <2>5
<1>2. QED
  BY <1>1, Invariant, PTL

\* In one window a client is let through at most cap times per process that lived in
\* it, plus once per failure of the limiter (rate_limit.py:179-193).
THEOREM BudgetHolds == Spec => []BudgetPerBoot
<1>1. IInv => BudgetPerBoot
  <2>. SUFFICES ASSUME IInv, Limiter!enabled, NEW k \in ClientKeys
                PROVE  passed[k] <= cap * boots + faults[k]
    BY DEF BudgetPerBoot
  <2>1. TypeOK /\ passed[k] <= Before + faults[k] + Lower(counts[now][k], cap)
    BY DEF IInv, Spent
  <2>2. cap \in Nat /\ boots \in Nat \ {0} /\ now \in 0..MaxWindow
    BY <2>1, OneTickWindows DEF TypeOK
  <2>3. passed[k] \in Nat /\ faults[k] \in Nat /\ counts[now][k] \in Nat
    BY <2>1, <2>2 DEF TypeOK
  <2>4. Lower(counts[now][k], cap) \in Nat /\ Lower(counts[now][k], cap) <= cap
    BY <2>2, <2>3 DEF Lower
  <2>5. Before \in Int /\ Before + cap = cap * boots
    BY <2>2, OneMoreBudget DEF Before
  <2>6. QED
    BY <2>1, <2>2, <2>3, <2>4, <2>5
<1>2. QED
  BY <1>1, Invariant, PTL

\* A request that presents a key is throttled only after more than cap requests with
\* that key (rate_limit.py:128-139), whoever else calls from its host.
THEOREM ThrottledForOwnTraffic == Spec => []NoCollateral429
<1>1. IInv => NoCollateral429
  <2>1. \A a : Came(a) = Callers(pc, input, a)
    BY DEF Came, Callers
  <2>2. QED
    BY <2>1 DEF IInv, Unmixed, NoCollateral429
<1>2. QED
  BY <1>1, Invariant, PTL
-----------------------------------------------------------------------------
(* The process that serves them: Bootstrap *)

Up == {"created", "startup", "serving"}

\* What registration has done so far: a prefix of the declared ids, all different.
Registered ==
    /\ Len(rules) <= Len(declared)
    /\ \A n \in 1..Len(rules) : rules[n] = declared[n]
    /\ \A m, n \in 1..Len(rules) : m # n => rules[m] # rules[n]
    /\ stage \in Up => Len(rules) = Len(declared)

\* The handler is installed by the first call of create_app.
Installed ==
    /\ stage \in {"down", "import"} => apps = 0 /\ handlers = 0
    /\ stage \in Up => handlers = 1

\* Threads are inside get_engine only where the life of the process has them: the
\* event loop in the lifespan hook, the workers when it serves.
Places ==
    /\ stage # "serving" => \A w \in Workers : line[w] = "idle"
    /\ line[Loop] = "idle" <=> stage # "startup"

\* How far the event loop has come with the engine; whoever enters after it finds
\* the engine made, and so nobody makes another.
FirstCaller ==
    /\ stage \in {"down", "import", "created"} => engine = NoEngine /\ built = 0
    /\ line[Loop] \in {"check", "make"} => engine = NoEngine /\ built = 0
    /\ line[Loop] = "assign" => engine = NoEngine /\ built = 1 /\ local[Loop] = 1
    /\ line[Loop] \in {"return", "use"} => engine = 1 /\ built = 1
    /\ line[Loop] = "use" => local[Loop] = 1
LaterCallers ==
    /\ stage = "serving" => engine = 1 /\ built = 1 /\ tables = SCHEMA
    /\ \A w \in Workers :
          /\ line[w] \notin {"make", "assign"}
          /\ line[w] = "use" => local[w] = 1

BootInv == BootTypeOK /\ Registered /\ Installed /\ Places /\ FirstCaller /\ LaterCallers
-----------------------------------------------------------------------------
USE DEF NoEngine

\* A process that has just started, or is no more, has an empty memory.
LEMMA FreshMemory ==
    ASSUME BootTypeOK, NewProcess, stage' \in {"down", "import"}, UNCHANGED <<declared, tables>>,
           starts' \in 0..MaxBoots
    PROVE  BootInv'
<1>1. 0 \in 0..MaxApps
  BY BootAssumption
<1>2. rules' = << >> /\ Len(rules') = 0 /\ rules' \in Seq(STRING)
  BY DEF NewProcess
<1>3. declared' \in Seq(STRING)
  BY BootAssumption DEF BootTypeOK
<1>4. BootTypeOK'
  BY <1>1, <1>2 DEF BootTypeOK, NewProcess, Threads
<1>5. Registered'
  BY <1>2, <1>3 DEF Registered, Up
<1>6. Installed' /\ Places'
  BY DEF Installed, Places, NewProcess, Up, Threads
<1>7. FirstCaller' /\ LaterCallers'
  BY DEF FirstCaller, LaterCallers, NewProcess, Threads
<1>8. QED
  BY <1>4, <1>5, <1>6, <1>7 DEF BootInv

LEMMA BootInitInvariant ==
    BootInit => BootInv
<1>1. SUFFICES ASSUME BootInit PROVE BootInv
  OBVIOUS
<1>2. 0 \in 0..MaxApps /\ 0 \in 0..MaxBoots
  BY BootAssumption
<1>3. rules = << >> /\ Len(rules) = 0 /\ rules \in Seq(STRING)
  BY <1>1 DEF BootInit
<1>4. declared \in Seq(STRING)
  BY <1>1, BootAssumption DEF BootInit
<1>5. BootTypeOK
  BY <1>1, <1>2, <1>3 DEF BootTypeOK, BootInit, Threads
<1>6. Registered
  BY <1>1, <1>3, <1>4 DEF Registered, Up, BootInit
<1>7. Installed /\ Places
  BY <1>1 DEF Installed, Places, BootInit, Up, Threads
<1>8. FirstCaller /\ LaterCallers
  BY <1>1 DEF FirstCaller, LaterCallers, BootInit, Threads
<1>9. QED
  BY <1>5, <1>6, <1>7, <1>8 DEF BootInv

\* Registering an id keeps the registered ids a prefix of the declared ones, or
\* ends the process.
LEMMA RegisterStep ==
    ASSUME BootInv, Register
    PROVE  BootInv'
<1> DEFINE id == declared[Len(rules) + 1]
<1>1. declared \in Seq(STRING) /\ rules \in Seq(STRING) /\ stage = "import" /\ Len(rules) < Len(declared)
  BY BootAssumption DEF BootInv, BootTypeOK, Register
<1>2. id \in STRING /\ Len(rules) + 1 \in 1..Len(declared)
  BY <1>1
<1>3. CASE \E n \in 1..Len(rules) : rules[n] = id
  <2>1. stage' = "down" /\ NewProcess /\ UNCHANGED <<declared, tables, starts>>
    BY <1>3 DEF Register
  <2>2. QED
    BY <2>1, FreshMemory DEF BootInv, BootTypeOK
<1>4. CASE ~ \E n \in 1..Len(rules) : rules[n] = id
  <2>1. /\ rules' = Append(rules, id)
        /\ UNCHANGED <<stage, declared, apps, handlers, root_level, session_module, tables, starts>>
    BY <1>4 DEF Register
  <2>2. /\ rules' \in Seq(STRING) /\ Len(rules') = Len(rules) + 1
        /\ rules'[Len(rules) + 1] = id
        /\ \A n \in 1..Len(rules) : rules'[n] = rules[n]
    BY <1>1, <1>2, <2>1
  <2>3. Registered'
    <3>1. Len(rules') <= Len(declared') /\ stage' \notin Up
      BY <1>1, <2>1, <2>2 DEF Up
    <3>2. ASSUME NEW n \in 1..Len(rules')
          PROVE  n \in 1..Len(rules) \/ n = Len(rules) + 1
      BY <1>1, <2>2
    <3>3. \A n \in 1..Len(rules') : rules'[n] = declared'[n]
      BY <2>1, <2>2, <3>2 DEF BootInv, Registered
    <3>4. \A m, n \in 1..Len(rules') : m # n => rules'[m] # rules'[n]
      BY <1>4, <2>2, <3>2 DEF BootInv, Registered
    <3>5. QED
      BY <3>1, <3>3, <3>4 DEF Registered
  <2>4. BootTypeOK'
    BY <2>1, <2>2 DEF BootInv, BootTypeOK, session_module
  <2>5. Installed' /\ Places'
    BY <2>1 DEF BootInv, Installed, Places, session_module
  <2>6. FirstCaller' /\ LaterCallers'
    BY <2>1 DEF BootInv, FirstCaller, LaterCallers, session_module
  <2>7. QED
    BY <2>3, <2>4, <2>5, <2>6 DEF BootInv
<1>5. QED
  BY <1>3, <1>4

LEMMA CreateAppStep ==
    ASSUME BootInv, CreateApp
    PROVE  BootInv'
<1>1. /\ stage \in {"import", "created"} /\ stage' = "created" /\ apps' = apps + 1
      /\ UNCHANGED <<declared, rules, session_module, tables, starts>>
      /\ handlers' = 1
      /\ root_level' \in {"WARNING", "INFO"}
      /\ Len(rules) = Len(declared)
  BY DEF CreateApp, configure_logging, BootInv, BootTypeOK, Installed, Registered, Up
<1>2. apps' \in 0..MaxApps
  BY BootAssumption DEF CreateApp, BootInv, BootTypeOK, Installed
<1>3. BootTypeOK'
  BY <1>1, <1>2 DEF BootInv, BootTypeOK, session_module
<1>4. Registered'
  BY <1>1 DEF BootInv, Registered
<1>5. Installed' /\ Places'
  BY <1>1 DEF BootInv, Installed, Places, Up, session_module
<1>6. FirstCaller' /\ LaterCallers'
  BY <1>1 DEF BootInv, FirstCaller, LaterCallers, session_module
<1>7. QED
  BY <1>3, <1>4, <1>5, <1>6 DEF BootInv

\* What no step of a thread touches once the app exists.
LEMMA MemoryKept ==
    ASSUME BootInv, UNCHANGED <<declared, memory, starts>>,
           stage' = stage \/ (stage \in Up /\ stage' \in Up)
    PROVE  /\ Registered' /\ Installed'
           /\ rules' \in Seq(STRING) /\ apps' \in 0..MaxApps /\ handlers' \in Nat
           /\ root_level' \in {"WARNING", "INFO"} /\ declared' \in Declarations
           /\ starts' \in 0..MaxBoots
<1>1. UNCHANGED <<rules, apps, handlers, root_level>>
  BY DEF memory
<1>2. Registered'
  BY <1>1 DEF BootInv, Registered
<1>3. Installed'
  BY <1>1 DEF BootInv, Installed, Up
<1>4. QED
  BY <1>1, <1>2, <1>3 DEF BootInv, BootTypeOK

\* A process of which the event loop alone runs, in the lifespan hook.
LEMMA HookSteps ==
    ASSUME BootInv, Startup \/ CreateTable \/ Serve
    PROVE  BootInv'
<1>1. Loop \in Threads /\ Loop \notin Workers
  BY ThreadsAssumption DEF Threads
<1>2. CASE Startup
  <2>1. /\ stage = "created" /\ stage' = "startup" /\ line' = [line EXCEPT ![Loop] = "check"]
        /\ UNCHANGED <<declared, memory, engine, built, local, tables, starts>>
    BY <1>2 DEF Startup
  <2>2. /\ Registered' /\ Installed'
        /\ rules' \in Seq(STRING) /\ apps' \in 0..MaxApps /\ handlers' \in Nat
        /\ root_level' \in {"WARNING", "INFO"} /\ declared' \in Declarations
        /\ starts' \in 0..MaxBoots
    BY <2>1, MemoryKept DEF Up
  <2>3. BootTypeOK'
    BY <2>1, <2>2 DEF BootInv, BootTypeOK
  <2>4. line'[Loop] = "check" /\ \A w \in Workers : line'[w] = line[w]
    BY <1>1, <2>1 DEF BootInv, BootTypeOK, Threads
  <2>5. Places' /\ FirstCaller' /\ LaterCallers'
    BY <2>1, <2>4 DEF BootInv, Places, FirstCaller, LaterCallers
  <2>6. QED
    BY <2>2, <2>3, <2>5 DEF BootInv
<1>3. CASE Serve
  <2>1. /\ line[Loop] = "use" /\ stage' = "serving" /\ line' = [line EXCEPT ![Loop] = "idle"]
        /\ tables = SCHEMA
        /\ UNCHANGED <<declared, memory, engine, built, local, tables, starts>>
    BY <1>3 DEF Serve
  <2>2. stage = "startup"
    BY <1>3 DEF Serve
  <2>3. /\ Registered' /\ Installed'
        /\ rules' \in Seq(STRING) /\ apps' \in 0..MaxApps /\ handlers' \in Nat
        /\ root_level' \in {"WARNING", "INFO"} /\ declared' \in Declarations
        /\ starts' \in 0..MaxBoots
    BY <2>1, <2>2, MemoryKept DEF Up
  <2>4. BootTypeOK'
    BY <2>1, <2>3 DEF BootInv, BootTypeOK
  <2>5. line'[Loop] = "idle" /\ \A w \in Workers : line'[w] = line[w]
    BY <1>1, <2>1 DEF BootInv, BootTypeOK, Threads
  <2>6. Places' /\ FirstCaller' /\ LaterCallers'
    BY <2>1, <2>2, <2>5 DEF BootInv, Places, FirstCaller, LaterCallers
  <2>7. QED
    BY <2>3, <2>4, <2>6 DEF BootInv
<1>4. CASE CreateTable
  <2>1. /\ stage = "startup" /\ tables' \subseteq SCHEMA
        /\ UNCHANGED <<stage, declared, memory, engine, built, line, local, starts>>
    BY <1>4 DEF CreateTable, session_module, BootInv, BootTypeOK
  <2>2. /\ Registered' /\ Installed'
        /\ rules' \in Seq(STRING) /\ apps' \in 0..MaxApps /\ handlers' \in Nat
        /\ root_level' \in {"WARNING", "INFO"} /\ declared' \in Declarations
        /\ starts' \in 0..MaxBoots
    BY <2>1, MemoryKept
  <2>3. BootTypeOK'
    BY <2>1, <2>2 DEF BootInv, BootTypeOK
  <2>4. Places' /\ FirstCaller' /\ LaterCallers'
    BY <2>1 DEF BootInv, Places, FirstCaller, LaterCallers
  <2>5. QED
    BY <2>2, <2>3, <2>4 DEF BootInv
<1>5. QED
  BY <1>2, <1>3, <1>4

\* A step of one thread inside get_engine, or of a worker into or out of it.
LEMMA ThreadSteps ==
    ASSUME BootInv, NEW t \in Threads, Request(t) \/ GetEngine(t) \/ Close(t)
    PROVE  BootInv'
<1>1. UNCHANGED <<stage, declared, memory, tables, starts>>
  BY DEF Request, GetEngine, Check, Make, Assign, Return, Close
<1>2. /\ Registered' /\ Installed'
      /\ rules' \in Seq(STRING) /\ apps' \in 0..MaxApps /\ handlers' \in Nat
      /\ root_level' \in {"WARNING", "INFO"} /\ declared' \in Declarations
      /\ starts' \in 0..MaxBoots
  BY <1>1, MemoryKept
<1>3. engine' \in Nat /\ built' \in Nat /\ local' \in [Threads -> Nat]
      /\ line' \in [Threads -> {"idle", "check", "make", "assign", "return", "use"}]
  BY DEF Request, GetEngine, Check, Make, Assign, Return, Close, BootInv, BootTypeOK
<1>4. BootTypeOK'
  BY <1>1, <1>2, <1>3 DEF BootInv, BootTypeOK
<1>5. /\ \A u \in Threads : u # t => line'[u] = line[u] /\ local'[u] = local[u]
      /\ Loop \in Threads /\ Loop \notin Workers /\ \A w \in Workers : w \in Threads
  BY ThreadsAssumption DEF Request, GetEngine, Check, Make, Assign, Return, Close, BootInv, BootTypeOK, Threads
<1>6. Places' /\ FirstCaller' /\ LaterCallers'
  <2>1. CASE Request(t)
    <3>1. t \in Workers /\ t # Loop /\ line'[t] = "check" /\ UNCHANGED <<engine, built, local>> /\ stage = "serving"
      BY <1>5, <2>1 DEF Request, BootInv, BootTypeOK
    <3>2. QED
      BY <1>1, <1>5, <3>1 DEF BootInv, Places, FirstCaller, LaterCallers
  <2>2. CASE Check(t)
    <3>1. /\ line[t] = "check" /\ line'[t] = IF engine = NoEngine THEN "make" ELSE "return"
          /\ UNCHANGED <<engine, built, local>>
      BY <2>2 DEF Check, BootInv, BootTypeOK
    <3>2. CASE t = Loop
      BY <1>1, <1>5, <3>1, <3>2 DEF BootInv, Places, FirstCaller, LaterCallers
    <3>3. CASE t \in Workers
      <4>1. stage = "serving" /\ engine = 1
        BY <3>1, <3>3 DEF BootInv, Places, LaterCallers
      <4>2. QED
        BY <1>1, <1>5, <3>1, <3>3, <4>1 DEF BootInv, Places, FirstCaller, LaterCallers
    <3>4. QED
      BY <3>2, <3>3 DEF Threads
  <2>3. CASE Make(t)
    <3>1. /\ line[t] = "make" /\ line'[t] = "assign" /\ local'[t] = built + 1 /\ built' = built + 1
          /\ engine' = engine
      BY <2>3 DEF Make, BootInv, BootTypeOK
    <3>2. t = Loop
      BY <3>1 DEF Threads, BootInv, LaterCallers
    <3>3. QED
      BY <1>1, <1>5, <3>1, <3>2 DEF BootInv, Places, FirstCaller, LaterCallers
  <2>4. CASE Assign(t)
    <3>1. /\ line[t] = "assign" /\ line'[t] = "return" /\ engine' = local[t]
          /\ UNCHANGED <<built, local>>
      BY <2>4 DEF Assign, BootInv, BootTypeOK
    <3>2. t = Loop
      BY <3>1 DEF Threads, BootInv, LaterCallers
    <3>3. QED
      BY <1>1, <1>5, <3>1, <3>2 DEF BootInv, Places, FirstCaller, LaterCallers
  <2>5. CASE Return(t)
    <3>1. /\ line[t] = "return" /\ line'[t] = "use" /\ local'[t] = engine
          /\ UNCHANGED <<engine, built>>
      BY <2>5 DEF Return, BootInv, BootTypeOK
    <3>2. CASE t = Loop
      BY <1>1, <1>5, <3>1, <3>2 DEF BootInv, Places, FirstCaller, LaterCallers
    <3>3. CASE t \in Workers
      <4>1. stage = "serving" /\ engine = 1
        BY <3>1, <3>3 DEF BootInv, Places, LaterCallers
      <4>2. QED
        BY <1>1, <1>5, <3>1, <3>3, <4>1 DEF BootInv, Places, FirstCaller, LaterCallers
    <3>4. QED
      BY <3>2, <3>3 DEF Threads
  <2>6. CASE Close(t)
    <3>1. t \in Workers /\ t # Loop /\ line[t] = "use" /\ line'[t] = "idle" /\ UNCHANGED <<engine, built, local>>
      BY <1>5, <2>6 DEF Close, BootInv, BootTypeOK
    <3>2. QED
      BY <1>1, <1>5, <3>1 DEF BootInv, Places, FirstCaller, LaterCallers
  <2>7. QED
    BY <2>1, <2>2, <2>3, <2>4, <2>5, <2>6 DEF GetEngine
<1>7. QED
  BY <1>2, <1>4, <1>6 DEF BootInv

LEMMA NextInvariant ==
    BootInv /\ [BootNext]_boot_vars => BootInv'
<1>1. SUFFICES ASSUME BootInv, [BootNext]_boot_vars PROVE BootInv'
  OBVIOUS
<1>2. CASE Boot
  <2>1. starts' \in 0..MaxBoots
    BY <1>1, <1>2, BootAssumption DEF Boot, BootInv, BootTypeOK
  <2>2. QED
    BY <1>1, <1>2, <2>1, FreshMemory DEF Boot, BootInv
<1>3. CASE Die
  BY <1>1, <1>3, FreshMemory DEF Die, BootInv, BootTypeOK
<1>4. CASE Register
  BY <1>1, <1>4, RegisterStep
<1>5. CASE CreateApp
  BY <1>1, <1>5, CreateAppStep
<1>6. CASE Startup \/ CreateTable \/ Serve
  BY <1>1, <1>6, HookSteps
<1>7. CASE \E t \in Threads : Request(t) \/ GetEngine(t) \/ Close(t)
  BY <1>1, <1>7, ThreadSteps
<1>8. CASE UNCHANGED boot_vars
  <2>1. UNCHANGED <<stage, declared, rules, apps, handlers, root_level, engine, built, line, local, tables, starts>>
    BY <1>8 DEF boot_vars, memory, session_module
  <2>2. BootTypeOK' /\ Registered'
    BY <1>1, <2>1 DEF BootInv, BootTypeOK, Registered
  <2>3. Installed' /\ Places' /\ FirstCaller' /\ LaterCallers'
    BY <1>1, <2>1 DEF BootInv, Installed, Places, FirstCaller, LaterCallers
  <2>4. QED
    BY <2>2, <2>3 DEF BootInv
<1>9. QED
  BY <1>1, <1>2, <1>3, <1>4, <1>5, <1>6, <1>7, <1>8 DEF BootNext

LEMMA BootInvariant ==
    BootSpec => []BootInv
<1>1. QED
  BY BootInitInvariant, NextInvariant, PTL DEF BootSpec

\* Type correctness of a process from its start to its death.
THEOREM BootTypeCorrect ==
    BootSpec => []BootTypeOK
<1>1. BootInv => BootTypeOK
  BY DEF BootInv
<1>2. QED
  BY <1>1, BootInvariant, PTL

\* For any number of workers, although get_engine tests and sets the module-level
\* engine without a lock (session.py:34), a process builds one pool and every
\* session is on it, because the lifespan hook is its first caller.
THEOREM SinglePool ==
    BootSpec => []OnePool
<1>1. BootInv => OnePool
  BY DEF BootInv, OnePool, FirstCaller, LaterCallers, Places, BootTypeOK, Threads
<1>2. QED
  BY <1>1, BootInvariant, PTL

\* No request opens a session on a database without tables, whenever earlier
\* processes died (app.py:27).
THEOREM TablesFirst ==
    BootSpec => []SessionsSeeTables
<1>1. BootInv => SessionsSeeTables
  BY DEF BootInv, SessionsSeeTables, LaterCallers, Places
<1>2. QED
  BY <1>1, BootInvariant, PTL

\* A process serves only with the complete registry, whatever rule ids a version
\* of the check modules declares (registry.py:28).
THEOREM CompleteRegistry ==
    BootSpec => []RulesAreAllThere
<1>1. BootInv => RulesAreAllThere
  <2>1. SUFFICES ASSUME BootInv, stage = "serving"
                 PROVE  rules = declared /\ \A m, n \in 1..Len(rules) : m # n => rules[m] # rules[n]
    BY DEF RulesAreAllThere
  <2>2. rules \in Seq(STRING) /\ declared \in Seq(STRING)
    BY <2>1, BootAssumption DEF BootInv, BootTypeOK
  <2>3. Len(rules) = Len(declared) /\ \A n \in 1..Len(rules) : rules[n] = declared[n]
    BY <2>1 DEF BootInv, Registered, Up
  <2>4. rules = declared
    BY <2>2, <2>3
  <2>5. QED
    BY <2>1, <2>4 DEF BootInv, Registered
<1>2. QED
  BY <1>1, BootInvariant, PTL

\* However often create_app is called, records are written once.
THEOREM LoggedOnce ==
    BootSpec => []OneHandler
<1>1. BootInv => OneHandler
  BY DEF BootInv, OneHandler, Installed, BootTypeOK, Up
<1>2. QED
  BY <1>1, BootInvariant, PTL
=============================================================================
