-------------------------- MODULE ScanServiceProofs --------------------------
(***************************************************************************)
(* Proofs about ScanService, for every number of workers, connections,     *)
(* templates and requests, and about the scores its scans are given, for   *)
(* every mapping of counts (ScoreCalls, at the end).                       *)
(*                                                                         *)
(* The argument.  An attempt belongs to one worker at a time and has no    *)
(* row until that worker commits (OneRowPerAttempt, AttemptsInFlight), so  *)
(* no attempt adds two.  What a session has built carries the right        *)
(* counters (BuiltScans), so what it commits does (StoredScans).  Rows     *)
(* never change, so a row read by one SELECT still matches the findings    *)
(* read by the next (ReadsInFlight), and a body made of them is the body   *)
(* of the tables now and ever after (Truthful).                            *)
(***************************************************************************)
EXTENDS ScanService, ScoreCalls, FiniteSetTheorems, SequenceTheorems, TLAPS

Stored == 1..Len(scans)

\* The body that the tables give for a stored scan.
TableBody(i) ==
    [id |-> i, finding_count |-> scans[i].finding_count, counts |-> scans[i].counts,
     found |-> findings[i], score |-> score(scans[i].counts)]

TableBodies == {TableBody(i) : i \in Stored}

\* A response carries no body, or one that is true of the tables.
Replies == [status : Statuses, body : {{}} \cup {{b} : b \in TableBodies}]

Truthful ==
    /\ reply \in [Workers -> Replies]
    /\ shown \subseteq TableBodies

Tallied(row, found) ==
    /\ row.finding_count = Len(found)
    /\ row.counts = severity_counts(found)

\* A reading of the clock together with how far it had gone back: this never
\* decreases from one reading to the next.
Instant(row) == row.created_at + row.setback
LastInstant == clock + setback

StoredScans ==
    \A i \in Stored : Tallied(scans[i], findings[i]) /\ Instant(scans[i]) <= LastInstant

OneRowPerAttempt ==
    /\ \A i \in Stored : scans[i].by <= posts
    /\ \A i, j \in Stored : scans[i].by = scans[j].by => i = j

\* Attempts nobody made are unanswered; what was seen before one is stored.
AttemptsMade ==
    /\ \A a \in Attempts : a > posts => answered[a] = 0
    /\ \A a \in Attempts : before[a] \subseteq Stored

Posting(w) == req[w].op = "post"

Uncommitted(w) == pc[w] \in {"parse", "flush", "insert", "commit"}

HasRow(a) == \E i \in Stored : scans[i].by = a

AttemptsInFlight ==
    /\ \A w \in Workers : Posting(w) => req[w].by <= posts /\ answered[req[w].by] = 0
    /\ \A v, w \in Workers : v # w /\ Posting(v) /\ Posting(w) => req[v].by # req[w].by
    /\ \A w \in Workers : Uncommitted(w) => Posting(w) /\ ~HasRow(req[w].by)

BuiltScans ==
    \A w \in Workers : pc[w] \in {"flush", "insert", "commit"} =>
        /\ scan[w].row \in Rows
        /\ scan[w].row.by = req[w].by
        /\ Tallied(scan[w].row, scan[w].found)
        /\ Instant(scan[w].row) <= LastInstant
        /\ \A j \in before[req[w].by] : Instant(scans[j]) <= Instant(scan[w].row)

ReadsInFlight ==
    \A w \in Workers :
        /\ pc[w] \in {"select", "row"} => scan[w].id \in Ids
        /\ pc[w] \in {"select", "row", "findings"} /\ Posting(w) =>
               scan[w].id \in Stored /\ scans[scan[w].id].by = req[w].by
        /\ pc[w] = "findings" => scan[w].id \in Stored /\ scan[w].row = scans[scan[w].id]
        /\ pc[w] \in {"select", "row", "findings"} => req[w].op \in {"post", "get", "advice"}

\* What a worker is about to answer to a POST is true of the table.
AnswersInFlight ==
    \A w \in Workers : pc[w] = "answer" /\ Posting(w) =>
        /\ reply[w].status = 201 => HasRow(req[w].by)
        /\ reply[w].status \in {400, 413} => ~HasRow(req[w].by)

IInv == /\ TypeOK
        /\ NoHoldAndWait
        /\ Truthful
        /\ StoredScans
        /\ OneRowPerAttempt
        /\ AttemptsMade
        /\ AttemptsInFlight
        /\ BuiltScans
        /\ ReadsInFlight
        /\ AnswersInFlight
        /\ StatusTellsOutcome
        /\ NewestFirst
-----------------------------------------------------------------------------
\* What the invariant says of one worker.
Local(w) ==
    /\ Posting(w) => req[w].by <= posts /\ answered[req[w].by] = 0
    /\ Uncommitted(w) => Posting(w) /\ ~HasRow(req[w].by)
    /\ pc[w] \in {"flush", "insert", "commit"} =>
           /\ scan[w].row \in Rows
           /\ scan[w].row.by = req[w].by
           /\ Tallied(scan[w].row, scan[w].found)
           /\ Instant(scan[w].row) <= LastInstant
           /\ \A j \in before[req[w].by] : Instant(scans[j]) <= Instant(scan[w].row)
    /\ pc[w] \in {"select", "row"} => scan[w].id \in Ids
    /\ pc[w] \in {"select", "row", "findings"} /\ Posting(w) =>
           scan[w].id \in Stored /\ scans[scan[w].id].by = req[w].by
    /\ pc[w] = "findings" => scan[w].id \in Stored /\ scan[w].row = scans[scan[w].id]
    /\ pc[w] \in {"select", "row", "findings"} => req[w].op \in {"post", "get", "advice"}
    /\ pc[w] = "answer" /\ Posting(w) =>
           /\ reply[w].status = 201 => HasRow(req[w].by)
           /\ reply[w].status \in {400, 413} => ~HasRow(req[w].by)
    /\ pc[w] \in {"idle", "parse", "flush", "select"} => w \notin pool
    /\ pc[w] \in {"insert", "commit", "row", "findings", "advise"} => w \in pool
    /\ writer = w <=> pc[w] = "commit"

Distinct ==
    \A v, w \in Workers : v # w /\ Posting(v) /\ Posting(w) => req[v].by # req[w].by

\* What it says of the tables and the clients.
Global == /\ StoredScans /\ OneRowPerAttempt /\ AttemptsMade
          /\ StatusTellsOutcome /\ NewestFirst

Parts == /\ TypeOK /\ Truthful /\ Global /\ Distinct
         /\ Cardinality(pool) <= PoolSize
         /\ \A w \in Workers : Local(w)

LEMMA Regroup == IInv <=> Parts
<1>1. IInv => \A w \in Workers : Local(w)
  BY DEF LastInstant, time, IInv, Local, AttemptsInFlight, BuiltScans, ReadsInFlight, AnswersInFlight, NoHoldAndWait
<1>2. (\A w \in Workers : Local(w)) /\ Distinct => AttemptsInFlight
  BY DEF LastInstant, time, Local, Distinct, AttemptsInFlight
<1>3. (\A w \in Workers : Local(w)) => BuiltScans
  BY DEF LastInstant, time, Local, BuiltScans
<1>4. (\A w \in Workers : Local(w)) => ReadsInFlight
  BY DEF LastInstant, time, Local, ReadsInFlight
<1>5. (\A w \in Workers : Local(w)) => AnswersInFlight
  BY DEF LastInstant, time, Local, AnswersInFlight
<1>6. (\A w \in Workers : Local(w)) /\ Cardinality(pool) <= PoolSize => NoHoldAndWait
  BY DEF LastInstant, time, Local, NoHoldAndWait
<1>7. IInv => Distinct /\ Cardinality(pool) <= PoolSize
  BY DEF IInv, Distinct, AttemptsInFlight, NoHoldAndWait
<1>. QED  BY <1>1, <1>2, <1>3, <1>4, <1>5, <1>6, <1>7 DEF IInv, Global, Parts

LEMMA RegroupNext == IInv' <=> Parts'
<1>. QED  BY Regroup, PTL

\* Evaluations find severities, and their tally is a count per severity.
LEMMA FoundType == Found \subseteq Seq(Severity)
<1>1. << >> \in Seq(Severity)
  OBVIOUS
<1>2. \A t \in Templates : Evaluation[t] \in Seq(Severity)
  BY TemplatesAssumption
<1>. QED  BY <1>1, <1>2 DEF Found

LEMMA TallyType ==
    ASSUME NEW f \in Seq(Severity)
    PROVE  severity_counts(f) \in [Severity -> Nat]
<1>1. ASSUME NEW s \in Severity PROVE Cardinality({i \in DOMAIN f : f[i] = s}) \in Nat
  <2>1. Len(f) \in Nat /\ DOMAIN f = 1..Len(f)
    OBVIOUS
  <2>2. IsFiniteSet(1..Len(f))
    BY <2>1, FS_Interval
  <2>3. IsFiniteSet({i \in DOMAIN f : f[i] = s})
    BY <2>1, <2>2, FS_Subset
  <2>. QED  BY <2>3, FS_CardinalityType
<1>. QED  BY <1>1 DEF severity_counts

\* Attempts with at most one row each leave no more rows than attempts.
LEMMA RowsBounded ==
    ASSUME NEW s \in Seq(Rows), NEW n \in Nat,
           \A i \in 1..Len(s) : s[i].by <= n,
           \A i, j \in 1..Len(s) : s[i].by = s[j].by => i = j
    PROVE  Len(s) <= n
<1> DEFINE f == [i \in 1..Len(s) |-> s[i].by]
<1>1. Len(s) \in Nat /\ \A i \in 1..Len(s) : s[i] \in Rows
  OBVIOUS
<1>2. \A i \in 1..Len(s) : s[i].by \in 1..n
  BY <1>1, BoundsAssumption DEF Rows, Attempts
<1>3. f \in Injection(1..Len(s), 1..n)
  BY <1>2 DEF Injection, IsInjective
<1>4. /\ IsFiniteSet(1..n) /\ Cardinality(1..n) = n /\ Cardinality(1..Len(s)) = Len(s)
  <2>1. ASSUME NEW m \in Nat PROVE IsFiniteSet(1..m) /\ Cardinality(1..m) = m
    <3>1. 1 \in Int /\ m \in Int
      OBVIOUS
    <3>2. IsFiniteSet(1..m) /\ Cardinality(1..m) = IF 1 > m THEN 0 ELSE m - 1 + 1
      BY <3>1, FS_Interval, Zenon
    <3>. QED  BY <3>2
  <2>. QED  BY <1>1, <2>1
<1>5. Cardinality(1..Len(s)) <= Cardinality(1..n)
  BY <1>3, <1>4, FS_Injection
<1>. QED  BY <1>4, <1>5

-----------------------------------------------------------------------------
\* A quiet step of w: no table, no history, no reading of the clock, and no other worker.
Quiet == UNCHANGED <<tables, time, crashes, history>>

Alone(w) ==
    /\ req'[w] = req[w]
    /\ \A v \in Workers \ {w} :
          /\ pc'[v] = pc[v] /\ req'[v] = req[v] /\ scan'[v] = scan[v] /\ reply'[v] = reply[v]
          /\ v \in pool' <=> v \in pool
          /\ writer' = v <=> writer = v

LEMMA QuietGlobal == ASSUME Global, Quiet PROVE Global'
<1>1. /\ scans' = scans /\ findings' = findings /\ UNCHANGED time
      /\ posts' = posts /\ answered' = answered /\ shown' = shown /\ before' = before
  BY DEF Quiet, tables, time, history
<1>2. StoredScans' /\ OneRowPerAttempt' /\ AttemptsMade'
  BY <1>1 DEF LastInstant, time, Global, StoredScans, OneRowPerAttempt, AttemptsMade, Stored
<1>3. StatusTellsOutcome' /\ NewestFirst'
  BY <1>1 DEF Global, StatusTellsOutcome, NewestFirst, Newer, SetBackBetween
<1>. QED  BY <1>2, <1>3 DEF Global

LEMMA QuietStep ==
    ASSUME NEW w \in Workers, IInv, TypeOK', Quiet, Alone(w), Local(w)', Truthful',
           Cardinality(pool') <= PoolSize
    PROVE  IInv'
<1>1. /\ scans' = scans /\ UNCHANGED time
      /\ posts' = posts /\ answered' = answered /\ before' = before
  BY DEF Quiet, tables, time, history
<1>2. Global'
  BY QuietGlobal, Regroup DEF Parts
<1>3. Distinct'
  BY Regroup DEF Parts, Distinct, Posting, Alone
<1>4. ASSUME NEW v \in Workers \ {w} PROVE Local(v)'
  <2>1. Local(v)
    BY Regroup DEF Parts
  <2>. QED  BY <1>1, <2>1 DEF LastInstant, time, Local, Alone, Posting, Uncommitted, HasRow, Stored
<1>5. \A v \in Workers : Local(v)'
  BY <1>4
<1>. QED  BY <1>2, <1>3, <1>5, RegroupNext DEF Parts

LEMMA QuietType ==
    ASSUME TypeOK, Quiet, writer' \in Workers \cup {NoWorker}, pool' \subseteq Workers,
           pc' \in [Workers -> Labels], req' \in [Workers -> Requests \cup {NoRequest}],
           scan' \in [Workers -> ScanObjects], \A w \in Workers : reply'[w].status \in Statuses
    PROVE  TypeOK'
<1>. QED  BY DEF TypeOK, Quiet, tables, time, history

\* Moving to another label and answering, seen from outside.
LEMMA GotoType ==
    ASSUME NEW w \in Workers, NEW label \in Labels, TypeOK, Goto(w, label)
    PROVE  /\ pc' \in [Workers -> Labels]
           /\ pc'[w] = label
           /\ \A v \in Workers \ {w} : pc'[v] = pc[v]
<1>. QED  BY DEF TypeOK, Goto

LEMMA BodiesKept == UNCHANGED tables => TableBodies' = TableBodies /\ Replies' = Replies
<1>. QED  BY DEF tables, TableBodies, TableBody, Stored, Replies

LEMMA TruthfulKept == ASSUME Truthful, Quiet, reply' = reply PROVE Truthful'
<1>. QED  BY BodiesKept DEF Truthful, Quiet, history

LEMMA RespondStep ==
    ASSUME NEW w \in Workers, NEW status \in Statuses, NEW body,
           [status |-> status, body |-> body] \in Replies,
           TypeOK, Truthful, Quiet, Respond(w, status, body)
    PROVE  /\ Truthful'
           /\ pc' \in [Workers -> Labels]
           /\ pc'[w] = "answer" /\ reply'[w].status = status
           /\ \A v \in Workers : reply'[v].status \in Statuses
           /\ \A v \in Workers \ {w} : pc'[v] = pc[v] /\ reply'[v] = reply[v]
<1>1. reply' = [reply EXCEPT ![w] = [status |-> status, body |-> body]]
  BY DEF Respond
<1>2. reply \in [Workers -> Replies]
  BY DEF Truthful
<1>3. reply' \in [Workers -> Replies]
  BY <1>1, <1>2
<1>4. Truthful'
  BY <1>3, BodiesKept DEF Truthful, Quiet, history
<1>5. "answer" \in Labels
  BY DEF Labels
<1>6. Goto(w, "answer")
  BY DEF Respond
<1>7. \A v \in Workers : reply'[v].status \in Statuses
  BY <1>3 DEF Replies
<1>8. reply'[w].status = status /\ \A v \in Workers \ {w} : reply'[v] = reply[v]
  BY <1>1, <1>2
<1>. QED  BY <1>4, <1>5, <1>6, <1>7, <1>8, GotoType

\* Every step that ends a request without a body, successful or not.
LEMMA BareAnswer ==
    ASSUME NEW w \in Workers, NEW status \in Statuses \ {201},
           IInv, Quiet, Respond(w, status, {}), UNCHANGED <<pool, req>>,
           scan' \in [Workers -> ScanObjects], \A v \in Workers \ {w} : scan'[v] = scan[v],
           writer' = IF writer = w THEN NoWorker ELSE writer,
           status \in {400, 413} /\ Posting(w) => ~HasRow(req[w].by)
    PROVE  IInv'
<1>1. /\ TypeOK /\ Truthful /\ Local(w) /\ Cardinality(pool) <= PoolSize
      /\ [status |-> status, body |-> {}] \in Replies
  BY Regroup DEF Parts, Replies
<1>2. /\ Truthful'
      /\ pc' \in [Workers -> Labels]
      /\ pc'[w] = "answer" /\ reply'[w].status = status
      /\ \A v \in Workers : reply'[v].status \in Statuses
      /\ \A v \in Workers \ {w} : pc'[v] = pc[v] /\ reply'[v] = reply[v]
  BY <1>1, RespondStep
<1>3. TypeOK'
  BY <1>1, <1>2, QuietType DEF TypeOK
<1>4. Alone(w)
  BY <1>2, WorkersAssumption DEF Alone
<1>5. /\ scans' = scans /\ posts' = posts /\ answered' = answered
  BY DEF Quiet, tables, time, history
<1>6. Local(w)'
  BY <1>1, <1>2, <1>5, WorkersAssumption DEF LastInstant, time, Local, Posting, Uncommitted, HasRow, Stored
<1>. QED  BY <1>1, <1>2, <1>3, <1>4, <1>6, QuietStep

LEMMA InvParseFails == ASSUME NEW w \in Workers, IInv, ParseFails(w) PROVE IInv'
<1> DEFINE status == http_status(Parsing[req[w].template])
<1>1. TypeOK /\ Local(w)
  BY Regroup DEF Parts
<1>2. status \in {400, 413, 500}
  BY DEF http_status
<1>3. writer # w
  BY <1>1 DEF LastInstant, time, Local, ParseFails
<1>4. ~HasRow(req[w].by)
  BY <1>1 DEF LastInstant, time, Local, ParseFails, Uncommitted
<1>5. Quiet /\ Respond(w, status, {}) /\ UNCHANGED <<pool, req, scan, writer>>
  BY DEF ParseFails, Quiet
<1>6. status \in Statuses \ {201}
  BY <1>2 DEF Statuses
<1>7. scan' \in [Workers -> ScanObjects] /\ \A v \in Workers \ {w} : scan'[v] = scan[v]
  BY <1>1, <1>5 DEF TypeOK
<1>8. writer' = IF writer = w THEN NoWorker ELSE writer
  BY <1>3, <1>5
<1>. HIDE DEF status
<1>. QED  BY <1>4, <1>5, <1>6, <1>7, <1>8, BareAnswer

LEMMA InvPoolTimeout == ASSUME NEW w \in Workers, IInv, PoolTimeout(w) PROVE IInv'
<1>1. TypeOK /\ Local(w)
  BY Regroup DEF Parts
<1>2. writer # w
  BY <1>1 DEF LastInstant, time, Local, PoolTimeout
<1>3. Quiet /\ Respond(w, 500, {}) /\ UNCHANGED <<pool, req, scan, writer>>
  BY DEF PoolTimeout, Quiet
<1>4. 500 \in Statuses \ {201} /\ 500 \notin {400, 413}
  BY DEF Statuses
<1>5. scan' \in [Workers -> ScanObjects] /\ \A v \in Workers \ {w} : scan'[v] = scan[v]
  BY <1>1, <1>3 DEF TypeOK
<1>. QED  BY <1>2, <1>3, <1>4, <1>5, BareAnswer

LEMMA InvLocked == ASSUME NEW w \in Workers, IInv, Locked(w) PROVE IInv'
<1>1. TypeOK /\ Local(w)
  BY Regroup DEF Parts
<1>2. writer # w
  BY <1>1 DEF LastInstant, time, Local, Locked
<1>3. Quiet /\ Respond(w, 500, {}) /\ UNCHANGED <<pool, req, scan, writer>>
  BY DEF Locked, Quiet
<1>4. 500 \in Statuses \ {201} /\ 500 \notin {400, 413}
  BY DEF Statuses
<1>5. scan' \in [Workers -> ScanObjects] /\ \A v \in Workers \ {w} : scan'[v] = scan[v]
  BY <1>1, <1>3 DEF TypeOK
<1>. QED  BY <1>2, <1>3, <1>4, <1>5, BareAnswer

LEMMA InvCommitFails == ASSUME NEW w \in Workers, IInv, CommitFails(w) PROVE IInv'
<1>1. TypeOK /\ Local(w)
  BY Regroup DEF Parts
<1>2. writer = w
  BY <1>1 DEF LastInstant, time, Local, CommitFails
<1>3. Quiet /\ Respond(w, 500, {}) /\ UNCHANGED <<pool, req, scan>> /\ writer' = NoWorker
  BY DEF CommitFails, Quiet
<1>4. 500 \in Statuses \ {201} /\ 500 \notin {400, 413}
  BY DEF Statuses
<1>5. scan' \in [Workers -> ScanObjects] /\ \A v \in Workers \ {w} : scan'[v] = scan[v]
  BY <1>1, <1>3 DEF TypeOK
<1>. QED  BY <1>2, <1>3, <1>4, <1>5, BareAnswer

LEMMA InvSelectFails == ASSUME NEW w \in Workers, IInv, SelectFails(w) PROVE IInv'
<1>1. TypeOK /\ Local(w)
  BY Regroup DEF Parts
<1>2. writer # w
  BY <1>1 DEF LastInstant, time, Local, SelectFails
<1>3. Quiet /\ Respond(w, 500, {}) /\ UNCHANGED <<pool, req, scan, writer>>
  BY DEF SelectFails, Quiet
<1>4. 500 \in Statuses \ {201} /\ 500 \notin {400, 413}
  BY DEF Statuses
<1>5. scan' \in [Workers -> ScanObjects] /\ \A v \in Workers \ {w} : scan'[v] = scan[v]
  BY <1>1, <1>3 DEF TypeOK
<1>. QED  BY <1>2, <1>3, <1>4, <1>5, BareAnswer

LEMMA InvAdvise == ASSUME NEW w \in Workers, IInv, Advise(w) PROVE IInv'
<1>1. TypeOK /\ Local(w)
  BY Regroup DEF Parts
<1>2. writer # w
  BY <1>1 DEF LastInstant, time, Local, Advise
<1>3. PICK status \in {200, 500} : Respond(w, status, {})
  BY DEF Advise
<1>4. Quiet /\ UNCHANGED <<pool, req, scan, writer>>
  BY DEF Advise, Quiet
<1>5. status \in Statuses \ {201} /\ status \notin {400, 413}
  BY <1>3 DEF Statuses
<1>6. scan' \in [Workers -> ScanObjects] /\ \A v \in Workers \ {w} : scan'[v] = scan[v]
  BY <1>1, <1>4 DEF TypeOK
<1>. QED  BY <1>2, <1>3, <1>4, <1>5, <1>6, BareAnswer

\* What a request of each kind carries.
LEMMA RequestType ==
    ASSUME NEW w \in Workers, TypeOK
    PROVE  /\ req[w].op = "post" => req[w].template \in Templates /\ req[w].by \in Attempts
           /\ req[w].op \in {"get", "advice"} => req[w].id \in Ids
<1>1. req[w] \in Requests \cup {NoRequest}
  BY DEF TypeOK
<1>. QED  BY <1>1 DEF Requests, NoRequest

\* Every reading of the clock comes with a later instant than the one before.
LEMMA ReadAdvances ==
    ASSUME NEW now \in 0..MaxClock, TypeOK, Read(now)
    PROVE  /\ clock' = now /\ clock' \in 0..MaxClock /\ setback' \in 0..MaxSetback
           /\ LastInstant \in Int /\ LastInstant' \in Int /\ LastInstant <= LastInstant'
           /\ LastInstant' = now + setback'
<1>1. clock \in 0..MaxClock /\ setback \in 0..MaxSetback
  BY DEF TypeOK
<1>2. /\ clock' = now /\ setback' <= MaxSetback
      /\ setback' = setback + (IF now < clock THEN clock - now ELSE 0)
  BY DEF Read
<1>. QED  BY <1>1, <1>2, BoundsAssumption DEF LastInstant

LEMMA InstantType == ASSUME NEW row \in Rows PROVE Instant(row) \in Int
<1>. QED  BY BoundsAssumption DEF Rows, Instant

\* What a parsing worker has built when it reaches its first statement.
LEMMA BuildMakes ==
    ASSUME NEW w \in Workers, NEW now \in 0..MaxClock, IInv, Build(w, now)
    PROVE  /\ scan' \in [Workers -> ScanObjects]
           /\ scan'[w].row \in Rows
           /\ scan'[w].row.by = req[w].by
           /\ Tallied(scan'[w].row, scan'[w].found)
           /\ Instant(scan'[w].row) = LastInstant'
           /\ \A v \in Workers \ {w} : scan'[v] = scan[v]
<1> DEFINE found == Evaluation[req[w].template]
           row == [by |-> req[w].by, created_at |-> now, setback |-> setback',
                   finding_count |-> Len(found), counts |-> severity_counts(found)]
<1>1. TypeOK /\ Local(w)
  BY Regroup DEF Parts
<1>2. req[w].template \in Templates /\ req[w].by \in Attempts
  BY <1>1, RequestType DEF Local, Build, Uncommitted, Posting
<1>3. found \in Found /\ found \in Seq(Severity) /\ Len(found) \in Nat
  BY <1>2, FoundType DEF Found
<1>4. severity_counts(found) \in [Severity -> Nat]
  BY <1>3, TallyType
<1>5. setback' \in 0..MaxSetback /\ LastInstant' = now + setback'
  BY <1>1, ReadAdvances DEF Build
<1>6. row \in Rows
  BY <1>2, <1>3, <1>4, <1>5 DEF Rows
<1>7. 0 \in 0..MaxPosts
  BY BoundsAssumption
<1>8. scan' = [scan EXCEPT ![w] = [id |-> 0, row |-> row, found |-> found]]
  BY DEF Build
<1>9. [id |-> 0, row |-> row, found |-> found] \in ScanObjects
  BY <1>3, <1>6, <1>7 DEF ScanObjects
<1>10. scan \in [Workers -> ScanObjects]
  BY <1>1 DEF TypeOK
<1>11. row.by = req[w].by /\ Instant(row) = LastInstant' /\ Tallied(row, found)
  BY <1>5 DEF Tallied, Instant
<1>. HIDE DEF row, found
<1>. QED  BY <1>6, <1>8, <1>9, <1>10, <1>11

\* The clock was read: the tables are as they were, and no newer than the reading.
LEMMA ReadGlobal ==
    ASSUME TypeOK, Global, UNCHANGED <<tables, history>>, LastInstant' \in Int,
           LastInstant \in Int, LastInstant <= LastInstant'
    PROVE  Global'
<1>1. /\ scans' = scans /\ findings' = findings
      /\ posts' = posts /\ answered' = answered /\ shown' = shown /\ before' = before
  BY DEF tables, history
<1>2. StoredScans'
  <2>1. ASSUME NEW i \in Stored PROVE Instant(scans[i]) <= LastInstant'
    <3>1. Instant(scans[i]) \in Int
      BY InstantType DEF Stored, TypeOK
    <3>2. Instant(scans[i]) <= LastInstant
      BY DEF Global, StoredScans
    <3>. QED  BY <3>1, <3>2
  <2>2. \A i \in Stored : Tallied(scans[i], findings[i]) /\ Instant(scans[i]) <= LastInstant'
    BY <2>1 DEF Global, StoredScans
  <2>. QED  BY <1>1, <2>2 DEF StoredScans, Stored, Tallied, severity_counts, Instant
<1>3. OneRowPerAttempt' /\ AttemptsMade'
  BY <1>1 DEF Global, OneRowPerAttempt, AttemptsMade, Stored
<1>4. StatusTellsOutcome' /\ NewestFirst'
  BY <1>1 DEF Global, StatusTellsOutcome, NewestFirst, Newer, SetBackBetween
<1>. QED  BY <1>2, <1>3, <1>4 DEF Global

LEMMA InvBuild ==
    ASSUME NEW w \in Workers, NEW now \in 0..MaxClock, IInv, Build(w, now)
    PROVE  IInv'
<1>1. /\ TypeOK /\ Truthful /\ Global /\ Distinct /\ Cardinality(pool) <= PoolSize
      /\ \A v \in Workers : Local(v)
  BY Regroup DEF Parts
<1>2. /\ Goto(w, "flush") /\ Read(now) /\ pc[w] = "parse"
      /\ UNCHANGED <<tables, history>> /\ UNCHANGED <<writer, pool, req, reply, crashes>>
  BY DEF Build
<1>3. /\ scan' \in [Workers -> ScanObjects]
      /\ scan'[w].row \in Rows
      /\ scan'[w].row.by = req[w].by
      /\ Tallied(scan'[w].row, scan'[w].found)
      /\ Instant(scan'[w].row) = LastInstant'
      /\ \A v \in Workers \ {w} : scan'[v] = scan[v]
  BY BuildMakes
<1>4. pc' \in [Workers -> Labels] /\ pc'[w] = "flush" /\ \A v \in Workers \ {w} : pc'[v] = pc[v]
  <2>1. "flush" \in Labels
    BY DEF Labels
  <2>. QED  BY <1>1, <1>2, <2>1, GotoType
<1>5. /\ clock' \in 0..MaxClock /\ setback' \in 0..MaxSetback
      /\ LastInstant \in Int /\ LastInstant' \in Int /\ LastInstant <= LastInstant'
  BY <1>1, <1>2, ReadAdvances
<1>6. /\ scans' = scans /\ findings' = findings
      /\ posts' = posts /\ answered' = answered /\ shown' = shown /\ before' = before
  BY <1>2 DEF tables, history
<1>7. TypeOK'
  BY <1>1, <1>2, <1>3, <1>4, <1>5, <1>6 DEF TypeOK
<1>8. Truthful'
  BY <1>1, <1>2, <1>6, BodiesKept DEF Truthful
<1>9. Global'
  BY <1>1, <1>2, <1>5, ReadGlobal
<1>10. Distinct'
  BY <1>1, <1>2 DEF Distinct, Posting
<1>11. Posting(w) /\ ~HasRow(req[w].by)
  BY <1>1, <1>2 DEF Local, Uncommitted
<1>12. \A j \in before[req[w].by] : Instant(scans'[j]) <= LastInstant'
  <2>1. before[req[w].by] \subseteq Stored
    BY <1>1, <1>11, RequestType DEF Global, AttemptsMade, Posting
  <2>. QED  BY <1>6, <1>9, <2>1 DEF Global, StoredScans, Stored
<1>13. Local(w)'
  <2>1. Posting(w)' /\ ~HasRow(req[w].by)' /\ req'[w].by = req[w].by
    BY <1>2, <1>6, <1>11 DEF Posting, HasRow, Stored
  <2>2. Tallied(scan[w].row, scan[w].found)'
    BY <1>3 DEF Tallied, severity_counts
  <2>3. \A j \in before'[req'[w].by] : Instant(scans[j])' <= Instant(scan[w].row)'
    BY <1>3, <1>6, <1>12, <2>1 DEF Instant
  <2>4. Instant(scan[w].row)' <= LastInstant'
    BY <1>3, <1>5 DEF Instant
  <2>. QED  BY <1>1, <1>2, <1>3, <1>4, <1>6, <2>1, <2>2, <2>3, <2>4 DEF Local, Uncommitted
<1>14. ASSUME NEW v \in Workers \ {w} PROVE Local(v)'
  <2>1. Local(v)
    BY <1>1
  <2>2. /\ pc'[v] = pc[v] /\ req'[v] = req[v] /\ scan'[v] = scan[v] /\ reply'[v] = reply[v]
        /\ UNCHANGED <<scans, pool, writer, posts, answered, before>>
    BY <1>2, <1>3, <1>4, <1>6
  <2>3. /\ Posting(v)' = Posting(v) /\ Uncommitted(v)' = Uncommitted(v) /\ Stored' = Stored
        /\ HasRow(req[v].by)' = HasRow(req[v].by)
    BY <2>2 DEF Posting, Uncommitted, HasRow, Stored
  <2>4. Instant(scan[v].row)' = Instant(scan[v].row)
    BY <2>2 DEF Instant
  <2>5. \A j : Instant(scans[j])' = Instant(scans[j])
    BY <2>2 DEF Instant
  <2>6. Tallied(scan[v].row, scan[v].found)' = Tallied(scan[v].row, scan[v].found)
    BY <2>2 DEF Tallied, severity_counts
  <2>7. (pc[v] \in {"flush", "insert", "commit"})' =>
           /\ scan'[v].row \in Rows
           /\ scan'[v].row.by = req'[v].by
           /\ Tallied(scan[v].row, scan[v].found)'
           /\ Instant(scan[v].row)' <= LastInstant'
           /\ \A j \in before'[req'[v].by] : Instant(scans[j])' <= Instant(scan[v].row)'
    <3>1. SUFFICES ASSUME pc[v] \in {"flush", "insert", "commit"}
                   PROVE  /\ scan[v].row \in Rows
                          /\ scan[v].row.by = req[v].by
                          /\ Tallied(scan[v].row, scan[v].found)
                          /\ Instant(scan[v].row) <= LastInstant'
                          /\ \A j \in before[req[v].by] :
                                Instant(scans[j]) <= Instant(scan[v].row)
      BY <2>2, <2>4, <2>5, <2>6
    <3>2. scan[v].row \in Rows /\ Instant(scan[v].row) <= LastInstant
      BY <2>1, <3>1 DEF Local
    <3>3. Instant(scan[v].row) \in Int
      BY <3>2, InstantType
    <3>4. Instant(scan[v].row) <= LastInstant'
      BY <1>5, <3>2, <3>3
    <3>. QED  BY <2>1, <3>1, <3>4 DEF Local
  <2>. QED  BY <2>1, <2>2, <2>3, <2>7 DEF Local
<1>. QED  BY <1>1, <1>2, <1>7, <1>8, <1>9, <1>10, <1>13, <1>14, RegroupNext DEF Parts

LEMMA InvCheckout == ASSUME NEW w \in Workers, IInv, Checkout(w) PROVE IInv'
<1>1. TypeOK /\ Local(w) /\ Truthful /\ Cardinality(pool) <= PoolSize
  BY Regroup DEF Parts
<1>2. Quiet /\ UNCHANGED <<writer, req, scan, reply>> /\ pool' = pool \cup {w}
  BY DEF Checkout, Quiet
<1>3. PICK label \in {"insert", "row"} :
          /\ Goto(w, label)
          /\ \/ pc[w] = "flush" /\ label = "insert"
             \/ pc[w] = "select" /\ label = "row"
  BY DEF Checkout
<1>4. pc' \in [Workers -> Labels] /\ pc'[w] = label /\ \A v \in Workers \ {w} : pc'[v] = pc[v]
  <2>1. label \in Labels
    BY DEF Labels
  <2>. QED  BY <1>1, <1>3, <2>1, GotoType
<1>5. TypeOK'
  BY <1>1, <1>2, <1>4, QuietType DEF TypeOK
<1>6. Truthful'
  BY <1>1, <1>2, TruthfulKept
<1>7. Alone(w)
  BY <1>2, <1>4 DEF Alone
<1>8. Cardinality(pool') <= PoolSize
  <2>1. w \notin pool
    BY <1>1 DEF LastInstant, time, Local, Checkout
  <2>2. IsFiniteSet(pool)
    BY <1>1, WorkersAssumption, FS_Subset DEF TypeOK
  <2>3. Cardinality(pool \cup {w}) = Cardinality(pool) + 1
    BY <2>1, <2>2, FS_AddElement
  <2>4. Cardinality(pool) \in Nat
    BY <2>2, FS_CardinalityType
  <2>. QED  BY <1>2, <2>3, <2>4, PoolAssumption DEF Checkout
<1>9. /\ scans' = scans /\ posts' = posts /\ answered' = answered /\ before' = before
      /\ UNCHANGED time
  BY <1>2 DEF Quiet, tables, time, history
<1>10. Local(w)'
  BY <1>1, <1>2, <1>3, <1>4, <1>9
     DEF LastInstant, time, Local, Posting, Uncommitted, HasRow, Stored, Tallied, severity_counts
<1>. QED  BY <1>2, <1>5, <1>6, <1>7, <1>8, <1>10, QuietStep

LEMMA InvBeginWrite == ASSUME NEW w \in Workers, IInv, BeginWrite(w) PROVE IInv'
<1>1. TypeOK /\ Local(w) /\ Truthful /\ Cardinality(pool) <= PoolSize
  BY Regroup DEF Parts
<1>2. Quiet /\ UNCHANGED <<pool, req, scan, reply>> /\ writer' = w /\ writer = NoWorker
  BY DEF BeginWrite, Quiet
<1>3. pc[w] = "insert" /\ Goto(w, "commit")
  BY DEF BeginWrite
<1>4. pc' \in [Workers -> Labels] /\ pc'[w] = "commit" /\ \A v \in Workers \ {w} : pc'[v] = pc[v]
  <2>1. "commit" \in Labels
    BY DEF Labels
  <2>. QED  BY <1>1, <1>3, <2>1, GotoType
<1>5. TypeOK'
  BY <1>1, <1>2, <1>4, QuietType DEF TypeOK
<1>6. Truthful'
  BY <1>1, <1>2, TruthfulKept
<1>7. Alone(w)
  BY <1>2, <1>4, WorkersAssumption DEF Alone
<1>8. /\ scans' = scans /\ posts' = posts /\ answered' = answered /\ before' = before
      /\ UNCHANGED time
  BY <1>2 DEF Quiet, tables, time, history
<1>9. Local(w)'
  BY <1>1, <1>2, <1>3, <1>4, <1>8
     DEF LastInstant, time, Local, Posting, Uncommitted, HasRow, Stored, Tallied, severity_counts
<1>. QED  BY <1>1, <1>2, <1>5, <1>6, <1>7, <1>9, QuietStep

LEMMA InvSelectScan == ASSUME NEW w \in Workers, IInv, SelectScan(w) PROVE IInv'
<1> DEFINE id == scan[w].id
<1>1. TypeOK /\ Local(w) /\ Truthful /\ Cardinality(pool) <= PoolSize
  BY Regroup DEF Parts
<1>2. Quiet /\ UNCHANGED <<pool, req, writer>> /\ pc[w] = "row"
  BY DEF SelectScan, Quiet
<1>3. id \in Ids /\ writer # w
  BY <1>1, <1>2 DEF LastInstant, time, Local
<1>4. ASSUME id > Len(scans) PROVE IInv'
  <2>1. Len(scans) \in Nat /\ id \in Nat
    BY <1>1, <1>3, BoundsAssumption DEF TypeOK, Ids
  <2>2. Respond(w, 404, {}) /\ scan' = scan
    BY <1>4, <2>1 DEF SelectScan
  <2>3. 404 \in Statuses \ {201} /\ 404 \notin {400, 413}
    BY DEF Statuses
  <2>4. scan' \in [Workers -> ScanObjects]
    BY <1>1, <2>2 DEF TypeOK
  <2>. QED  BY <1>2, <1>3, <2>2, <2>3, <2>4, BareAnswer
<1>5. ASSUME id <= Len(scans) PROVE IInv'
  <2>1. id \in Stored /\ scans[id] \in Rows
    BY <1>1, <1>3, <1>5, BoundsAssumption DEF Stored, Ids, TypeOK
  <2>2. scan' = [scan EXCEPT ![w].row = scans[id]] /\ Goto(w, "findings") /\ reply' = reply
    BY <1>5 DEF SelectScan
  <2>3. /\ scan' \in [Workers -> ScanObjects]
        /\ scan'[w].id = id /\ scan'[w].row = scans[id]
        /\ \A v \in Workers \ {w} : scan'[v] = scan[v]
    <3>1. scan \in [Workers -> ScanObjects] /\ scan[w] \in ScanObjects
      BY <1>1 DEF TypeOK
    <3>2. [scan[w] EXCEPT !.row = scans[id]] \in ScanObjects
      BY <2>1, <3>1 DEF ScanObjects
    <3>3. [scan[w] EXCEPT !.row = scans[id]].id = id /\ [scan[w] EXCEPT !.row = scans[id]].row = scans[id]
      BY <3>1 DEF ScanObjects
    <3>. QED  BY <2>2, <3>1, <3>2, <3>3
  <2>4. pc' \in [Workers -> Labels] /\ pc'[w] = "findings" /\ \A v \in Workers \ {w} : pc'[v] = pc[v]
    <3>1. "findings" \in Labels
      BY DEF Labels
    <3>. QED  BY <1>1, <2>2, <3>1, GotoType
  <2>5. TypeOK'
    BY <1>1, <1>2, <2>2, <2>3, <2>4, QuietType DEF TypeOK
  <2>6. Truthful'
    BY <1>1, <1>2, <2>2, TruthfulKept
  <2>7. Alone(w)
    BY <1>2, <2>2, <2>3, <2>4 DEF Alone
  <2>8. scans' = scans /\ posts' = posts /\ answered' = answered
    BY <1>2 DEF Quiet, tables, time, history
  <2>9. Local(w)'
    BY <1>1, <1>2, <1>3, <2>1, <2>3, <2>4, <2>8 DEF LastInstant, time, Local, Posting, Uncommitted, HasRow, Stored
  <2>. QED  BY <1>1, <1>2, <2>5, <2>6, <2>7, <2>9, QuietStep
<1>6. id > Len(scans) \/ id <= Len(scans)
  BY <1>1, <1>3, BoundsAssumption DEF TypeOK, Ids
<1>. QED  BY <1>4, <1>5, <1>6

\* The body a reader makes of its two SELECTs is the one the tables give.
LEMMA ReadBody ==
    ASSUME NEW w \in Workers, IInv, pc[w] = "findings"
    PROVE  /\ scan[w].id \in Stored
           /\ findings[scan[w].id] \in Found
           /\ from_scan(scan[w], findings[scan[w].id]) \in TableBodies
<1>1. TypeOK /\ Local(w)
  BY Regroup DEF Parts
<1>2. scan[w].id \in Stored /\ scan[w].row = scans[scan[w].id]
  BY <1>1 DEF LastInstant, time, Local
<1>3. findings[scan[w].id] \in Found
  BY <1>1, <1>2 DEF TypeOK, Stored
<1>4. from_scan(scan[w], findings[scan[w].id]) = TableBody(scan[w].id)
  BY <1>2 DEF from_scan, TableBody
<1>. QED  BY <1>2, <1>3, <1>4 DEF TableBodies

LEMMA InvSelectFindings == ASSUME NEW w \in Workers, IInv, SelectFindings(w) PROVE IInv'
<1> DEFINE found == findings[scan[w].id]
           body == from_scan(scan[w], found)
<1>1. TypeOK /\ Local(w) /\ Truthful /\ Cardinality(pool) <= PoolSize
  BY Regroup DEF Parts
<1>2. /\ Quiet /\ UNCHANGED <<pool, req, writer>> /\ pc[w] = "findings"
      /\ scan' = [scan EXCEPT ![w].found = found]
  BY DEF SelectFindings, Quiet
<1>3. found \in Found /\ body \in TableBodies /\ scan[w].id \in Stored
  BY <1>2, ReadBody
<1>4. writer # w /\ w \in pool /\ req[w].op \in {"post", "get", "advice"}
  BY <1>1, <1>2 DEF LastInstant, time, Local
<1>5. scan' \in [Workers -> ScanObjects] /\ \A v \in Workers \ {w} : scan'[v] = scan[v]
  <2>1. scan \in [Workers -> ScanObjects] /\ scan[w] \in ScanObjects
    BY <1>1 DEF TypeOK
  <2>2. [scan[w] EXCEPT !.found = found] \in ScanObjects
    BY <1>3, <2>1 DEF ScanObjects
  <2>. QED  BY <1>2, <2>1, <2>2
<1>6. scans' = scans /\ posts' = posts /\ answered' = answered
  BY <1>2 DEF Quiet, tables, time, history
<1>7. ASSUME req[w].op \in {"post", "get"} PROVE IInv'
  <2>1. PICK status \in {200, 201} :
            /\ Respond(w, status, {body})
            /\ status = 201 <=> req[w].op = "post"
    <3>1. req[w].op = "post" => Respond(w, 201, {body})
      BY DEF SelectFindings
    <3>2. req[w].op = "get" => Respond(w, 200, {body})
      BY DEF SelectFindings
    <3>. HIDE DEF body, found
    <3>3. CASE req[w].op = "post"
      <4>. WITNESS 201 \in {200, 201}
      <4>. QED  BY <3>1, <3>3
    <3>4. CASE req[w].op = "get"
      <4>. WITNESS 200 \in {200, 201}
      <4>. QED  BY <3>2, <3>4
    <3>. QED  BY <1>7, <3>3, <3>4
  <2>2. status \in Statuses /\ [status |-> status, body |-> {body}] \in Replies
    BY <1>3 DEF Statuses, Replies
  <2>. HIDE DEF body, found
  <2>3. /\ Truthful'
        /\ pc' \in [Workers -> Labels]
        /\ pc'[w] = "answer" /\ reply'[w].status = status
        /\ \A v \in Workers : reply'[v].status \in Statuses
        /\ \A v \in Workers \ {w} : pc'[v] = pc[v] /\ reply'[v] = reply[v]
    BY <1>1, <1>2, <2>1, <2>2, RespondStep
  <2>4. TypeOK'
    BY <1>1, <1>2, <1>5, <2>3, QuietType DEF TypeOK
  <2>5. Alone(w)
    BY <1>2, <1>5, <2>3 DEF Alone
  <2>6. Posting(w) => HasRow(req[w].by)
    BY <1>1, <1>2, <1>3 DEF LastInstant, time, Local, HasRow
  <2>7. Local(w)'
    BY <1>1, <1>2, <1>4, <1>6, <2>1, <2>3, <2>6 DEF LastInstant, time, Local, Posting, Uncommitted, HasRow, Stored
  <2>. QED  BY <1>1, <1>2, <2>3, <2>4, <2>5, <2>7, QuietStep
<1>8. ASSUME req[w].op = "advice" PROVE IInv'
  <2>1. Goto(w, "advise") /\ reply' = reply
    BY <1>8 DEF SelectFindings
  <2>2. pc' \in [Workers -> Labels] /\ pc'[w] = "advise" /\ \A v \in Workers \ {w} : pc'[v] = pc[v]
    <3>1. "advise" \in Labels
      BY DEF Labels
    <3>. QED  BY <1>1, <2>1, <3>1, GotoType
  <2>3. TypeOK'
    BY <1>1, <1>2, <1>5, <2>1, <2>2, QuietType DEF TypeOK
  <2>4. Truthful'
    BY <1>1, <1>2, <2>1, TruthfulKept
  <2>5. Alone(w)
    BY <1>2, <1>5, <2>1, <2>2 DEF Alone
  <2>6. Local(w)'
    BY <1>1, <1>2, <1>4, <1>6, <2>2 DEF LastInstant, time, Local, Posting, Uncommitted, HasRow, Stored
  <2>. QED  BY <1>1, <1>2, <2>3, <2>4, <2>5, <2>6, QuietStep
<1>. QED  BY <1>4, <1>7, <1>8

-----------------------------------------------------------------------------
\* Releasing a connection keeps the pool within its size.
LEMMA PoolShrinks ==
    ASSUME TypeOK, Cardinality(pool) <= PoolSize, NEW p \in SUBSET pool
    PROVE  Cardinality(p) <= PoolSize
<1>1. IsFiniteSet(pool)
  BY WorkersAssumption, FS_Subset DEF TypeOK
<1>2. IsFiniteSet(p) /\ Cardinality(p) <= Cardinality(pool)
  BY <1>1, FS_Subset
<1>3. Cardinality(pool) \in Nat /\ Cardinality(p) \in Nat
  BY <1>1, <1>2, FS_CardinalityType
<1>. QED  BY <1>2, <1>3, PoolAssumption

\* A read or an advice request arrives: it belongs to no attempt.
LEMMA InvReceiveRead ==
    ASSUME NEW w \in Workers, NEW r \in Requests, IInv, Receive(w, r), r.op # "post"
    PROVE  IInv'
<1>1. /\ TypeOK /\ Local(w) /\ Truthful /\ Global /\ Distinct /\ Cardinality(pool) <= PoolSize
      /\ \A v \in Workers : Local(v)
  BY Regroup DEF Parts
<1>2. r.op \in {"get", "advice"} /\ r.id \in Ids
  BY DEF Requests
<1>3. /\ Quiet /\ pc[w] = "idle" /\ Goto(w, "select")
      /\ req' = [req EXCEPT ![w] = r] /\ scan' = [scan EXCEPT ![w].id = r.id]
      /\ UNCHANGED <<writer, pool, reply>>
  BY <1>2 DEF Receive, Quiet, history
<1>4. pc' \in [Workers -> Labels] /\ pc'[w] = "select" /\ \A v \in Workers \ {w} : pc'[v] = pc[v]
  <2>1. "select" \in Labels
    BY DEF Labels
  <2>. QED  BY <1>1, <1>3, <2>1, GotoType
<1>5. /\ scan' \in [Workers -> ScanObjects] /\ scan'[w].id = r.id
      /\ \A v \in Workers \ {w} : scan'[v] = scan[v]
  <2>1. scan \in [Workers -> ScanObjects] /\ scan[w] \in ScanObjects
    BY <1>1 DEF TypeOK
  <2>2. [scan[w] EXCEPT !.id = r.id] \in ScanObjects /\ [scan[w] EXCEPT !.id = r.id].id = r.id
    BY <1>2, <2>1, BoundsAssumption DEF ScanObjects, Ids
  <2>. QED  BY <1>3, <2>1, <2>2
<1>6. /\ req' \in [Workers -> Requests \cup {NoRequest}] /\ req'[w] = r
      /\ \A v \in Workers \ {w} : req'[v] = req[v]
  BY <1>1, <1>3 DEF TypeOK
<1>7. TypeOK'
  BY <1>1, <1>3, <1>4, <1>5, <1>6, QuietType DEF TypeOK
<1>8. Truthful' /\ Global'
  BY <1>1, <1>3, TruthfulKept, QuietGlobal
<1>9. Distinct'
  BY <1>1, <1>2, <1>6 DEF Distinct, Posting
<1>10. Local(w)'
  BY <1>1, <1>2, <1>3, <1>4, <1>5, <1>6 DEF LastInstant, time, Local, Posting, Uncommitted
<1>11. ASSUME NEW v \in Workers \ {w} PROVE Local(v)'
  <2>1. Local(v)
    BY <1>1
  <2>2. UNCHANGED <<scans, time, posts, answered, before>>
    BY <1>3 DEF Quiet, tables, time, history
  <2>. QED  BY <1>3, <1>4, <1>5, <1>6, <2>1, <2>2 DEF LastInstant, time, Local, Posting, Uncommitted, HasRow, Stored
<1>. QED  BY <1>1, <1>3, <1>7, <1>8, <1>9, <1>10, <1>11, RegroupNext DEF Parts

\* A POST arrives: a new attempt, with no row, no answer and no other worker.
LEMMA InvReceivePost ==
    ASSUME NEW w \in Workers, NEW r \in Requests, IInv, Receive(w, r), r.op = "post"
    PROVE  IInv'
<1>1. /\ TypeOK /\ Local(w) /\ Truthful /\ Global /\ Distinct /\ Cardinality(pool) <= PoolSize
      /\ \A v \in Workers : Local(v)
  BY Regroup DEF Parts
<1>2. /\ pc[w] = "idle" /\ Goto(w, "parse")
      /\ req' = [req EXCEPT ![w] = r] /\ scan' = [scan EXCEPT ![w].id = 0]
      /\ posts < MaxPosts /\ r.by = posts + 1 /\ posts' = posts + 1
      /\ before' = [before EXCEPT ![r.by] = {b.id : b \in shown}]
      /\ UNCHANGED <<scans, findings, writer, pool, reply, time, crashes, answered, shown>>
  BY DEF Receive, tables
<1>3. posts \in Nat /\ Len(scans) \in Nat /\ r.by \in Attempts /\ posts' \in 0..MaxPosts
      /\ Len(scans) <= posts /\ posts <= MaxPosts /\ MaxPosts \in Nat
  BY <1>1, <1>2, BoundsAssumption DEF TypeOK, Attempts
<1>4. \A i \in Stored : scans[i] \in Rows /\ scans[i].by \in Nat /\ scans[i].by # r.by
  <2>1. ASSUME NEW i \in Stored PROVE scans[i] \in Rows /\ scans[i].by \in Nat
    <3>1. scans[i] \in Rows
      BY <1>1 DEF Stored, TypeOK
    <3>. QED  BY <3>1, BoundsAssumption DEF Rows, Attempts
  <2>2. \A i \in Stored : scans[i].by <= posts
    BY <1>1 DEF Global, OneRowPerAttempt
  <2>. QED  BY <1>2, <1>3, <2>1, <2>2
<1>5. \A v \in Workers : Posting(v) => req[v].by \in Nat /\ req[v].by <= posts /\ req[v].by # r.by
  <2>1. ASSUME NEW v \in Workers, Posting(v) PROVE req[v].by \in Nat /\ req[v].by <= posts
    BY <1>1, <2>1, RequestType DEF LastInstant, time, Local, Posting, Attempts
  <2>. QED  BY <1>2, <1>3, <2>1
<1>6. {b.id : b \in shown} \subseteq Stored
  BY <1>1 DEF Truthful, TableBodies, TableBody
<1>7. /\ before' \in [Attempts -> SUBSET Ids] /\ before'[r.by] \subseteq Stored
      /\ \A a \in Attempts \ {r.by} : before'[a] = before[a]
  <2>1. Stored \subseteq Ids
    BY <1>3 DEF Stored, Ids
  <2>. QED  BY <1>1, <1>2, <1>3, <1>6, <2>1 DEF TypeOK
<1>8. pc' \in [Workers -> Labels] /\ pc'[w] = "parse" /\ \A v \in Workers \ {w} : pc'[v] = pc[v]
  <2>1. "parse" \in Labels
    BY DEF Labels
  <2>. QED  BY <1>1, <1>2, <2>1, GotoType
<1>9. /\ scan' \in [Workers -> ScanObjects]
      /\ \A v \in Workers \ {w} : scan'[v] = scan[v]
  <2>1. scan \in [Workers -> ScanObjects] /\ scan[w] \in ScanObjects
    BY <1>1 DEF TypeOK
  <2>2. [scan[w] EXCEPT !.id = 0] \in ScanObjects
    BY <2>1, BoundsAssumption DEF ScanObjects
  <2>. QED  BY <1>2, <2>1, <2>2
<1>10. /\ req' \in [Workers -> Requests \cup {NoRequest}] /\ req'[w] = r
       /\ \A v \in Workers \ {w} : req'[v] = req[v]
  BY <1>1, <1>2 DEF TypeOK
<1>11. TypeOK'
  BY <1>1, <1>2, <1>3, <1>7, <1>8, <1>9, <1>10 DEF time, TypeOK
<1>12. Truthful'
  <2>1. TableBodies' = TableBodies /\ Replies' = Replies
    BY <1>2, BodiesKept DEF tables
  <2>. QED  BY <1>1, <1>2, <2>1 DEF Truthful
<1>13. Global'
  <2>1. StoredScans'
    BY <1>1, <1>2 DEF LastInstant, time, Global, StoredScans, Stored, Tallied, severity_counts
  <2>2. OneRowPerAttempt'
    <3>1. \A i \in Stored : scans[i].by <= posts'
      BY <1>1, <1>2, <1>3, <1>4 DEF Global, OneRowPerAttempt
    <3>. QED  BY <1>1, <1>2, <3>1 DEF Global, OneRowPerAttempt, Stored
  <2>3. AttemptsMade'
    <3>1. \A a \in Attempts : a > posts' => a > posts
      BY <1>2, <1>3 DEF Attempts
    <3>2. \A a \in Attempts : before'[a] \subseteq Stored
      BY <1>1, <1>7 DEF Global, AttemptsMade
    <3>. QED  BY <1>1, <1>2, <3>1, <3>2 DEF Global, AttemptsMade, Stored
  <2>4. StatusTellsOutcome'
    BY <1>1, <1>2 DEF Global, StatusTellsOutcome
  <2>5. NewestFirst'
    <3>1. \A i \in Stored : before'[scans[i].by] = before[scans[i].by]
      BY <1>4, <1>7 DEF Rows
    <3>2. \A i \in Stored : \A j \in before'[scans[i].by] : Newer(i, j) \/ SetBackBetween(i, j)
      BY <1>1, <3>1 DEF Global, NewestFirst, Stored
    <3>3. \A i, j : Newer(i, j) \/ SetBackBetween(i, j) => (Newer(i, j) \/ SetBackBetween(i, j))'
      BY <1>2 DEF Newer, SetBackBetween
    <3>4. scans' = scans /\ Stored' = Stored
      BY <1>2 DEF Stored
    <3>. QED  BY <3>2, <3>3, <3>4 DEF NewestFirst, Stored
  <2>. QED  BY <2>1, <2>2, <2>3, <2>4, <2>5 DEF Global
<1>14. Distinct'
  BY <1>1, <1>5, <1>10 DEF Distinct, Posting
<1>15. Local(w)'
  <2>1. r.by \in Attempts /\ r.by > posts
    BY <1>2, <1>3
  <2>2. answered'[r.by] = 0 /\ r.by <= posts'
    BY <1>1, <1>2, <1>3, <2>1 DEF Global, AttemptsMade
  <2>3. ~HasRow(r.by)'
    BY <1>2, <1>4 DEF HasRow, Stored
  <2>. QED  BY <1>1, <1>2, <1>8, <1>10, <2>2, <2>3 DEF LastInstant, time, Local, Posting, Uncommitted
<1>16. ASSUME NEW v \in Workers \ {w} PROVE Local(v)'
  <2>1. Local(v)
    BY <1>1
  <2>2. Posting(v) => req[v].by <= posts' /\ before'[req[v].by] = before[req[v].by]
    BY <1>1, <1>2, <1>3, <1>5, <1>7, RequestType DEF Posting
  <2>. QED  BY <1>2, <1>8, <1>9, <1>10, <2>1, <2>2
            DEF LastInstant, time, Local, Posting, Uncommitted, HasRow, Stored, Tallied, severity_counts
<1>. QED  BY <1>1, <1>2, <1>11, <1>12, <1>13, <1>14, <1>15, <1>16, RegroupNext DEF Parts

\* A worker whose request is over promises nothing.
LEMMA ForgetStep ==
    ASSUME NEW ws \in SUBSET Workers, TypeOK, Forget(ws),
           reply \in [Workers -> Replies]
    PROVE  /\ pc' \in [Workers -> Labels]
           /\ req' \in [Workers -> Requests \cup {NoRequest}]
           /\ scan' \in [Workers -> ScanObjects]
           /\ reply' \in [Workers -> Replies]
           /\ \A w \in ws : pc'[w] = "idle" /\ req'[w].op = "none"
           /\ \A w \in Workers \ ws :
                 pc'[w] = pc[w] /\ req'[w] = req[w] /\ scan'[w] = scan[w] /\ reply'[w] = reply[w]
<1>1. "idle" \in Labels /\ NoRequest.op = "none"
  BY DEF Labels, NoRequest
<1>2. NoScan \in ScanObjects
  BY BoundsAssumption DEF NoScan, ScanObjects, Found
<1>3. NoReply \in Replies
  BY DEF NoReply, Statuses, Replies
<1>4. pc' \in [Workers -> Labels]
  BY <1>1 DEF Forget, TypeOK
<1>5. req' \in [Workers -> Requests \cup {NoRequest}]
  BY DEF Forget, TypeOK
<1>6. scan' \in [Workers -> ScanObjects]
  BY <1>2 DEF Forget, TypeOK
<1>7. reply' \in [Workers -> Replies]
  BY <1>3 DEF Forget
<1>8. \A w \in ws : pc'[w] = "idle" /\ req'[w].op = "none"
  BY <1>1 DEF Forget
<1>9. \A w \in Workers \ ws :
         pc'[w] = pc[w] /\ req'[w] = req[w] /\ scan'[w] = scan[w] /\ reply'[w] = reply[w]
  BY DEF Forget
<1>. QED  BY <1>4, <1>5, <1>6, <1>7, <1>8, <1>9

LEMMA InvCrash == ASSUME IInv, Crash PROVE IInv'
<1>1. TypeOK /\ Truthful /\ Global /\ Cardinality(pool) <= PoolSize
  BY Regroup DEF Parts
<1>2. /\ Forget(Workers) /\ pool' = {} /\ writer' = NoWorker
      /\ crashes' \in 0..MaxCrashes
      /\ UNCHANGED <<scans, findings, time, posts, answered, shown, before>>
  BY <1>1, BoundsAssumption DEF Crash, TypeOK, tables, time, history
<1>3. /\ pc' \in [Workers -> Labels]
      /\ req' \in [Workers -> Requests \cup {NoRequest}]
      /\ scan' \in [Workers -> ScanObjects]
      /\ reply' \in [Workers -> Replies]
      /\ \A w \in Workers : pc'[w] = "idle" /\ req'[w].op = "none"
  BY <1>1, <1>2, ForgetStep DEF Truthful
<1>4. TypeOK'
  BY <1>1, <1>2, <1>3 DEF time, TypeOK, Replies
<1>5. Truthful'
  <2>1. TableBodies' = TableBodies /\ Replies' = Replies
    BY <1>2, BodiesKept DEF tables
  <2>. QED  BY <1>1, <1>2, <1>3, <2>1 DEF Truthful
<1>6. Global'
  <2>1. StoredScans'
    BY <1>1, <1>2 DEF LastInstant, time, Global, StoredScans, Stored, Tallied, severity_counts
  <2>2. OneRowPerAttempt' /\ AttemptsMade'
    BY <1>1, <1>2 DEF Global, OneRowPerAttempt, AttemptsMade, Stored
  <2>3. StatusTellsOutcome' /\ NewestFirst'
    BY <1>1, <1>2 DEF Global, StatusTellsOutcome, NewestFirst, Newer, SetBackBetween
  <2>. QED  BY <2>1, <2>2, <2>3 DEF Global
<1>7. Distinct'
  BY <1>3 DEF Distinct, Posting
<1>8. Cardinality(pool') <= PoolSize
  BY <1>1, <1>2, PoolShrinks
<1>9. \A v \in Workers : Local(v)'
  BY <1>2, <1>3, WorkersAssumption DEF LastInstant, time, Local, Posting, Uncommitted
<1>. QED  BY <1>4, <1>5, <1>6, <1>7, <1>8, <1>9, RegroupNext DEF Parts

LEMMA InvAnswer == ASSUME NEW w \in Workers, IInv, Answer(w) PROVE IInv'
<1>1. /\ TypeOK /\ Local(w) /\ Truthful /\ Global /\ Distinct /\ Cardinality(pool) <= PoolSize
      /\ \A v \in Workers : Local(v)
  BY Regroup DEF Parts
<1>2. /\ Forget({w}) /\ pool' = pool \ {w} /\ pc[w] = "answer"
      /\ shown' = shown \cup reply[w].body
      /\ answered' = IF Posting(w) THEN [answered EXCEPT ![req[w].by] = reply[w].status]
                     ELSE answered
      /\ UNCHANGED <<scans, findings, writer, time, crashes, posts, before>>
  BY DEF Answer, tables, Posting
<1>3. reply[w].status \in Statuses /\ reply[w].body \subseteq TableBodies
  BY <1>1 DEF Truthful, Replies
<1>4. /\ pc' \in [Workers -> Labels]
      /\ req' \in [Workers -> Requests \cup {NoRequest}]
      /\ scan' \in [Workers -> ScanObjects]
      /\ reply' \in [Workers -> Replies]
      /\ pc'[w] = "idle" /\ req'[w].op = "none"
      /\ \A v \in Workers \ {w} :
            pc'[v] = pc[v] /\ req'[v] = req[v] /\ scan'[v] = scan[v] /\ reply'[v] = reply[v]
  BY <1>1, <1>2, ForgetStep DEF Truthful
<1>5. /\ answered' \in [Attempts -> Statuses]
      /\ Posting(w) => answered'[req[w].by] = reply[w].status /\ req[w].by \in Attempts
      /\ \A a \in Attempts : ~(Posting(w) /\ a = req[w].by) => answered'[a] = answered[a]
  <2>1. answered \in [Attempts -> Statuses]
    BY <1>1 DEF TypeOK
  <2>2. Posting(w) => req[w].by \in Attempts
    BY <1>1, RequestType DEF Posting
  <2>. QED  BY <1>2, <1>3, <2>1, <2>2
<1>6. TypeOK'
  <2>1. pool' \subseteq Workers /\ \A v \in Workers : reply'[v].status \in Statuses
    BY <1>1, <1>2, <1>4 DEF TypeOK, Replies
  <2>. QED  BY <1>1, <1>2, <1>4, <1>5, <2>1 DEF time, TypeOK
<1>7. Truthful'
  <2>1. TableBodies' = TableBodies /\ Replies' = Replies
    BY <1>2, BodiesKept DEF tables
  <2>. QED  BY <1>1, <1>2, <1>3, <1>4, <2>1 DEF Truthful
<1>8. Global'
  <2>1. StoredScans'
    BY <1>1, <1>2 DEF LastInstant, time, Global, StoredScans, Stored, Tallied, severity_counts
  <2>2. OneRowPerAttempt'
    BY <1>1, <1>2 DEF Global, OneRowPerAttempt, Stored
  <2>3. AttemptsMade'
    <3>1. Posting(w) => ~(req[w].by > posts)
      BY <1>1, <1>5, BoundsAssumption DEF LastInstant, time, Local, TypeOK, Attempts
    <3>. QED  BY <1>1, <1>2, <1>5, <3>1 DEF Global, AttemptsMade, Stored
  <2>4. StatusTellsOutcome'
    <3>1. Posting(w) => /\ reply[w].status = 201 => HasRow(req[w].by)
                        /\ reply[w].status \in {400, 413} => ~HasRow(req[w].by)
      BY <1>1, <1>2 DEF LastInstant, time, Local
    <3>. QED  BY <1>1, <1>2, <1>5, <3>1 DEF Global, StatusTellsOutcome, HasRow, Stored
  <2>5. NewestFirst'
    BY <1>1, <1>2 DEF Global, NewestFirst, Newer, SetBackBetween
  <2>. QED  BY <2>1, <2>2, <2>3, <2>4, <2>5 DEF Global
<1>9. Distinct'
  BY <1>1, <1>4 DEF Distinct, Posting
<1>10. Cardinality(pool') <= PoolSize
  BY <1>1, <1>2, PoolShrinks
<1>11. Local(w)'
  BY <1>1, <1>2, <1>4 DEF LastInstant, time, Local, Posting, Uncommitted
<1>12. ASSUME NEW v \in Workers \ {w} PROVE Local(v)'
  <2>1. Local(v)
    BY <1>1
  <2>2. Posting(v) => answered'[req[v].by] = answered[req[v].by]
    BY <1>1, <1>5, RequestType DEF Distinct, Posting
  <2>3. /\ pc'[v] = pc[v] /\ req'[v] = req[v] /\ scan'[v] = scan[v] /\ reply'[v] = reply[v]
        /\ v \in pool' <=> v \in pool
        /\ UNCHANGED <<scans, writer, time, posts, before>>
    BY <1>2, <1>4
  <2>. QED  BY <2>1, <2>2, <2>3
            DEF LastInstant, time, Local, Posting, Uncommitted, HasRow, Stored, Tallied, severity_counts
<1>. QED  BY <1>6, <1>7, <1>8, <1>9, <1>10, <1>11, <1>12, RegroupNext DEF Parts

\* What the tables are after a commit: one more row, about the worker's attempt.
LEMMA CommitTables ==
    ASSUME NEW w \in Workers, IInv, Commit(w)
    PROVE  /\ scans' \in Seq(Rows) /\ findings' \in Seq(Found)
           /\ Len(scans) \in Nat /\ Len(findings) = Len(scans)
           /\ Len(scans') = Len(scans) + 1 /\ Len(findings') = Len(scans')
           /\ \A i \in Stored : scans'[i] = scans[i] /\ findings'[i] = findings[i]
           /\ scans'[Len(scans) + 1] = scan[w].row
           /\ findings'[Len(scans) + 1] = scan[w].found
           /\ Stored' = Stored \cup {Len(scans) + 1} /\ Len(scans) + 1 \notin Stored
           /\ \A i \in Stored : i \in Nat /\ i < Len(scans) + 1
<1>1. TypeOK /\ Local(w)
  BY Regroup DEF Parts
<1>2. scan[w].row \in Rows /\ scan[w].found \in Found
  BY <1>1 DEF LastInstant, time, Local, Commit, TypeOK, ScanObjects
<1>3. /\ scans' = Append(scans, scan[w].row) /\ findings' = Append(findings, scan[w].found)
      /\ scans \in Seq(Rows) /\ findings \in Seq(Found) /\ Len(findings) = Len(scans)
  BY <1>1 DEF Commit, TypeOK
<1>4. scans' \in Seq(Rows) /\ findings' \in Seq(Found)
  BY <1>2, <1>3
<1>5. Len(scans) \in Nat /\ Len(scans') = Len(scans) + 1 /\ Len(findings') = Len(scans) + 1
  BY <1>2, <1>3
<1>6. \A i \in Stored : scans'[i] = scans[i] /\ findings'[i] = findings[i]
  BY <1>2, <1>3, <1>5 DEF Stored
<1>7. /\ scans'[Len(scans) + 1] = scan[w].row
      /\ findings'[Len(scans) + 1] = scan[w].found
  BY <1>2, <1>3, <1>5
<1>8. /\ Stored' = Stored \cup {Len(scans) + 1} /\ Len(scans) + 1 \notin Stored
      /\ \A i \in Stored : i \in Nat /\ i < Len(scans) + 1
  BY <1>5 DEF Stored
<1>. QED  BY <1>3, <1>4, <1>5, <1>6, <1>7, <1>8

\* Rows stay as they are, so bodies that were true stay true.
LEMMA CommitKeepsBodies ==
    ASSUME NEW w \in Workers, IInv, Commit(w)
    PROVE  TableBodies \subseteq TableBodies'
<1>1. ASSUME NEW i \in Stored PROVE TableBody(i) \in TableBodies'
  <2>1. i \in Stored' /\ scans'[i] = scans[i] /\ findings'[i] = findings[i]
    BY CommitTables
  <2>2. TableBody(i)' = TableBody(i)
    BY <2>1 DEF TableBody
  <2>. QED  BY <2>1, <2>2 DEF TableBodies
<1>. QED  BY <1>1 DEF TableBodies

LEMMA InvCommit == ASSUME NEW w \in Workers, IInv, Commit(w) PROVE IInv'
<1> DEFINE id == Len(scans) + 1
           by == req[w].by
<1>1. /\ TypeOK /\ Local(w) /\ Truthful /\ Global /\ Distinct /\ Cardinality(pool) <= PoolSize
      /\ \A v \in Workers : Local(v)
  BY Regroup DEF Parts
<1>2. /\ pc[w] = "commit" /\ Goto(w, "select") /\ writer' = NoWorker /\ pool' = pool \ {w}
      /\ scan' = [scan EXCEPT ![w] = [NoScan EXCEPT !.id = id]]
      /\ UNCHANGED <<req, reply, time, crashes, posts, answered, shown, before>>
  BY DEF Commit, history
<1>3. /\ Posting(w) /\ ~HasRow(by) /\ by \in Attempts /\ by <= posts /\ answered[by] = 0
      /\ scan[w].row \in Rows /\ scan[w].row.by = by
      /\ Tallied(scan[w].row, scan[w].found) /\ Instant(scan[w].row) <= LastInstant
      /\ \A j \in before[by] : Instant(scans[j]) <= Instant(scan[w].row)
      /\ writer = w
  BY <1>1, <1>2, RequestType DEF LastInstant, time, Local, Posting, Uncommitted
<1>4. /\ scans' \in Seq(Rows) /\ findings' \in Seq(Found)
      /\ Len(scans) \in Nat /\ Len(findings) = Len(scans)
      /\ Len(scans') = Len(scans) + 1 /\ Len(findings') = Len(scans')
      /\ \A i \in Stored : scans'[i] = scans[i] /\ findings'[i] = findings[i]
      /\ scans'[id] = scan[w].row /\ findings'[id] = scan[w].found
      /\ Stored' = Stored \cup {id} /\ id \notin Stored
      /\ \A i \in Stored : i \in Nat /\ i < id
  BY CommitTables
<1>. HIDE DEF id, by
<1>5. OneRowPerAttempt'
  <2>1. \A i \in Stored' : scans'[i].by <= posts
    BY <1>1, <1>3, <1>4 DEF Global, OneRowPerAttempt
  <2>2. \A i, j \in Stored' : scans'[i].by = scans'[j].by => i = j
    BY <1>1, <1>3, <1>4 DEF Global, OneRowPerAttempt, HasRow
  <2>. QED  BY <1>2, <2>1, <2>2 DEF OneRowPerAttempt
<1>6. Len(scans') <= posts /\ id \in Ids
  <2>1. posts \in Nat /\ posts <= MaxPosts /\ MaxPosts \in Nat
    BY <1>1, BoundsAssumption DEF TypeOK
  <2>2. /\ \A i \in 1..Len(scans') : scans'[i].by <= posts
        /\ \A i, j \in 1..Len(scans') : scans'[i].by = scans'[j].by => i = j
    BY <1>2, <1>5 DEF OneRowPerAttempt, Stored
  <2>3. Len(scans') <= posts
    BY <1>4, <2>1, <2>2, RowsBounded
  <2>. QED  BY <1>4, <2>1, <2>3 DEF Ids, id
<1>7. pc' \in [Workers -> Labels] /\ pc'[w] = "select" /\ \A v \in Workers \ {w} : pc'[v] = pc[v]
  <2>1. "select" \in Labels
    BY DEF Labels
  <2>. QED  BY <1>1, <1>2, <2>1, GotoType
<1>8. /\ scan' \in [Workers -> ScanObjects] /\ scan'[w].id = id
      /\ \A v \in Workers \ {w} : scan'[v] = scan[v]
  <2>1. scan \in [Workers -> ScanObjects]
    BY <1>1 DEF TypeOK
  <2>2. [NoScan EXCEPT !.id = id] \in ScanObjects /\ [NoScan EXCEPT !.id = id].id = id
    BY <1>6, BoundsAssumption DEF NoScan, ScanObjects, Ids, Found
  <2>. QED  BY <1>2, <2>1, <2>2
<1>9. TypeOK'
  BY <1>1, <1>2, <1>4, <1>6, <1>7, <1>8 DEF time, TypeOK
<1>10. Truthful'
  BY <1>1, <1>2, CommitKeepsBodies DEF Truthful, Replies
<1>11. StoredScans'
  <2>1. ASSUME NEW i \in Stored PROVE Tallied(scans'[i], findings'[i]) /\ Instant(scans'[i]) <= LastInstant
    BY <1>1, <1>4 DEF LastInstant, time, Global, StoredScans
  <2>2. Tallied(scans'[id], findings'[id]) /\ Instant(scans'[id]) <= LastInstant
    BY <1>3, <1>4
  <2>3. \A i \in Stored' : Tallied(scans'[i], findings'[i]) /\ Instant(scans'[i]) <= LastInstant
    BY <1>4, <2>1, <2>2
  <2>. QED  BY <1>2, <2>3 DEF LastInstant, time, StoredScans, Tallied, severity_counts
<1>12. AttemptsMade'
  BY <1>1, <1>2, <1>4 DEF Global, AttemptsMade
<1>13. \A a \in Attempts : HasRow(a)' <=> HasRow(a) \/ a = by
  BY <1>3, <1>4 DEF HasRow
<1>14. StatusTellsOutcome'
  <2>1. \A a \in Attempts : answered[a] = 201 => HasRow(a)'
    BY <1>1, <1>13 DEF Global, StatusTellsOutcome, HasRow, Stored
  <2>2. \A a \in Attempts : answered[a] \in {400, 413} => ~HasRow(a)'
    BY <1>1, <1>3, <1>13 DEF Global, StatusTellsOutcome, HasRow, Stored
  <2>. QED  BY <1>2, <2>1, <2>2 DEF StatusTellsOutcome, HasRow, Stored
<1>15. NewestFirst'
  <2> DEFINE InOrder(i, j) ==
        \/ scans'[i].created_at > scans'[j].created_at
        \/ scans'[i].created_at = scans'[j].created_at /\ i > j
        \/ /\ 0 < scans'[j].created_at - scans'[i].created_at
           /\ scans'[j].created_at - scans'[i].created_at <= scans'[i].setback - scans'[j].setback
  <2>1. ASSUME NEW i \in Stored, NEW j \in before[scans'[i].by] PROVE InOrder(i, j)
    <3>1. scans[i] \in Rows /\ scans'[i] = scans[i]
      BY <1>1, <1>4 DEF Stored, TypeOK
    <3>2. scans[i].by \in Attempts
      BY <3>1 DEF Rows
    <3>3. j \in Stored /\ (Newer(i, j) \/ SetBackBetween(i, j))
      BY <1>1, <2>1, <3>1, <3>2 DEF Global, AttemptsMade, NewestFirst, Stored
    <3>. QED  BY <1>4, <3>1, <3>3 DEF Newer, SetBackBetween
  <2>2. ASSUME NEW j \in before[by] PROVE InOrder(id, j)
    <3>1. j \in Stored
      BY <1>1, <1>3, <2>2 DEF Global, AttemptsMade
    <3>2. scans'[j] \in Rows /\ scans'[id] \in Rows
      BY <1>3, <1>4, <1>1, <3>1 DEF Stored, TypeOK
    <3>3. /\ scans'[j].created_at \in Nat /\ scans'[id].created_at \in Nat
          /\ scans'[j].setback \in Nat /\ scans'[id].setback \in Nat
      BY <3>2, BoundsAssumption DEF Rows
    <3>4. Instant(scans'[j]) <= Instant(scans'[id]) /\ j < id /\ j \in Nat /\ id \in Nat
      BY <1>3, <1>4, <2>2, <3>1 DEF id
    <3>5. /\ \/ scans'[id].created_at >= scans'[j].created_at
             \/ scans'[id].created_at < scans'[j].created_at
          /\ scans'[j].created_at + scans'[j].setback <= scans'[id].created_at + scans'[id].setback
      BY <3>3, <3>4 DEF Instant
    <3>6. CASE scans'[id].created_at >= scans'[j].created_at
      BY <3>3, <3>4, <3>6
    <3>7. CASE scans'[id].created_at < scans'[j].created_at
      BY <3>3, <3>5, <3>7
    <3>. QED  BY <3>5, <3>6, <3>7
  <2>. HIDE DEF InOrder
  <2>3. scans'[id].by = by
    BY <1>3, <1>4
  <2>4. \A i \in Stored' : \A j \in before[scans'[i].by] : InOrder(i, j)
    BY <1>4, <2>1, <2>2, <2>3
  <2>. QED  BY <1>2, <2>4 DEF NewestFirst, Newer, SetBackBetween, InOrder, Stored
<1>16. Global'
  BY <1>5, <1>11, <1>12, <1>14, <1>15 DEF Global
<1>17. Distinct'
  BY <1>1, <1>2 DEF Distinct, Posting
<1>18. Cardinality(pool') <= PoolSize
  BY <1>1, <1>2, PoolShrinks
<1>19. Local(w)'
  BY <1>2, <1>3, <1>4, <1>6, <1>7, <1>8, WorkersAssumption
     DEF LastInstant, time, Local, Posting, Uncommitted, by
<1>20. ASSUME NEW v \in Workers \ {w} PROVE Local(v)'
  <2>1. Local(v)
    BY <1>1
  <2>2. /\ pc'[v] = pc[v] /\ req'[v] = req[v] /\ scan'[v] = scan[v] /\ reply'[v] = reply[v]
        /\ v \in pool' <=> v \in pool
        /\ writer' # v /\ writer # v
        /\ UNCHANGED <<time, posts, answered, before>>
    BY <1>2, <1>3, <1>7, <1>8, WorkersAssumption
  <2>3. Posting(v) => req[v].by \in Attempts /\ (HasRow(req[v].by)' <=> HasRow(req[v].by))
    <3>1. Posting(v) => req[v].by \in Attempts /\ req[v].by # by
      BY <1>1, <1>3, RequestType DEF Distinct, Posting, by
    <3>. QED  BY <1>2, <1>13, <3>1 DEF HasRow
  <2>4. Posting(v) => \A j \in before[req[v].by] : scans'[j] = scans[j]
    BY <1>1, <1>4, <2>3 DEF Global, AttemptsMade
  <2>5. ASSUME pc[v] \in {"select", "row", "findings"}, scan[v].id \in Stored
        PROVE  scan[v].id \in Stored' /\ scans'[scan[v].id] = scans[scan[v].id]
    BY <1>4, <2>5
  <2>. QED  BY <2>1, <2>2, <2>3, <2>4, <2>5
            DEF LastInstant, time, Local, Posting, Uncommitted, HasRow, Tallied, severity_counts
<1>. QED  BY <1>9, <1>10, <1>16, <1>17, <1>18, <1>19, <1>20, RegroupNext DEF Parts

-----------------------------------------------------------------------------
LEMMA InvInit == Init => IInv
<1> SUFFICES ASSUME Init PROVE IInv
  OBVIOUS
<1>. USE WorkersAssumption, PoolAssumption, BoundsAssumption
<1>1. /\ scans = << >> /\ findings = << >> /\ Len(scans) = 0 /\ Stored = {}
      /\ shown = {} /\ pool = {} /\ posts = 0 /\ writer = NoWorker /\ clock = 0 /\ setback = 0
  BY DEF Init, Stored
<1>2. \A w \in Workers : /\ pc[w] = "idle" /\ req[w] = NoRequest /\ req[w].op = "none"
                         /\ scan[w] = NoScan /\ reply[w] = NoReply
  BY DEF Init, NoRequest
<1>3. NoScan \in ScanObjects /\ NoReply.status \in Statuses
  BY DEF NoScan, ScanObjects, Found, NoReply, Statuses
<1>4. TypeOK
  <2>1. scans \in Seq(Rows) /\ findings \in Seq(Found) /\ Len(scans) = Len(findings)
        /\ Len(scans) <= posts
    BY <1>1
  <2>2. /\ pc \in [Workers -> Labels] /\ req \in [Workers -> Requests \cup {NoRequest}]
        /\ scan \in [Workers -> ScanObjects] /\ \A w \in Workers : reply[w].status \in Statuses
    BY <1>3 DEF Init, Labels
  <2>3. answered \in [Attempts -> Statuses] /\ before \in [Attempts -> SUBSET Ids]
    BY DEF Init, Statuses
  <2>. QED  BY <1>1, <2>1, <2>2, <2>3 DEF TypeOK, Init
<1>5. Truthful
  <2>1. NoReply \in Replies
    BY DEF NoReply, Statuses, Replies
  <2>. QED  BY <1>1, <2>1 DEF Truthful, Init
<1>6. Global
  <2>1. \A a \in Attempts : answered[a] = 0 /\ before[a] = {}
    BY DEF Init
  <2>2. ~(0 = 201) /\ 0 \notin {400, 413}
    OBVIOUS
  <2>3. 1..Len(scans) = {}
    BY <1>1
  <2>. QED  BY <1>1, <2>1, <2>2, <2>3 DEF LastInstant, time, Global, StoredScans, OneRowPerAttempt, AttemptsMade,
                               StatusTellsOutcome, NewestFirst
<1>7. Distinct /\ Cardinality(pool) <= PoolSize
  BY <1>1, <1>2, FS_EmptySet DEF Distinct, Posting
<1>8. \A w \in Workers : Local(w)
  BY <1>1, <1>2 DEF LastInstant, time, Local, Posting, Uncommitted
<1>. QED  BY <1>4, <1>5, <1>6, <1>7, <1>8, Regroup DEF Parts

LEMMA InvStutter == IInv /\ UNCHANGED vars => IInv'
<1> SUFFICES ASSUME IInv, UNCHANGED vars PROVE IInv'
  OBVIOUS
<1>1. /\ Quiet
      /\ UNCHANGED <<scans, findings, writer, pool, pc, req, scan, reply, time>>
      /\ UNCHANGED <<posts, answered, shown, before>>
  BY DEF vars, Quiet, tables, time, history
<1>2. Parts
  BY Regroup
<1>3. TypeOK'
  BY <1>1, <1>2, QuietType DEF Parts, TypeOK
<1>4. Truthful' /\ Global'
  BY <1>1, <1>2, TruthfulKept, QuietGlobal DEF Parts
<1>5. Distinct'
  BY <1>1, <1>2 DEF Parts, Distinct, Posting
<1>6. ASSUME NEW v \in Workers PROVE Local(v)'
  <2>1. Local(v)
    BY <1>2 DEF Parts
  <2>. QED  BY <1>1, <2>1
            DEF LastInstant, time, Local, Posting, Uncommitted, HasRow, Stored, Tallied, severity_counts
<1>. QED  BY <1>1, <1>2, <1>3, <1>4, <1>5, <1>6, RegroupNext DEF Parts

LEMMA InvStep == IInv /\ [Next]_vars => IInv'
<1>1. ASSUME IInv, NEW w \in Workers, Handle(w) PROVE IInv'
  BY <1>1, InvParseFails, InvBuild, InvCheckout, InvPoolTimeout, InvBeginWrite, InvLocked,
     InvCommit, InvCommitFails, InvSelectScan, InvSelectFindings, InvSelectFails, InvAdvise,
     InvAnswer DEF Handle
<1>2. ASSUME IInv, NEW w \in Workers, NEW r \in Requests, Receive(w, r) PROVE IInv'
  BY <1>2, InvReceivePost, InvReceiveRead
<1>. QED  BY <1>1, <1>2, InvCrash, InvStutter DEF Next

\* The invariant every theorem below reads its result from.
LEMMA Invariant == Spec => []IInv
<1>. QED  BY InvInit, InvStep, PTL DEF Spec

\* For any workers, pool and templates every variable of the service, tables and
\* sessions of api/routes/scans.py included, keeps its type.
THEOREM TypeCorrect == Spec => []TypeOK
<1>. QED  BY Invariant, PTL DEF IInv

\* The pool of db/session.py is never overdrawn, and a worker waiting for a
\* connection or done with its request holds neither connection nor lock.
THEOREM ResourcesReturned == Spec => []NoHoldAndWait
<1>. QED  BY Invariant, PTL DEF IInv

\* Through any failures, crashes and retries, what create_scan answered is true
\* of the table: 201 means the row is there for good, 400 and 413 that it never is.
THEOREM StatusIsTrue == Spec => []StatusTellsOutcome
<1>. QED  BY Invariant, PTL DEF IInv

\* list_scans puts a scan before every scan that was shown before it was posted,
\* unless the wall clock went back between the two by at least what they are apart.
THEOREM ListingOrder == Spec => []NewestFirst
<1>. QED  BY Invariant, PTL DEF IInv

\* A tally finds no CRITICAL exactly when there is none.
LEMMA GateOfTally ==
    ASSUME NEW f \in Seq(Severity)
    PROVE  score(severity_counts(f)).passed <=> \A i \in 1..Len(f) : f[i] # "CRITICAL"
<1> DEFINE tally == severity_counts(f)
           critical == {i \in DOMAIN f : f[i] = "CRITICAL"}
<1>1. tally \in [Severity -> Nat]
  BY TallyType
<1>2. ~refused(tally)
  BY <1>1 DEF refused
<1>3. score(tally).passed <=> get(tally, "CRITICAL") = 0
  BY <1>2 DEF score, ScoreResult
<1>4. get(tally, "CRITICAL") = Cardinality(critical)
  BY DEF get, severity_counts, Severity
<1>5. Len(f) \in Nat /\ DOMAIN f = 1..Len(f)
  OBVIOUS
<1>6. IsFiniteSet(critical)
  <2>1. IsFiniteSet(1..Len(f))
    BY <1>5, FS_Interval
  <2>. QED  BY <1>5, <2>1, FS_Subset
<1>7. Cardinality(critical) = 0 <=> critical = {}
  BY <1>6, FS_EmptySet
<1>8. critical = {} <=> \A i \in 1..Len(f) : f[i] # "CRITICAL"
  BY <1>5
<1>. QED  BY <1>3, <1>4, <1>7, <1>8

\* The gate in a body of from_scan passes exactly when no finding beside it is
\* CRITICAL, for every template: counters and findings never drift apart.
THEOREM GateIsAboutFindings == Spec => []GateMatchesFindings
<1>1. IInv => GateMatchesFindings
  <2> SUFFICES ASSUME IInv, NEW b \in shown
               PROVE  /\ b.finding_count = Len(b.found)
                      /\ b.score.passed <=> \A i \in 1..Len(b.found) : b.found[i] # "CRITICAL"
    BY DEF GateMatchesFindings
  <2>1. PICK i \in Stored : b = TableBody(i)
    BY DEF IInv, Truthful, TableBodies
  <2>2. Tallied(scans[i], findings[i])
    BY DEF LastInstant, time, IInv, StoredScans
  <2>3. findings[i] \in Seq(Severity)
    BY FoundType DEF IInv, TypeOK, Stored
  <2>4. b.finding_count = scans[i].finding_count /\ b.found = findings[i]
        /\ b.score = score(scans[i].counts)
    BY <2>1 DEF TableBody
  <2>. QED  BY <2>2, <2>3, <2>4, GateOfTally DEF Tallied
<1>. QED  BY <1>1, Invariant, PTL

-----------------------------------------------------------------------------
\* The ledger that the tables stand for.
ledger == [i \in 1..Len(scans) |->
             [by |-> scans[i].by, found |-> findings[i],
              finding_count |-> scans[i].finding_count, counts |-> scans[i].counts]]

LEMMA SameScore == \A c : Ledger!score(c) = score(c)
<1>1. \A n : Ledger!grade_for(n) = grade_for(n)
  BY DEF Ledger!grade_for, grade_for, Ledger!GRADE_BANDS, GRADE_BANDS
<1>2. \A c, s : Ledger!get(c, s) = get(c, s)
  BY DEF Ledger!get, get
<1>3. \A c : Ledger!penalty(c) = penalty(c)
  BY <1>2 DEF Ledger!penalty, penalty, Ledger!PENALTY_WEIGHTS, PENALTY_WEIGHTS
<1>4. \A n : Ledger!Max0(n) = Max0(n)
  BY DEF Ledger!Max0, Max0
<1>5. \A c : Ledger!refused(c) <=> refused(c)
  BY DEF Ledger!refused, refused
<1>6. \A c : Ledger!ScoreResult(c) = ScoreResult(c)
  BY <1>1, <1>2, <1>3, <1>4 DEF Ledger!ScoreResult, ScoreResult
<1>. QED  BY <1>5, <1>6 DEF Ledger!score, score

\* What the tables give for a scan is what the ledger shows of it.
LEMMA LedgerBody ==
    ASSUME NEW i \in Stored
    PROVE  TableBody(i) = Ledger!Body(i, ledger[i])
<1>1. ledger[i] = [by |-> scans[i].by, found |-> findings[i],
                   finding_count |-> scans[i].finding_count, counts |-> scans[i].counts]
  BY DEF ledger, Stored
<1>. QED  BY <1>1, SameScore DEF TableBody, Ledger!Body

LEMMA LedgerInit == Init => Ledger!Init
<1>. QED  BY DEF Init, Ledger!Init

LEMMA LedgerStutters == UNCHANGED <<scans, findings, shown>> => UNCHANGED <<ledger, shown>>
<1>. QED  BY DEF ledger

LEMMA AppendIsExtension ==
    ASSUME NEW n \in Nat, NEW f, f = [i \in 1..n |-> f[i]], NEW e
    PROVE  Append(f, e) = [i \in 1..n + 1 |-> IF i = n + 1 THEN e ELSE f[i]]
<1> DEFINE S == {f[i] : i \in 1..n} \cup {e}
           g == [i \in 1..n + 1 |-> IF i = n + 1 THEN e ELSE f[i]]
<1>1. f \in Seq(S) /\ Len(f) = n
  OBVIOUS
<1>2. e \in S
  OBVIOUS
<1>3. \A i \in 1..n + 1 : (IF i = n + 1 THEN e ELSE f[i]) \in S
  OBVIOUS
<1>. HIDE DEF S
<1>7. g \in Seq(S) /\ Len(g) = n + 1
  <2>1. n + 1 \in Nat /\ g \in [1..n + 1 -> S]
    BY <1>3
  <2>. HIDE DEF g
  <2>2. g \in Seq(S)
    BY <2>1, SeqDef
  <2>3. Len(g) \in Nat /\ DOMAIN g = 1..Len(g) /\ DOMAIN g = 1..n + 1
    BY <2>1, <2>2, LenProperties
  <2>. QED  BY <2>1, <2>2, <2>3
<1>4. /\ Append(f, e) \in Seq(S) /\ Len(Append(f, e)) = n + 1
      /\ \A i \in 1..n : Append(f, e)[i] = f[i]
      /\ Append(f, e)[n + 1] = e
  BY <1>1, <1>2, AppendProperties
<1>5. \A i \in 1..n + 1 : Append(f, e)[i] = g[i]
  BY <1>4
<1>. HIDE DEF g
<1>6. Append(f, e) = g
  BY <1>4, <1>5, <1>7, SeqEqual
<1>. QED  BY <1>6 DEF g

LEMMA SameEntry ==
    ASSUME NEW by, NEW found
    PROVE  Ledger!Entry(by, found) =
              [by |-> by, found |-> found, finding_count |-> Len(found),
               counts |-> severity_counts(found)]
<1>1. Ledger!Severity = Severity
  BY DEF Ledger!Severity, Severity
<1>2. \A S : Ledger!Cardinality(S) = Cardinality(S)
  BY Zenon DEF Ledger!Cardinality, Cardinality
<1>3. Ledger!Tally(found) = severity_counts(found)
  BY <1>1, <1>2 DEF Ledger!Tally, severity_counts
<1>. QED  BY <1>3 DEF Ledger!Entry

LEMMA LedgerRecord ==
    ASSUME NEW w \in Workers, IInv, Commit(w)
    PROVE  Ledger!Next
<1>1. /\ TypeOK /\ Local(w) /\ pc[w] = "commit" /\ shown' = shown
  BY Regroup DEF Parts, Commit, history
<1>2. PICK attempt \in Attempts, results \in Found :
          /\ results = scan[w].found /\ scan[w].row.by = attempt
          /\ ~HasRow(attempt) /\ Tallied(scan[w].row, results)
  BY <1>1, RequestType DEF LastInstant, time, Local, Posting, Uncommitted, TypeOK, ScanObjects
<1>3. \A i \in 1..Len(ledger) : ledger[i].by # attempt
  BY <1>1, <1>2 DEF HasRow, Stored, ledger, TypeOK
<1>4. ledger' = Append(ledger, Ledger!Entry(attempt, results))
  <2> DEFINE e == [by |-> attempt, found |-> results, finding_count |-> Len(results),
                   counts |-> severity_counts(results)]
  <2>1. Ledger!Entry(attempt, results) = e
    BY SameEntry
  <2>2. /\ Len(scans) \in Nat /\ Len(scans') = Len(scans) + 1
        /\ \A i \in 1..Len(scans) : scans'[i] = scans[i] /\ findings'[i] = findings[i]
        /\ scans'[Len(scans) + 1] = scan[w].row /\ findings'[Len(scans) + 1] = results
    BY <1>2, CommitTables DEF Stored
  <2>3. /\ scan[w].row.by = attempt /\ scan[w].row.finding_count = Len(results)
        /\ scan[w].row.counts = severity_counts(results)
    BY <1>2 DEF Tallied
  <2>4. ledger' = [i \in 1..Len(scans) + 1 |-> IF i = Len(scans) + 1 THEN e ELSE ledger[i]]
    BY <2>2, <2>3 DEF ledger
  <2>5. ledger = [i \in 1..Len(scans) |-> ledger[i]]
    BY DEF ledger
  <2>. HIDE DEF e
  <2>6. Append(ledger, e) = [i \in 1..Len(scans) + 1 |-> IF i = Len(scans) + 1 THEN e ELSE ledger[i]]
    BY <2>2, <2>5, AppendIsExtension
  <2>. QED  BY <2>1, <2>4, <2>6
<1>5. Ledger!Record(attempt, results)
  BY <1>1, <1>3, <1>4 DEF Ledger!Record, ledger
<1>. QED  BY <1>5 DEF Ledger!Next

LEMMA LedgerShow ==
    ASSUME NEW w \in Workers, IInv, Answer(w)
    PROVE  Ledger!Next \/ UNCHANGED <<ledger, shown>>
<1>1. reply[w] \in Replies
  BY DEF IInv, Truthful
<1>2. shown' = shown \cup reply[w].body /\ UNCHANGED <<scans, findings>>
  BY DEF Answer, tables
<1>3. CASE reply[w].body = {}
  BY <1>2, <1>3, LedgerStutters
<1>4. CASE reply[w].body # {}
  <2>1. PICK i \in Stored : reply[w].body = {TableBody(i)}
    BY <1>1, <1>4 DEF Replies, TableBodies
  <2>2. shown' = shown \cup {Ledger!Body(i, ledger[i])}
    BY <1>2, <2>1, LedgerBody
  <2>3. ledger' = ledger
    BY <1>2 DEF ledger
  <2>4. Ledger!Show(i)
    BY <2>2, <2>3 DEF Ledger!Show, ledger
  <2>5. i \in 1..Len(ledger)
    BY <2>1 DEF Stored, ledger, IInv, TypeOK
  <2>. QED  BY <2>4, <2>5 DEF Ledger!Next, ledger
<1>. QED  BY <1>3, <1>4

\* Every other step leaves the ledger alone.
LEMMA LedgerStep ==
    ASSUME IInv, [Next]_vars
    PROVE  Ledger!Next \/ UNCHANGED <<ledger, shown>>
<1>1. ASSUME NEW w \in Workers, Handle(w)
      PROVE  Commit(w) \/ Answer(w) \/ UNCHANGED <<scans, findings, shown>>
  <2>1. ParseFails(w) \/ (\E now \in 0..MaxClock : Build(w, now)) => UNCHANGED <<scans, findings, shown>>
    BY DEF ParseFails, Build, tables, time, history
  <2>2. Checkout(w) \/ PoolTimeout(w) \/ BeginWrite(w) \/ Locked(w) \/ CommitFails(w)
        => UNCHANGED <<scans, findings, shown>>
    BY DEF Checkout, PoolTimeout, BeginWrite, Locked, CommitFails, tables, time, history
  <2>3. SelectScan(w) \/ SelectFails(w) \/ Advise(w) => UNCHANGED <<scans, findings, shown>>
    BY DEF SelectScan, SelectFails, Advise, tables, time, history
  <2>4. SelectFindings(w) => UNCHANGED <<scans, findings, shown>>
    BY DEF SelectFindings, tables, time, history
  <2>. QED  BY <1>1, <2>1, <2>2, <2>3, <2>4 DEF Handle
<1>2. ASSUME NEW w \in Workers, NEW r \in Requests, Receive(w, r)
      PROVE  UNCHANGED <<scans, findings, shown>>
  BY <1>2 DEF Receive, tables
<1>3. Crash \/ UNCHANGED vars => UNCHANGED <<scans, findings, shown>>
  BY DEF Crash, vars, tables, time, history
<1>. QED  BY <1>1, <1>2, <1>3, LedgerRecord, LedgerShow, LedgerStutters DEF Next

\* The service implements the ledger: whatever the workers, failures and crashes,
\* scans.py and scanner.py store each attempt at most once, whole and with the
\* right counters, change no row, and show rows as they are stored.
THEOREM Refinement == Spec => ImplementsLedger
<1>1. Init => Ledger!Init
  BY LedgerInit
<1>2. IInv /\ [Next]_vars => [Ledger!Next]_<<ledger, shown>>
  BY LedgerStep
<1>. QED  BY <1>1, <1>2, Invariant, PTL DEF Spec, ImplementsLedger, Ledger!Spec, ledger
-----------------------------------------------------------------------------
(* score() itself, for every mapping a caller may build: ScoreCalls *)

\* Each number has the grade of the interval it lies in.
LEMMA GradeValue ==
    ASSUME NEW n \in Int
    PROVE  grade_for(n) = IF n >= 90 THEN "A" ELSE IF n >= 80 THEN "B"
                          ELSE IF n >= 70 THEN "C" ELSE IF n >= 60 THEN "D" ELSE "F"
<1> DEFINE hit == {i \in 1..4 : n >= GRADE_BANDS[i][1]}
           first == CHOOSE i \in hit : \A j \in hit : i <= j
<1>1. /\ GRADE_BANDS[1] = <<90, "A">> /\ GRADE_BANDS[2] = <<80, "B">>
      /\ GRADE_BANDS[3] = <<70, "C">> /\ GRADE_BANDS[4] = <<60, "D">>
  BY DEF GRADE_BANDS
<1>2. \A i \in 1..4 : i = 1 \/ i = 2 \/ i = 3 \/ i = 4
  OBVIOUS
<1>3. grade_for(n) = IF hit = {} THEN "F" ELSE GRADE_BANDS[first][2]
  BY DEF grade_for
<1>4. \A i \in hit : (\A j \in hit : i <= j) => first = i
  <2>1. TAKE i \in hit
  <2>2. HAVE \A j \in hit : i <= j
  <2>3. first \in hit /\ \A j \in hit : first <= j
    BY <2>1, <2>2
  <2>. QED  BY <2>1, <2>2, <2>3
<1>5. CASE n >= 90
  <2>1. first = 1
    BY <1>1, <1>4, <1>5
  <2>. QED  BY <1>1, <1>3, <1>5, <2>1
<1>6. CASE n >= 80 /\ ~(n >= 90)
  <2>1. first = 2
    BY <1>1, <1>2, <1>4, <1>6
  <2>. QED  BY <1>1, <1>3, <1>6, <2>1
<1>7. CASE n >= 70 /\ ~(n >= 80)
  <2>1. first = 3
    BY <1>1, <1>2, <1>4, <1>7
  <2>. QED  BY <1>1, <1>3, <1>7, <2>1
<1>8. CASE n >= 60 /\ ~(n >= 70)
  <2>1. first = 4
    BY <1>1, <1>2, <1>4, <1>8
  <2>. QED  BY <1>1, <1>3, <1>8, <2>1
<1>9. CASE ~(n >= 60)
  <2>1. hit = {}
    BY <1>1, <1>2, <1>9
  <2>. QED  BY <1>3, <1>9, <2>1
<1>. QED  BY <1>5, <1>6, <1>7, <1>8, <1>9

\* Every count that score() reads is a natural number.
Natural(c) == \A s \in Severity : get(c, s) \in Nat

\* The numbers in a result, free of the order in which they are computed.
LEMMA PenaltyValue ==
    ASSUME NEW c, Natural(c)
    PROVE  /\ penalty(c) = 40 * get(c, "CRITICAL") + 20 * get(c, "HIGH")
                           + 10 * get(c, "MEDIUM") + 3 * get(c, "LOW")
           /\ penalty(c) \in Nat
<1>1. /\ get(c, "CRITICAL") \in Nat /\ get(c, "HIGH") \in Nat /\ get(c, "MEDIUM") \in Nat
      /\ get(c, "LOW") \in Nat /\ get(c, "INFO") \in Nat
  BY DEF Natural, Severity
<1>2. /\ PENALTY_WEIGHTS["CRITICAL"] = 40 /\ PENALTY_WEIGHTS["HIGH"] = 20
      /\ PENALTY_WEIGHTS["MEDIUM"] = 10 /\ PENALTY_WEIGHTS["LOW"] = 3
      /\ PENALTY_WEIGHTS["INFO"] = 0
  BY DEF PENALTY_WEIGHTS
<1>. QED  BY <1>1, <1>2 DEF penalty

\* What ScoreResult returns, field by field.
LEMMA ResultValue ==
    ASSUME NEW c, Natural(c)
    PROVE  LET r == ScoreResult(c)
           IN  /\ r.score \in 0..100
               /\ r.score = IF penalty(c) <= 100 THEN 100 - penalty(c) ELSE 0
               /\ r.grade = grade_for(r.score)
               /\ r.passed <=> get(c, "CRITICAL") = 0
               /\ r.raised = "nothing"
<1> DEFINE final_score == Max0(100 - penalty(c))
           r == ScoreResult(c)
<1>1. penalty(c) \in Nat
  BY PenaltyValue
<1>2. /\ final_score \in 0..100
      /\ final_score = IF penalty(c) <= 100 THEN 100 - penalty(c) ELSE 0
  BY <1>1 DEF Max0
<1>3. r = [raised |-> "nothing", score |-> final_score, grade |-> grade_for(final_score),
           passed |-> get(c, "CRITICAL") = 0]
  BY DEF ScoreResult
<1>. HIDE DEF final_score, r
<1>4. r.score = final_score /\ r.grade = grade_for(final_score) /\ r.raised = "nothing"
  BY <1>3
<1>5. r.passed <=> get(c, "CRITICAL") = 0
  BY <1>3
<1>. QED  BY <1>2, <1>4, <1>5 DEF r

\* A mapping with no negative entry is scored, and all it holds is natural.
LEMMA ScoredIsNatural ==
    ASSUME NEW c, \A k \in DOMAIN c : c[k] \in Int, score(c).raised = "nothing"
    PROVE  Natural(c) /\ score(c) = ScoreResult(c)
<1>1. ~refused(c)
  <2>1. SUFFICES ASSUME refused(c) PROVE FALSE
    OBVIOUS
  <2>2. score(c) = [raised |-> "ValueError"]
    BY <2>1 DEF score
  <2>. QED  BY <2>2
<1>2. \A k \in DOMAIN c : c[k] \in Nat
  BY <1>1 DEF refused
<1>. QED  BY <1>1, <1>2 DEF score, Natural, get

\* The mapping only ever holds values a caller may store.
THEOREM CallsTypeCorrect == CallsSpec => []CallsTypeOK
<1>1. CallsInit => CallsTypeOK
  BY DEF CallsInit, CallsTypeOK
<1>2. CallsTypeOK /\ [CallsNext]_counts => CallsTypeOK'
  BY DEF CallsTypeOK, CallsNext, Put
<1>. QED  BY <1>1, <1>2, PTL DEF CallsSpec

LEMMA ScoredState ==
    ASSUME CallsTypeOK, Scored
    PROVE  Natural(counts) /\ score(counts) = ScoreResult(counts)
<1>1. \A k \in DOMAIN counts : counts[k] \in Int
  BY CountValuesAssumption DEF CallsTypeOK
<1>. QED  BY <1>1, ScoredIsNatural DEF Scored

\* The score of any mapping lies in the documented interval of its grade.
THEOREM GradeInBand == CallsSpec => []GradeMatchesBand
<1>1. CallsTypeOK => GradeMatchesBand
  <2>. SUFFICES ASSUME CallsTypeOK, Scored
                PROVE  score(counts).score \in BandOf(score(counts).grade)
    BY DEF GradeMatchesBand
  <2>1. /\ score(counts).score \in 0..100
        /\ score(counts).grade = grade_for(score(counts).score)
    BY ScoredState, ResultValue
  <2>. QED  BY <2>1, GradeValue DEF BandOf
<1>. QED  BY <1>1, CallsTypeCorrect, PTL

\* The gate and the grade never contradict each other, for any counts.
THEOREM VerdictsAgree == CallsSpec => []GateAndGradeAgree
<1>1. CallsTypeOK => GateAndGradeAgree
  <2>. SUFFICES ASSUME CallsTypeOK, Scored PROVE GateAndGradeAgree
    BY DEF GateAndGradeAgree
  <2> DEFINE r == score(counts)
             crit == get(counts, "CRITICAL")
             high == get(counts, "HIGH")
             med == get(counts, "MEDIUM")
             low == get(counts, "LOW")
  <2>1. crit \in Nat /\ high \in Nat /\ med \in Nat /\ low \in Nat
    BY ScoredState DEF Natural, Severity
  <2>2. penalty(counts) = 40 * crit + 20 * high + 10 * med + 3 * low
    BY ScoredState, PenaltyValue
  <2>3. /\ r.score \in 0..100
        /\ r.score = IF penalty(counts) <= 100 THEN 100 - penalty(counts) ELSE 0
        /\ r.grade = grade_for(r.score)
        /\ r.passed <=> crit = 0
    BY ScoredState, ResultValue
  <2>4. ~r.passed => r.score <= 60 /\ r.grade \in {"D", "F"}
    BY <2>1, <2>2, <2>3, GradeValue
  <2>5. r.grade = "A" => r.score >= 90
    BY <2>3, GradeValue
  <2>6. r.score >= 90 => crit = 0 /\ high = 0 /\ med <= 1
    BY <2>1, <2>2, <2>3
  <2>. QED  BY <2>4, <2>5, <2>6 DEF GateAndGradeAgree
<1>. QED  BY <1>1, CallsTypeCorrect, PTL

\* No step that raises counts gives a better score, grade or gate decision.
THEOREM ScoringIsMonotone == CallsSpec => MoreFindingsNeverHelp
<1> DEFINE Worse == /\ Scored /\ Scored'
                    /\ \A s \in Severity : get(counts', s) >= get(counts, s)
           r == score(counts)
           q == score(counts')
           Goal == /\ q.score <= r.score
                   /\ GradeRank[q.grade] >= GradeRank[r.grade]
                   /\ q.passed => r.passed
<1>1. ASSUME CallsTypeOK, CallsTypeOK', Worse PROVE Goal
  <2>1. Natural(counts) /\ r = ScoreResult(counts)
    BY <1>1, ScoredState
  <2>2. Natural(counts') /\ q = ScoreResult(counts')
    <3>1. \A k \in DOMAIN counts' : counts'[k] \in Int
      BY <1>1, CountValuesAssumption DEF CallsTypeOK
    <3>2. score(counts').raised = "nothing"
      BY <1>1 DEF Scored
    <3>. QED  BY <3>1, <3>2, ScoredIsNatural
  <2>3. /\ penalty(counts) \in Nat /\ penalty(counts') \in Nat
        /\ penalty(counts) <= penalty(counts')
    <3>1. /\ get(counts, "CRITICAL") \in Nat /\ get(counts', "CRITICAL") \in Nat
          /\ get(counts, "HIGH") \in Nat /\ get(counts', "HIGH") \in Nat
          /\ get(counts, "MEDIUM") \in Nat /\ get(counts', "MEDIUM") \in Nat
          /\ get(counts, "LOW") \in Nat /\ get(counts', "LOW") \in Nat
      BY <2>1, <2>2 DEF Natural, Severity
    <3>2. /\ get(counts', "CRITICAL") >= get(counts, "CRITICAL")
          /\ get(counts', "HIGH") >= get(counts, "HIGH")
          /\ get(counts', "MEDIUM") >= get(counts, "MEDIUM")
          /\ get(counts', "LOW") >= get(counts, "LOW")
      BY <1>1 DEF Severity
    <3>3. /\ penalty(counts) = 40 * get(counts, "CRITICAL") + 20 * get(counts, "HIGH")
                               + 10 * get(counts, "MEDIUM") + 3 * get(counts, "LOW")
          /\ penalty(counts') = 40 * get(counts', "CRITICAL") + 20 * get(counts', "HIGH")
                               + 10 * get(counts', "MEDIUM") + 3 * get(counts', "LOW")
      BY <2>1, <2>2, PenaltyValue
    <3>. QED  BY <3>1, <3>2, <3>3
  <2>4. /\ r.score \in 0..100 /\ q.score \in 0..100 /\ q.score <= r.score
        /\ r.grade = grade_for(r.score) /\ q.grade = grade_for(q.score)
    BY <2>1, <2>2, <2>3, ResultValue
  <2>5. GradeRank[q.grade] >= GradeRank[r.grade]
    BY <2>4, GradeValue DEF GradeRank
  <2>6. q.passed => r.passed
    <3>1. get(counts, "CRITICAL") \in Nat /\ get(counts', "CRITICAL") \in Nat
      BY <2>1, <2>2 DEF Natural, Severity
    <3>2. get(counts', "CRITICAL") >= get(counts, "CRITICAL")
      BY <1>1 DEF Severity
    <3>3. /\ r.passed <=> get(counts, "CRITICAL") = 0
          /\ q.passed <=> get(counts', "CRITICAL") = 0
      BY <2>1, <2>2, ResultValue
    <3>. QED  BY <3>1, <3>2, <3>3
  <2>. QED  BY <2>4, <2>5, <2>6
<1>2. CallsTypeOK /\ CallsTypeOK' => [Worse => Goal]_counts
  BY <1>1
<1>. QED  BY <1>2, CallsTypeCorrect, PTL DEF MoreFindingsNeverHelp

\* A severity left out of the mapping and one stored as 0 are the same, and other
\* keys are not looked at, for any mapping that is scored.
THEOREM MissingSeverities == CallsSpec => []MissingIsZero
<1>1. CallsTypeOK => MissingIsZero
  <2>. SUFFICES ASSUME CallsTypeOK, Scored PROVE score(counts) = score(Nonzero)
    BY DEF MissingIsZero
  <2>1. \A s \in Severity : get(Nonzero, s) = get(counts, s)
    BY DEF get, Nonzero
  <2>2. penalty(Nonzero) = penalty(counts)
    BY <2>1 DEF penalty, Severity
  <2>3. ScoreResult(Nonzero) = ScoreResult(counts)
    BY <2>1, <2>2 DEF ScoreResult, Severity
  <2>4. \A k \in DOMAIN Nonzero : Nonzero[k] = get(counts, k) /\ k \in Severity
    BY DEF get, Nonzero
  <2>5. \A k \in DOMAIN Nonzero : Nonzero[k] \in Nat
    BY <2>4, ScoredState DEF Natural
  <2>6. ~refused(Nonzero)
    BY <2>5 DEF refused
  <2>. QED  BY <2>3, <2>6, ScoredState DEF score
<1>. QED  BY <1>1, CallsTypeCorrect, PTL
=============================================================================
