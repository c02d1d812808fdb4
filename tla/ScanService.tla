---------------------------- MODULE ScanService ----------------------------
(***************************************************************************)
(* The scan endpoints and the engine behind them, over one SQLite database: *)
(*   api/routes/scans.py   create_scan, get_scan, get_scan_advice           *)
(*   engine/scanner.py     run_scan, _persist, _severity_counts             *)
(*   db/session.py         get_session and the connection pool              *)
(*   api/schemas.py        ScanDetailResponse.from_scan, _score_for         *)
(*                                                                         *)
(* The handlers are plain functions, so each request runs on a worker      *)
(* thread and the workers interleave at every database call.  A Session    *)
(* takes a pooled connection at its first statement and gives it back when *)
(* it commits or is closed.  SQLite has one writer at a time; a SELECT     *)
(* outside a transaction sees what is committed when it runs, so the two   *)
(* SELECTs of a read (the scan, then its findings) are two snapshots.      *)
(***************************************************************************)
EXTENDS Scoring, Sequences, FiniteSets

CONSTANTS
    Workers,     \* threads of the server's pool
    NoWorker,    \* no thread holds the write lock
    PoolSize,    \* database connections that can be checked out at once
    Templates,   \* the templates clients post
    Parsing,     \* template -> "ok" or the error parse_template raises
    Evaluation,  \* template -> the severities its evaluation finds, in order
    MaxPosts,    \* bound on POST /scans requests
    MaxClock,    \* bound on the wall clock
    MaxSetback,  \* bound on how far its readings go back, in all
    MaxCrashes   \* bound on process crashes

ParseErrors ==
    {"TemplateTooLarge", "MalformedTemplate", "NotACloudFormationTemplate", "other"}

ASSUME WorkersAssumption == IsFiniteSet(Workers) /\ NoWorker \notin Workers
ASSUME PoolAssumption == PoolSize \in Nat \ {0}
ASSUME TemplatesAssumption ==
    /\ Parsing \in [Templates -> ParseErrors \cup {"ok"}]
    /\ Evaluation \in [Templates -> Seq(Severity)]
ASSUME BoundsAssumption ==
    MaxPosts \in Nat /\ MaxClock \in Nat /\ MaxSetback \in Nat /\ MaxCrashes \in Nat

VARIABLES
    scans,     \* table scans: row i has id i
    findings,  \* table findings: findings[i] are the rows with scan_id i
    writer,    \* the worker that holds SQLite's write lock
    pool,      \* the workers that hold a pooled connection
    pc,        \* per worker, the next thing its handler does
    req,       \* per worker, the request it handles
    scan,      \* per worker, the Scan object of its session
    reply,     \* per worker, the response it is about to send
    clock,     \* history: the last reading of the wall clock
    setback,   \* history: how far its readings have gone back so far, in all
    crashes,
    posts,     \* history: POST requests received so far; the n-th is attempt n
    answered,  \* history: per attempt, the status its client got (0: none)
    shown,     \* history: the bodies clients got from POST and GET
    before     \* history: per attempt, the ids shown before it was received

tables == <<scans, findings>>
history == <<posts, answered, shown, before>>
time == <<clock, setback>>
vars == <<tables, writer, pool, pc, req, scan, reply, time, crashes, history>>

Attempts == 1..MaxPosts
Ids == 1..MaxPosts

\* The columns of a Scan that matter here, and history: the attempt whose handler
\* made the row, and how far the clock had gone back when created_at was read.
Rows == [by : Attempts, created_at : 0..MaxClock, setback : 0..MaxSetback,
         finding_count : Nat, counts : [Severity -> Nat]]

Requests ==
         [op : {"post"}, template : Templates, by : Attempts]
    \cup [op : {"get", "advice"}, id : Ids]

\* The Scan object a session works on: a row, its id (0: not assigned) and the
\* findings relationship, as far as they are loaded.
NoRow == [by |-> 0, created_at |-> 0, setback |-> 0, finding_count |-> 0,
          counts |-> [s \in Severity |-> 0]]
NoScan == [id |-> 0, row |-> NoRow, found |-> << >>]

NoRequest == [op |-> "none"]
NoReply == [status |-> 0, body |-> {}]

Init ==
    /\ scans = << >>
    /\ findings = << >>
    /\ writer = NoWorker
    /\ pool = {}
    /\ pc = [w \in Workers |-> "idle"]
    /\ req = [w \in Workers |-> NoRequest]
    /\ scan = [w \in Workers |-> NoScan]
    /\ reply = [w \in Workers |-> NoReply]
    /\ clock = 0
    /\ setback = 0
    /\ crashes = 0
    /\ posts = 0
    /\ answered = [a \in Attempts |-> 0]
    /\ shown = {}
    /\ before = [a \in Attempts |-> {}]

Goto(w, label) == pc' = [pc EXCEPT ![w] = label]

\* The handler is done: it has a status and, for 200/201, a body.
Respond(w, status, body) ==
    /\ reply' = [reply EXCEPT ![w] = [status |-> status, body |-> body]]
    /\ Goto(w, "answer")
-----------------------------------------------------------------------------
\* The request is over for these workers, and their locals with it.
Forget(ws) ==
    /\ pc' = [w \in Workers |-> IF w \in ws THEN "idle" ELSE pc[w]]
    /\ req' = [w \in Workers |-> IF w \in ws THEN NoRequest ELSE req[w]]
    /\ scan' = [w \in Workers |-> IF w \in ws THEN NoScan ELSE scan[w]]
    /\ reply' = [w \in Workers |-> IF w \in ws THEN NoReply ELSE reply[w]]

\* A request arrives at an idle worker.
Receive(w, r) ==
    /\ pc[w] = "idle"
    /\ req' = [req EXCEPT ![w] = r]
    /\ IF r.op = "post"
       THEN /\ posts < MaxPosts
            /\ r.by = posts + 1
            /\ posts' = posts + 1
            /\ before' = [before EXCEPT ![r.by] = {b.id : b \in shown}]
            /\ Goto(w, "parse")
       ELSE /\ Goto(w, "select")
            /\ UNCHANGED <<posts, before>>
    /\ scan' = [scan EXCEPT ![w].id = IF r.op = "post" THEN 0 ELSE r.id]
    /\ UNCHANGED <<tables, writer, pool, reply, time, crashes, answered, shown>>

\* The except clauses of create_scan; what they do not name ends as a 500.
http_status(error) ==
    CASE error = "TemplateTooLarge" -> 413
      [] error = "MalformedTemplate" -> 400
      [] error = "NotACloudFormationTemplate" -> 400
      [] OTHER -> 500

\* Mutated ParseFails: a scan row is kept for a template that does not parse.
ParseFailsRecorded(w) ==
    /\ pc[w] = "parse"
    /\ Parsing[req[w].template] # "ok"
    /\ scans' = Append(scans, [NoRow EXCEPT !.by = req[w].by, !.created_at = clock])
    /\ findings' = Append(findings, << >>)
    /\ Respond(w, http_status(Parsing[req[w].template]), {})
    /\ UNCHANGED <<writer, pool, req, scan, time, crashes, history>>

\* run_scan: parse_template raises; nothing was evaluated, nothing is written.
ParseFails(w) ==
    /\ pc[w] = "parse"
    /\ Parsing[req[w].template] # "ok"
    /\ Respond(w, http_status(Parsing[req[w].template]), {})
    /\ UNCHANGED <<tables, writer, pool, req, scan, time, crashes, history>>

\* _severity_counts: one pass over the findings, one counter per severity.
severity_counts(found) ==
    [s \in Severity |-> Cardinality({i \in DOMAIN found : found[i] = s})]

\* datetime.now(UTC) is a wall clock: it may be set back, also between processes.
Read(now) ==
    /\ clock' = now
    /\ setback' = setback + (IF now < clock THEN clock - now ELSE 0)
    /\ setback' <= MaxSetback

\* run_scan up to session.add: parse, evaluate, and build the Scan with its
\* findings and counters.  created_at is read here, before the transaction.
Build(w, now) ==
    LET found == Evaluation[req[w].template]
    IN  /\ pc[w] = "parse"
        /\ Parsing[req[w].template] = "ok"
        /\ Read(now)
        /\ scan' = [scan EXCEPT ![w] =
              [id |-> 0,
               row |-> [by |-> req[w].by, created_at |-> now, setback |-> setback',
                        finding_count |-> Len(found), counts |-> severity_counts(found)],
               found |-> found]]
        /\ Goto(w, "flush")
        /\ UNCHANGED <<tables, writer, pool, req, reply, crashes, history>>

\* The session's first statement takes a connection from the pool.
Checkout(w) ==
    /\ pc[w] \in {"flush", "select"}
    /\ Cardinality(pool) < PoolSize
    /\ pool' = pool \cup {w}
    /\ Goto(w, IF pc[w] = "flush" THEN "insert" ELSE "row")
    /\ UNCHANGED <<tables, writer, req, scan, reply, time, crashes, history>>

\* Mutated PoolTimeout: the wait for a connection has no limit.
PoolTimeoutNever(w) == FALSE

\* The pool stays exhausted for its whole timeout: the statement raises.
PoolTimeout(w) ==
    /\ pc[w] \in {"flush", "select"}
    /\ Cardinality(pool) >= PoolSize
    /\ Respond(w, 500, {})
    /\ UNCHANGED <<tables, writer, pool, req, scan, time, crashes, history>>

\* session.commit() flushes: the first INSERT begins the transaction and takes
\* the write lock.
BeginWrite(w) ==
    /\ pc[w] = "insert"
    /\ writer = NoWorker
    /\ writer' = w
    /\ Goto(w, "commit")
    /\ UNCHANGED <<tables, pool, req, scan, reply, time, crashes, history>>

\* Another transaction holds the lock past the busy timeout: the flush raises
\* "database is locked".
Locked(w) ==
    /\ pc[w] = "insert"
    /\ writer # NoWorker
    /\ Respond(w, 500, {})
    /\ UNCHANGED <<tables, writer, pool, req, scan, time, crashes, history>>

\* Mutated Commit: the findings are left for a second transaction.
CommitScanOnly(w) ==
    /\ pc[w] = "commit"
    /\ scans' = Append(scans, scan[w].row)
    /\ findings' = Append(findings, << >>)
    /\ scan' = [scan EXCEPT ![w] = [NoScan EXCEPT !.id = Len(scans) + 1]]
    /\ writer' = NoWorker
    /\ pool' = pool \ {w}
    /\ Goto(w, "select")
    /\ UNCHANGED <<req, reply, time, crashes, history>>

\* COMMIT: the scan and its findings become visible together, under the next
\* free id; the session expires what it has loaded and returns its connection.
Commit(w) ==
    /\ pc[w] = "commit"
    /\ scans' = Append(scans, scan[w].row)
    /\ findings' = Append(findings, scan[w].found)
    /\ scan' = [scan EXCEPT ![w] = [NoScan EXCEPT !.id = Len(scans) + 1]]
    /\ writer' = NoWorker
    /\ pool' = pool \ {w}
    /\ Goto(w, "select")
    /\ UNCHANGED <<req, reply, time, crashes, history>>

\* The INSERTs or the COMMIT raise: the session rolls the transaction back.
CommitFails(w) ==
    /\ pc[w] = "commit"
    /\ writer' = NoWorker
    /\ Respond(w, 500, {})
    /\ UNCHANGED <<tables, pool, req, scan, time, crashes, history>>

\* session.refresh (POST) or session.get (GET) reads the row, or finds none.
SelectScan(w) ==
    LET id == scan[w].id
    IN  /\ pc[w] = "row"
        /\ IF id <= Len(scans)
           THEN /\ scan' = [scan EXCEPT ![w].row = scans[id]]
                /\ Goto(w, "findings")
                /\ UNCHANGED reply
           ELSE /\ Respond(w, 404, {})
                /\ UNCHANGED scan
        /\ UNCHANGED <<tables, writer, pool, req, time, crashes, history>>

\* ScanDetailResponse.from_scan, with the score computed from the stored counters.
from_scan(obj, found) ==
    [id |-> obj.id, finding_count |-> obj.row.finding_count, counts |-> obj.row.counts,
     found |-> found, score |-> score(obj.row.counts)]

\* The findings relationship is loaded lazily, by a second SELECT.
SelectFindings(w) ==
    LET found == findings[scan[w].id]
    IN  /\ pc[w] = "findings"
        /\ scan' = [scan EXCEPT ![w].found = found]
        /\ CASE req[w].op = "post"   -> Respond(w, 201, {from_scan(scan[w], found)})
             [] req[w].op = "get"    -> Respond(w, 200, {from_scan(scan[w], found)})
             [] req[w].op = "advice" -> Goto(w, "advise") /\ UNCHANGED reply
        /\ UNCHANGED <<tables, writer, pool, req, time, crashes, history>>

\* Either SELECT raises (the database is locked by a commit, or I/O fails).
SelectFails(w) ==
    /\ pc[w] \in {"row", "findings"}
    /\ Respond(w, 500, {})
    /\ UNCHANGED <<tables, writer, pool, req, scan, time, crashes, history>>

\* provider.advise: it may take as long as the LLM calls it makes, and it may
\* raise; the session keeps its connection meanwhile.
Advise(w) ==
    /\ pc[w] = "advise"
    /\ \E status \in {200, 500} : Respond(w, status, {})
    /\ UNCHANGED <<tables, writer, pool, req, scan, time, crashes, history>>

\* Mutated Answer: the session is not closed, its connection stays checked out.
AnswerLeaking(w) ==
    /\ pc[w] = "answer"
    /\ shown' = shown \cup reply[w].body
    /\ answered' = IF req[w].op = "post"
                   THEN [answered EXCEPT ![req[w].by] = reply[w].status]
                   ELSE answered
    /\ Forget({w})
    /\ UNCHANGED <<tables, writer, pool, time, crashes, posts, before>>

\* The response is sent and get_session's with block closes the session.
Answer(w) ==
    /\ pc[w] = "answer"
    /\ shown' = shown \cup reply[w].body
    /\ answered' = IF req[w].op = "post"
                   THEN [answered EXCEPT ![req[w].by] = reply[w].status]
                   ELSE answered
    /\ pool' = pool \ {w}
    /\ Forget({w})
    /\ UNCHANGED <<tables, writer, time, crashes, posts, before>>

\* The process dies: open transactions roll back, requests are never answered.
\* It starts again with empty pools; create_db_and_tables leaves tables alone.
Crash ==
    /\ crashes < MaxCrashes
    /\ crashes' = crashes + 1
    /\ writer' = NoWorker
    /\ pool' = {}
    /\ Forget(Workers)
    /\ UNCHANGED <<tables, time, history>>

Handle(w) ==
    \/ ParseFails(w)
    \/ \E now \in 0..MaxClock : Build(w, now)
    \/ Checkout(w) \/ PoolTimeout(w)
    \/ BeginWrite(w) \/ Locked(w) \/ Commit(w) \/ CommitFails(w)
    \/ SelectScan(w) \/ SelectFindings(w) \/ SelectFails(w)
    \/ Advise(w)
    \/ Answer(w)

Next ==
    \/ \E w \in Workers : Handle(w) \/ \E r \in Requests : Receive(w, r)
    \/ Crash

Spec == Init /\ [][Next]_vars

\* Every thread that can run does: waits for a connection, for the write lock
\* and for a provider all end, by success or by their timeout.
FairSpec == Spec /\ \A w \in Workers : WF_vars(Handle(w))
-----------------------------------------------------------------------------
Labels == {"idle", "parse", "flush", "insert", "commit", "select", "row",
           "findings", "advise", "answer"}

Statuses == {0, 200, 201, 400, 404, 413, 500}

\* What evaluations find, and with it every content of a findings relationship.
Found == {Evaluation[t] : t \in Templates} \cup {<< >>}

ScanObjects == [id : 0..MaxPosts, row : Rows \cup {NoRow}, found : Found]

TypeOK ==
    /\ scans \in Seq(Rows)
    /\ findings \in Seq(Found)
    /\ Len(scans) = Len(findings) /\ Len(scans) <= posts
    /\ writer \in Workers \cup {NoWorker}
    /\ pool \subseteq Workers
    /\ pc \in [Workers -> Labels]
    /\ req \in [Workers -> Requests \cup {NoRequest}]
    /\ scan \in [Workers -> ScanObjects]
    /\ \A w \in Workers : reply[w].status \in Statuses
    /\ clock \in 0..MaxClock
    /\ setback \in 0..MaxSetback
    /\ crashes \in 0..MaxCrashes
    /\ posts \in 0..MaxPosts
    /\ answered \in [Attempts -> Statuses]
    /\ before \in [Attempts -> SUBSET Ids]

\* Connections and the write lock are never held while waiting for a connection,
\* and never kept by a worker whose request is over: the two resources cannot
\* form a cycle of waits, and none leaks however a request ends.
NoHoldAndWait ==
    /\ Cardinality(pool) <= PoolSize
    /\ \A w \in Workers :
          /\ pc[w] \in {"idle", "parse", "flush", "select"} => w \notin pool
          /\ pc[w] \in {"insert", "commit", "row", "findings", "advise"} => w \in pool
          /\ writer = w <=> pc[w] = "commit"

\* What the status of a POST says of the database, through any failures,
\* crashes and retries in between: a 201 is a scan that is there for good, a 400
\* or 413 one that never will be.  (A 500 says neither.)
StatusTellsOutcome ==
    \A a \in Attempts :
        /\ answered[a] = 201 => \E i \in 1..Len(scans) : scans[i].by = a
        /\ answered[a] \in {400, 413} => \A i \in 1..Len(scans) : scans[i].by # a

\* The gate of a body is about the findings beside it, though it was computed
\* from counters stored at scan time and read by another SELECT: it passes
\* exactly when no finding shown is CRITICAL.
GateMatchesFindings ==
    \A b \in shown :
        /\ b.finding_count = Len(b.found)
        /\ b.score.passed <=> \A i \in 1..Len(b.found) : b.found[i] # "CRITICAL"

\* Mutated Newer: ties on created_at go to the older row.
NewerTieByAge(i, j) ==
    \/ scans[i].created_at > scans[j].created_at
    \/ scans[i].created_at = scans[j].created_at /\ i < j

\* list_scans: ORDER BY created_at DESC, id DESC.
Newer(i, j) ==
    \/ scans[i].created_at > scans[j].created_at
    \/ scans[i].created_at = scans[j].created_at /\ i > j

\* The wall clock went back between the two, and at least as far as they are apart.
SetBackBetween(i, j) ==
    LET apart == scans[j].created_at - scans[i].created_at
    IN  0 < apart /\ apart <= scans[i].setback - scans[j].setback

\* The listing respects what clients can observe: a scan posted after another
\* one was shown to somebody is listed before it, although created_at is read
\* before the transaction and ids are given in commit order.  Only a wall clock
\* that was set back between the two can turn them round, and only when it was
\* set back at least as far as they are apart.
NewestFirst ==
    \A i \in 1..Len(scans) : \A j \in before[scans[i].by] : Newer(i, j) \/ SetBackBetween(i, j)

\* Every request is answered, or lost in a crash: no worker waits for ever.
EveryRequestEnds == \A w \in Workers : pc[w] # "idle" ~> pc[w] = "idle"

\* Two tables, a pool, a lock and a computed score, seen as the ledger: each
\* attempt adds at most one scan, all at once and with the right counters, no
\* scan ever changes, and clients see scans as they are stored.
Ledger ==
    INSTANCE ScanLedger WITH
        Results <- Found,
        ledger <- [i \in 1..Len(scans) |->
                     [by |-> scans[i].by, found |-> findings[i],
                      finding_count |-> scans[i].finding_count,
                      counts |-> scans[i].counts]]

ImplementsLedger == Ledger!Spec
=============================================================================
