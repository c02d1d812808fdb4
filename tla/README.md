# Verification of cfn-security-auditor

TLA+ modules, TLC configurations and TLAPS proofs for the service in
`src/src/cfn_auditor`: it takes CloudFormation templates, evaluates security
rules on them, stores each scan with its findings in SQLite, scores it, and
serves scans and per-finding advice over HTTP (FastAPI), with a Streamlit
dashboard on top. Line numbers refer to that source.

## The system

A POST travels through request-id middleware, rate limiter, API-key gate,
request validation, parser, rule loop, `_persist`, and the response schema that
scores the stored counters. Handlers are plain `def` functions: FastAPI runs
each on a thread of its worker pool, so requests interleave at every database
call. The middlewares run on the event loop, where only an `await` lets another
request in. The dashboard is a client of the API: a process of its own.

| component | state | operations | what is hard | correctness |
|---|---|---|---|---|
| scoring (`scoring.py`) | none | `score`, `_grade_for` | clamp, band boundaries, two independent verdicts (gate, grade) | monotone; verdicts agree |
| limiter core (`api/rate_limit.py`, `FixedWindowLimiter`) | bucket dictionary, lock, clock | `hit`, `_gc_locked` | clock read before the lock; collection with a stale cutoff; rounding | how far a cap is overshot; no unearned 429; Retry-After suffices; bounded memory |
| limiter middleware (same file) | the limiter | `dispatch`, `_client_key` | fail-open path, exemption, whose budget is used | one budget per client, window and process |
| observability (`api/observability.py`) | context variable, scope, log handlers | lifecycle dispatch, unhandled-exception handler, `configure_logging` | tasks and threads inherit a context variable; exceptions half-way; repeated set-up | one completion record per request; every record and answer carries its own id |
| gate, routes, schemas (`api/dependencies.py`, `api/routes`, `api/schemas.py`) | a session per request | POST, GET, list, advice, health, rules | two SELECTs per read; failures after the commit; slow advice holding a connection; paging while rows arrive | responses agree with the tables; statuses are truthful; a walk misses nothing |
| engine (`engine/scanner.py`) | session objects | `run_scan`, `_evaluate_all`, `_persist`, `_severity_counts` | a failing rule; commit then refresh; `created_at` before the transaction | failures isolated; all or nothing |
| database (`db/session.py`, `models/`) | engine, connection pool, SQLite file | sessions, `get_engine`, `create_db_and_tables` | pool exhaustion, one writer, crash, lazy initialisation | no leak, no deadlock, durability, one pool |
| parser (`parser/`) | none | `parse_template`, loader | short tags, equal keys, error classes; one bad node refuses the template | a template means the same in YAML and JSON; the last entry of an id is audited |
| rules (`rules/`) | registry | `register`, ten `evaluate` | a rule that raises half-way; intrinsic values; port ranges | one finding per violation; intrinsics prove nothing |
| advisor (`advisor/`) | corpus, SDK client | provider choice, `advise`, retrieval and ranking | per-finding fallback, errors outside the `try`, ties in the ranking | one item per finding, with an honest source and material of its own rule |
| dashboard (`dashboard/`) | Streamlit page | POST, advice, list in sequence | failure and timeout between the calls, other users meanwhile | a page shows one scan; a click stores one |
| settings (`config/settings.py`) | cached record | read | none | none |

The hazards, each at its line, are in `PROJECT.json`.

## Modules

How they build on one another (an arrow is `EXTENDS` or `INSTANCE`):

    Scoring <- ScoreCalls            RateLimiter <- RequestLifecycle
       ^------- ScanService -> ScanLedger
    Values <- Checks, Loader;  Loader <- Parser;  Checks, Parser <- Engine -> Audit
    Engine <- DocumentScans
    Ranking <- Checks, Retrieval <- Advice, Dashboard     Listing     Bootstrap

`MC...` modules give TLC its instances; `...Proofs` modules hold the theorems, and
`SequenceFacts` the lemmas about ranking, joining and counting they share.

- `Scoring` holds the operators of `scoring.py`. `ScoreCalls` is the caller's
  side: a mapping filled in key by key, also under keys that are no severity.
- `RateLimiter` is `FixedWindowLimiter` under any number of threads. `hit()` is
  two atomic steps, as in the code: `Sample` (lines 109-110, no lock) and
  `Count` (lines 111-119: count and collect under the lock; the comparison uses
  a local). `now` is counted in ticks and a window is its index. The
  dictionary is a total function where 0 means "no such key". `admitted`,
  `horizon` and `late` are history variables.
- `RequestLifecycle` is what surrounds every handler: id, limiter, gate,
  handler, the `finally` clause and the error handler, for concurrent requests.
  One action is the code between two awaits (or thread changes). `hit()` is
  called without an `await`, so it is one step; its operators come from
  `RateLimiter`. The limiter may fail before or after it counted (`FailOpen`);
  the gate may raise on a key that is not ASCII; `Restart` loses the buckets
  and the requests in flight. `log` is every record emitted for a request.
- `ScanService` is the POST, GET and advice handlers, the engine's `_persist`,
  the session and the pool, with one action per database call. A worker's `pc`
  is the next call: `parse`, `flush` (wants a connection for the INSERTs),
  `insert` (wants the write lock), `commit`, `select` (wants a connection
  again: the commit returned it), `row`, `findings`, `advise`, `answer`. Parsing
  and rule evaluation are inputs (`Parsing`, `Evaluation`), chosen per template.
  Waiting for a connection or for SQLite's write lock may end in the timeout of
  the library (`PoolTimeout`, `Locked`); the commit, both SELECTs and the
  provider may raise; `Crash` drops every request and rolls back. `Build` reads
  the wall clock (`Read`): any reading may follow any other, also in the next
  process. Two history variables keep the last reading and how far readings have
  gone back in all.
- `ScanLedger` is the abstract specification: an append-only ledger in which an
  attempt adds at most one entry whose counters are the tally of its findings,
  and clients are shown entries as they stand. `ScanService` implements it under
  the mapping `Ledger`: entry *i* is row *i* of `scans` joined with its rows of
  `findings`.
- `Values` are Python values (a dict is the sequence of its items) and the
  helpers of `rules/intrinsics.py`; `Checks` the ten rules, each an operator from
  a resource to findings or `Raises`; `Loader` the loader's constructors on YAML
  nodes; `Parser` is `parse_template`, from the value of a document to a template
  or an error. A node is a finite tree, nested at most `Depth` deep, with the
  short tags (`Tags`) and dotted texts (`Dotted`) of the instance; the loader is
  two recursive functions on nodes, `construct` (the value) and `constructible`
  (whether every mapping key can be hashed), which reach down to `Room` so that
  they are also defined on a document whose tags are spelled out as mappings.
  `Engine` is `run_scan`: one action per pass of the inner loop. `Audit` is its
  abstract specification, one step from content to refusal or to rows and logged
  failures, over a parser and rules that are constants of it; `Engine` implements
  it under `verdict`. `DocumentScans` adds an author who extends a document entry
  by entry, also under an id that is already there, before it is posted.
- `Ranking` is `sorted()` on a set: an element's place is the number of elements
  before it. Passages, list rows and trend points are ordered with it.
- `Retrieval` is `rag.py`: loading, tokens, relevance, order and cut. `Advice` is
  one advice request: `get_provider`, and `advise` finding by finding with
  retrieval, the model's call, its failures and the fallback. A text is a record
  of where it comes from, so that provenance can be compared with `source`.
- `Listing` is offset paging while writers, whose `created_at` is older than
  their commit, add rows and the wall clock is set back.
- `Dashboard` is `main()` of several users with its three calls, each answered,
  refused or raising in the client, over an API of which there is what
  `ScanService` promises, with a wall clock that may be set back. The server
  works on a POST whether or not its client still waits.
- `Bootstrap` is a process from its imports to its first requests: `register`,
  `create_app` (also several times), `configure_logging`, the lifespan hook, and
  `get_engine` with each line that touches `_engine` a step of its own, and
  `create_all` a step per table; the process may die anywhere and be started again
  on the same database.

A few definitions named "Mutated ..." stand before the definition they vary;
they are seeded faults that show which bug each property catches.

## Runs

| run | question | instance |
|---|---|---|
| `scoring` | do the two verdicts agree, and do more findings never help? | counts -1..3 and absent, five severities and a foreign key: each grade, the clamp and the refusal occur |
| `limiter_threads` | what do stale clock samples leave intact? | two threads, two clients, caps 0 to 2, three windows of 3 ticks (one more than may be kept), 2 ticks to the second |
| `lifecycle` | do ids, log lines, statuses and budgets stay with their request? | two requests, six kinds of request (every path, key right, wrong, absent, not ASCII), caps 0 and 1, two windows, one restart, one fault: two requests are enough to mix ids up and to exceed a cap of 1 |
| `scan_service` | do the tables implement the ledger, and are responses truthful? | two workers and two connections (they meet at the write lock), two POSTs, any number of reads, a refused, a clean and a failing template, one crash, two clock readings, so that `created_at` ties and differs, and one step back of the clock |
| `scan_liveness` | does every request end? | two workers, one connection (they meet at the pool; with one connection nobody waits for the write lock, which `scan_service` has), one crash, one clock reading |
| `engine` | does the loop do what the rules' docstrings and the abstract audit say, and is a document read as CloudFormation reads it? | every resource type with each kind of value for each property a rule reads; pairs of resources of which one makes a rule raise; documents of up to three entries over four ids and seven bodies; five faults of the content; no document is nested deeper than the bound of 10 |
| `engine_sg_entries` (violation) | is there a finding for each open ingress entry? | same |
| `advice` | is each item about its finding, grounded and honest about its source? | three findings, corpora of files with four stems and eight kinds of header, five configurations, five kinds of answer; words on both sides of the ten a rule match weighs |
| `advice_blank_text` (violation) | has every item a remediation? | same |
| `listing` | what does a client see that walks through the pages? | two writers, four scans, page sizes 1 and 2, clock set forward and back |
| `dashboard` | does a page show one scan, and the trend the right ones? | two users, three clicks against a list limit of two, so that a scan can be pushed off the list; a refused and a stored template; two clock readings in any order |
| `bootstrap` | one pool, tables and rules before the first session? | two workers, three boots, three calls of `create_app`, modules with and without a pasted rule id |

The finest ordering of a run is that of its actions. Where two actors suffice
to break a property (ids, budgets, locks, `created_at`), two are used; the proofs
below cover any number.

Deadlock checking is off where the system stops: `limiter_threads` (bounded
clock and hits), `lifecycle` (each request is sent once), `engine` and `advice`
(one scan, one request), `bootstrap` (bounded boots). `scan_service`,
`scan_liveness`, `listing` and `dashboard` check it. Symmetry is used over
threads, clients, workers, writers and users, in safety runs only.

Fairness: the `FairSpec` of `ScanService` asks weak fairness of each worker's next
step and nothing of clients, clock or crashes. It is justified because every
wait of a handler has a limit in the libraries it calls: the pool's checkout
timeout, SQLite's busy timeout and the LLM client's timeout. Without the pool's
timeout the property fails (a worker can be overtaken for ever), as its mutant
shows. `RequestLifecycle` asks weak fairness of each request's next step: the
event loop runs what is ready, and the handlers end, as `scan_liveness` shows.

### Disagreements between documentation and code

With a run:

- `sg.py:57` promises one finding per offending entry; an address that cannot be
  hashed (a list or a literal dict) raises at line 72 and takes the findings of
  the other entries with it (`engine_sg_entries`).
- `prompts.md:369` and `tests/api/test_advice.py:43` expect a remediation in every
  item; a text block of white space passes the test at `anthropic.py:91` before it
  is stripped, and the item is empty and labelled `llm` (`advice_blank_text`).

Seen while modelling, without a run of their own:

- `scoring.py:88-89` promises `KeyError` for extra keys; `score` ignores them.
- `rate_limit.py:12-13`: with two or more calling threads a window admits more
  than the cap, because the window is derived before the lock is taken
  (`OvershootBounded` says by how much). The deployed middleware calls `hit` from
  one thread, where the cap is exact (proved).
- `observability.py:210-211`: an unhandled exception is recorded twice, by the
  `finally` clause and by the error handler.
- `dependencies.py:34-35`: an `api_key` configured as the empty string is a gate
  that a request without the header passes, where the docstring asks for a key.
- `dependencies.py:34-35`: a key that is not ASCII makes `compare_digest` raise,
  so the answer is 500 and not 401.
- `prompts.md:217` ("it never refuses to scan because of one unparseable or unknown
  node"), `docs/DECK.md:91` ("One unparseable node ... never abort the scan") and
  `scanner.py:10-11` ("the parser already degrades per-node"): it does for unknown
  tags, but one entry of `Resources` that is not a resource refuses the template at
  `parse.py:83`, and the resources beside it are not scanned. `OnlyRepairAccepts`
  says what the code does instead: such a template stays refused until each entry
  it was refused for is written anew.
- `anthropic.py:125`: a corpus file that is not UTF-8 fails the whole advice call.
- `client.py:212` sorts the findings table by severity, while the advice beside it
  keeps the API's order; `app.py:84` names the provider also over static texts.
- `settings.py:44` has a log level that `observability.py:135` never reads.

## Proofs

The scores (the end of `ScanServiceProofs`), from the two assumptions on the
constants of `ScoreCalls`: type correctness, and for all integer counts that the grade's interval holds the
score, that gate and grade agree, that a missing severity counts as none, and
monotonicity. The argument goes through the closed form of `_grade_for`
(`GradeValue`) and of the penalty.

`RateLimiterProofs`, from finite non-empty `Threads`, natural caps and a
positive window, proves everything the module states: type correctness;
`OvershootBounded`; `CapPerWindow` when there is one thread; `CurrentWindowExact`;
`RejectedOnlyWhenSpent`; `RetryAfterIsTight`; `WindowsKeptBounded`;
`CurrentBucketsKept`. None of the counting properties is inductive. The
invariant `IInv` adds that nothing is counted in a future window, that the
limiter is exact for windows no thread has collected past (`OnTimeExact`), that
a bucket only ever loses counts (`CountsAreAdmitted`), and that after that at
most the late threads add one each (`LateBounded`), because a thread late for a
window never samples it again (`LateOnce`) and the thread that moved the horizon
is not late for it (`OneNeverLate`). For memory, `Owned` gives every kept window
a thread of its own, and an injection into `Threads` bounds their number.

`ScanServiceProofs`, for any number of workers, connections, templates,
requests and crashes, from a finite set of workers, a non-empty pool and
templates whose evaluation is a sequence of severities: type correctness;
`NoHoldAndWait`; `StatusTellsOutcome`; `NewestFirst`; `GateMatchesFindings`; and
`ImplementsLedger`, the refinement of `ScanLedger`. The invariant `IInv` says what
each stage of a handler knows. An attempt belongs to one worker and has no row
until that worker commits (`AttemptsInFlight`, `OneRowPerAttempt`): without it an
attempt could be recorded twice, or the row bound and the truth of a 400 could
not be kept. What a session has built carries the right counters, and was built
no earlier than any scan shown before the request (`BuiltScans`). "Earlier" cannot
be said of `created_at`, which comes from a clock that may be set back. `Instant` is
that reading plus how far readings had gone back until then, which never decreases
(`ReadAdvances`); so `NewestFirst` can promise that a scan is listed before those
its client had seen, or that the clock was set back between the two, at least as
far as they are apart.
What the first SELECT read still is the row when the second one runs
(`ReadsInFlight`), so every body is the one the tables give (`Truthful`). The
proof regroups `IInv` into a part per worker (`Local`) and a part about the tables
(`Global`); eleven actions change neither tables nor other workers and go
through one lemma, `QuietStep`.

The start of the process (the end of `RequestLifecycleProofs`), for any workers, boots and declared rule ids: type
correctness; `OnePool`; `SessionsSeeTables`; `RulesAreAllThere`; `OneHandler`.
`get_engine` alone does not keep `OnePool`: the invariant says where its callers
are, that the lifespan hook is alone before the process serves (`FirstCaller`)
and that every later caller finds the engine built and all tables there
(`LaterCallers`), whatever earlier processes left of them; `Registered` and `Installed` say how far the imports and the
logging are at each stage.

`RequestLifecycleProofs`, for a finite set of requests and any inputs, keys,
caps, windows, restarts and failures of the limiter: type correctness;
`OneTruthfulLine`; `IdsAreTheirOwn`; `RefusedIsNotServed`; `BudgetPerBoot`;
`NoCollateral429`; from `None` being no id. The invariant `IInv` has a part per
request (`LocalOK`: the scope's id is for good and the context variable holds
while the request is inside the first middleware; no access line before it is
left; who is at a handler came through the gate) and three parts about the
limiter: `Spent` (a process lets through what it has counted, up to the cap, and
earlier processes of the window a cap each), `Charged` (a bucket has no more
counts than requests with its key have come past the limiter) and `Unmixed`.
Each action has one lemma for its own request; `Elsewhere` carries every other
request over, because a step touches one request's entries only (`Frame`).

`ListingProofs`, for any writers, number of rows, page sizes, clock readings and
any order the sort keys allow: type correctness; `NothingSkipped`;
`EachRepeatHidesAnArrival`. That a finished walk skips nothing is not inductive:
`NothingPassed` says of a walk under way that each row of its beginning has been
shown, or has at least as many rows ahead of it as the client has received. An
arrival can only raise that number (`AheadGrows`), and a row with *n* rows ahead of
it is at place *n* + 1 of every answer (`PlaceInOrder`: the order is total because
the id breaks ties, and an answer is an injection of the rows into themselves,
so a surjection), so the page that would pass it contains it (`PageShows`).

`AdviceProofs`, for findings that are a sequence, each of finitely many words, and
any configurations, corpus and messages: type correctness; `ItemPerFinding`;
`MisconfigurationNeverBreaks`; `GroundedInOwnRule`; `NewFileDisplacesOnly`. The
invariant relates what is collected (`Collected`), the finding at hand (`Current`)
and the failures so far, which are of findings that had their turn
(`TurnsTaken`): otherwise a later failure could make an earlier source a lie.
`Grounding` adds that the passages of a prompt, of the item at hand and of every
item that has a text of the model are what `retrieve` gives for *their* finding. The
rest is about `retrieve`: the order of `rank_passages` is strict and total on
files with distinct names, so a passage's place is the number of relevant ones
before it (`RankedFacts`), and one file more moves the others by one place or not
at all.

`DashboardProofs`, for any users, templates, clicks, error statuses of 400 and more
other than 400 and 413, and earlier scans: type correctness; `OneScanPerClick`;
`ResultsAreOneScan`; `TrendIsTrue`. `Posts` says what the server has done about a
click at each stage of its POST, also when nobody waits for it any more, and
`Pages` what `main` and the page of a user rely on. `Shown` adds what is on the
page: the findings are those of the stored scan and the advice has the same
(the two tables are two orders of one set), the chart runs forward, and who is
missing from it has `Limit` scans after it, which later arrivals cannot undo.

`EngineProofs`, for documents nested to any depth, any tags, and an author's
entries in any number: type correctness; `ImplementsAudit`, the refinement of
`Audit`; `IntrinsicsProveNothing`; `FindingsAsDocumented`; `ShortFormIsLongForm`;
`LastVersionAudited`; `OnlyRepairAccepts`. The first five are proved twice, of the
scan of a given document (`Spec`) and of one that an author is still writing
(`DocumentSpec`, which the run checks); the last two are about the author. What is
assumed: the depth is a natural number, what clients begin with and what an author
adds is nested no deeper than it, a dotted text splits into two strings, and the
string literals of the modules are strings (the provers know that of none).
`LoopInv` is the invariant of the loop; `DocumentInv` adds `Authoring`, that the
content is the author's entries while they are written. The invariant `LoopInv` says that what is collected, and what is logged,
is the table of all opinions (one row per resource, one entry per rule, empty
where the rule does not apply), read up to the loop's position; each action then
appends one entry of the table, and when `i` has passed the last resource the
whole table has been read, which is what `Audit` says in one step. The parser
enters as one lemma: a template has well-formed resources or an error and none.
For that the values of a document have to be of their kinds (a list has values, a
dict keys and values, an int is an integer), which is proved of every node
(`ConstructWellMade`).
That an intrinsic proves nothing is a lemma per rule, from what a property is read
as when its value is replaced (`None`, after `literal_or_none`, or the same); the
two IAM rules and the ingress rule also need that the number of findings is that
of the entries and statements kept, which only shrinks. What
the author adds is a step of `Audit` too (`Edit`).

That the rules give what their docstrings promise goes by resource type. The
findings of a severity are summed over the ten rules; for a type, all but one or
two rules give none. A rule that reads one property is split on what
`literal_or_none` makes of it. A rule that walks entries or statements (ingress,
the IAM rules) gives one finding per element its filter keeps, and the kept
positions are matched one to one with the positions the docstring speaks of:
their numbers agree for lists of any length. A resource on which a rule raises
is promised nothing, as in the run.

What the loader makes of a document goes by induction on how deep a node is nested.
The recursive functions are first shown to satisfy the equations that define them
(`WithinStep`, `ConstructStep`, `ConstructibleStep`, `SpelledStep`: functions with
that equation exist up to any depth, and any two of them agree). Then
`SpeltOut(c, d)` says of a node what its spelled-out form keeps: it is a node, at
most twice as deep and two more, with the same value, constructible exactly when the
node is. Two mappings have the same value when their pairs have. For the
author, `Collected` says what *n* assignments of `construct_mapping` have left: one
item per key, with the value the key had last; the template is these items, one
resource each (`EachIdOnce`). A template that is accepted with one more entry can
also be constructed without it (`ShorterConstructible`), so it was refused for an
entry; and an entry that was the last under its key still is, unless the new one is
under that key (`OnlyThatKeyRepairs`).

`SequenceFacts` has what these rest on: that `Ranked` lists each element of a
finite set once and in its order, when two finite sets have as many elements, and
what `FlattenSeq` gives for a longer or a concatenated sequence. The community
modules define `FlattenSeq` with a recursive function, so that it has a value at
all is proved by induction on the length, in a form that needs no theorem with an
operator parameter (the least counterexample in a set of numbers).

Every inductive invariant was checked with TLC on the run's instance before it
was proved. `CapPerWindow`, `GradeMatchesBand`, `MissingIsZero`,
`GateMatchesFindings`, `CurrentBucketsKept`, `OneHandler` and the `TypeOK` of
`RateLimiter`, `RequestLifecycle` and `ScanService`, `CallsTypeOK` and `BootTypeOK`
are not repeated in a run: the theorem says more.

Every invariant and action property that a passing run checks is stated by a
theorem. Model-checked only: liveness (`EveryRequestEnds`,
`EveryRequestAnswered`), which with fairness is out of the prover's reach. The
induction theorems of the library take an operator as a parameter, which the
provers cannot instantiate; where induction is needed here, it is on a number (a
depth, a length, a count) and through the set of numbers for which the claim holds
(`AllNumbers` of `SequenceFacts`).

## Not modelled

- Streamlit's layout, captions and downloads; of the dashboard there is the
  order of the calls, what becomes of their outcomes, and the transforms.
- The wording of messages, prompts and remediation texts, and the JSON
  formatter's fields.
- pydantic's reading of the environment: settings are constants or chosen at
  the start.
- `reset_engine_for_testing`, which only tests call.
- SQLite, SQLAlchemy, FastAPI's routing, PyYAML's scanner, the Anthropic SDK and
  the clocks are external: they appear as the code relies on them (one writer,
  atomic commit, a SELECT sees committed rows, bounded waits, nodes with tags,
  content blocks or an exception). The wall clock may be set back wherever it is
  read; the limiter's clock is `time.monotonic` and does not go back.
- Documents with a list or mapping that contains itself through an alias. Where no
  tag is involved, PyYAML builds a cyclic value of them.
- How long anything takes. That slow advice keeps connections from others
  (`scans.py:139`) ends in the pool's timeout and a 500, which the properties permit;
  so is a 500 for a scan that is stored (`scanner.py:135`).

## Plan

Left for later, in this order: a larger `lifecycle` instance (a third request at
one more cap); the rest of the dashboard's page, if it comes to keep
more than the results of one run.
