-------------------------- MODULE RequestLifecycle --------------------------
(***************************************************************************)
(* What surrounds every handler of the service: the request-id middleware  *)
(* (api/observability.py), the rate-limit middleware inside it             *)
(* (api/rate_limit.py), the API-key gate (api/dependencies.py) and the     *)
(* handler of the route that was asked for.                                *)
(*                                                                         *)
(* The middlewares run on the event loop, where only an await lets another *)
(* request in; gate and handler run on a worker thread.  One action is the *)
(* code between two such points.  The limiter's hit() is called without an *)
(* await, so it is one step here; its arithmetic is RateLimiter's.         *)
(***************************************************************************)
EXTENDS Integers, Sequences, FiniteSets

CONSTANTS
    Requests,       \* request identities, each used once
    Inputs,         \* the requests clients send: [path, sent, apiKey, host]
    Configured,     \* the values Settings.api_key may have
    NonASCII,       \* the keys (sent or configured) with a non-ASCII character
    Caps,           \* the values the configured cap may have
    MaxWindow,      \* bound on time, counted in limiter windows
    MaxRestarts,    \* bound on the restarts of the process
    MaxFaults,      \* bound on the bookkeeping failures of the limiter
    None            \* Python's None, and an absent header

ASSUME RequestsAssumption == IsFiniteSet(Requests)
ASSUME CapsAssumption == Caps \subseteq Nat
ASSUME BoundsAssumption == MaxWindow \in Nat /\ MaxRestarts \in Nat /\ MaxFaults \in Nat

\* Mutated ClientKey: the host is preferred to the key.
ClientKeyHostFirst(in) ==
    IF in.host \notin {None, ""} THEN <<"ip", in.host>>
    ELSE IF in.apiKey \notin {None, ""} THEN <<"api", in.apiKey>>
    ELSE <<"ip", "unknown">>

\* _client_key: a digest keeps distinct keys distinct, so the key stands for it.
ClientKey(in) ==
    IF in.apiKey \notin {None, ""} THEN <<"api", in.apiKey>>
    ELSE IF in.host \notin {None, ""} THEN <<"ip", in.host>>
    ELSE <<"ip", "unknown">>

ClientKeys == {ClientKey(i) : i \in Inputs}

VARIABLES
    expected,  \* get_settings().api_key
    cap,       \* the limiter's cap
    now,       \* the current window
    counts,    \* the limiter's buckets, [window -> [client key -> count]]
    pc,        \* where a request is
    input,     \* what the request asked for
    scope,     \* request.scope["cfn_auditor.request_id"]
    context,   \* _request_id_var in the request's task and its copies
    response,  \* what the client got, or is about to get
    log,       \* the records the code has emitted while serving a request
    served,    \* history: requests whose handler has run
    passed,    \* history: requests let past the limiter in this window, per key
    faults,    \* history: bookkeeping failures in this window, per key
    boots      \* history: processes that have lived in this window

control == <<expected, cap, now>>
histories == <<passed, faults, boots>>
vars == <<expected, cap, now, counts, pc, input, scope, context, response, log,
          served, passed, faults, boots>>

Limiter == INSTANCE RateLimiter WITH
    Threads <- Requests, Keys <- ClientKeys, Window <- 1, TicksPerSecond <- 1,
    MaxTime <- MaxWindow, MaxHits <- 0,
    key <- None, sample <- None, verdict <- None, admitted <- None,
    horizon <- 0, late <- None

NoCounts == [w \in 0..MaxWindow |-> [k \in ClientKeys |-> 0]]
Nobody == [k \in ClientKeys |-> 0]
NoResponse == [status |-> 0, id |-> None]
NoInput == [path |-> None, sent |-> None, apiKey |-> None, host |-> None]

\* create_app(): the middleware reads cap and window once.
Init ==
    /\ expected \in Configured
    /\ cap \in Caps
    /\ now = 0
    /\ counts = NoCounts
    /\ pc = [r \in Requests |-> "unsent"]
    /\ input = [r \in Requests |-> NoInput]
    /\ scope = [r \in Requests |-> None]
    /\ context = [r \in Requests |-> None]
    /\ response = [r \in Requests |-> NoResponse]
    /\ log = [r \in Requests |-> << >>]
    /\ served = {}
    /\ passed = Nobody
    /\ faults = Nobody
    /\ boots = 1

Goto(r, label) == pc' = [pc EXCEPT ![r] = label]

\* The context variable, as the code serving r sees it.
get_request_id(r) == context[r]

\* One record on some logger.  RequestIdFilter annotates a record that names
\* no request id with the one in the context variable.
Record(message, status, id) == [message |-> message, status |-> status, id |-> id]
Emit(r, record) == log' = [log EXCEPT ![r] = Append(@, record)]
Filtered(r, message) == Record(message, 0, get_request_id(r))

uuid4(r) == <<"server", r>>

\* "inbound_id or uuid4().hex": a header that is absent or empty is replaced.
request_id(r, in) ==
    IF in.sent \in {None, ""} THEN uuid4(r) ELSE <<"client", in.sent>>

\* RequestLifecycleMiddleware.dispatch up to call_next: the id goes to the
\* scope and to the context variable of this task, which the tasks and threads
\* started below inherit.
Arrive(r, in) ==
    /\ pc[r] = "unsent"
    /\ input' = [input EXCEPT ![r] = in]
    /\ scope' = [scope EXCEPT ![r] = request_id(r, in)]
    /\ context' = [context EXCEPT ![r] = request_id(r, in)]
    /\ Goto(r, "limiter")
    /\ UNCHANGED <<control, counts, response, log, served, histories>>

EXEMPT_PATHS == {"/health"}

Unlimited(r) == ~Limiter!enabled \/ input[r].path \in EXEMPT_PATHS

\* RateLimitMiddleware.dispatch, disabled or exempt: nothing is counted.
Bypass(r) ==
    /\ pc[r] = "limiter"
    /\ Unlimited(r)
    /\ Goto(r, "gate")
    /\ UNCHANGED <<control, counts, input, scope, context, response, log, served, histories>>

\* Mutated Counted: the window the request falls in is collected too.
CountedGone(k) == Limiter!gc([counts EXCEPT ![now][k] = @ + 1], now + 1)

\* hit(): count, collect, decide.
Counted(k) == Limiter!gc([counts EXCEPT ![now][k] = @ + 1], now)
Verdict(k) == Limiter!outcome(counts[now][k] + 1, now)

\* RateLimitMiddleware.dispatch, the request is let through.
Admit(r) ==
    LET k == ClientKey(input[r])
    IN  /\ pc[r] = "limiter"
        /\ ~Unlimited(r)
        /\ Verdict(k).allowed
        /\ counts' = Counted(k)
        /\ passed' = [passed EXCEPT ![k] = @ + 1]
        /\ Goto(r, "gate")
        /\ UNCHANGED <<control, input, scope, context, response, log, served, faults, boots>>

\* Mutated Throttle: the request waits for a window with budget left.
ThrottleWaits(r) ==
    /\ pc[r] = "limiter"
    /\ ~Unlimited(r)
    /\ ~Verdict(ClientKey(input[r])).allowed
    /\ UNCHANGED vars

\* RateLimitMiddleware.dispatch, the 429: a warning that names no id, and a
\* response with the id found on the scope.
Throttle(r) ==
    LET k == ClientKey(input[r])
    IN  /\ pc[r] = "limiter"
        /\ ~Unlimited(r)
        /\ ~Verdict(k).allowed
        /\ counts' = Counted(k)
        /\ Emit(r, Filtered(r, "throttled"))
        /\ response' = [response EXCEPT ![r] = [status |-> 429, id |-> scope[r]]]
        /\ Goto(r, "finally")
        /\ UNCHANGED <<control, input, scope, context, served, histories>>

\* RateLimitMiddleware.dispatch, bookkeeping raises before or after the request
\* was counted: logged, and the request goes on.
FailOpen(r) ==
    LET k == ClientKey(input[r])
    IN  /\ pc[r] = "limiter"
        /\ ~Unlimited(r)
        /\ faults[k] < MaxFaults
        /\ counts' \in {counts, [counts EXCEPT ![now][k] = @ + 1]}
        /\ Emit(r, Filtered(r, "failing open"))
        /\ passed' = [passed EXCEPT ![k] = @ + 1]
        /\ faults' = [faults EXCEPT ![k] = @ + 1]
        /\ Goto(r, "gate")
        /\ UNCHANGED <<control, input, scope, context, response, served, boots>>

\* require_api_key.  compare_digest refuses, with a TypeError, a str that is not
\* pure ASCII.
Gated(r) == input[r].path # "/health"
Supplied(r) == IF input[r].apiKey = None THEN "" ELSE input[r].apiKey
Incomparable(r) == Supplied(r) \in NonASCII \/ expected \in NonASCII

\* Mutated KeyMatches: no key at all is taken for a match.
KeyMatchesAbsent(r) == Supplied(r) \in {"", expected}

KeyMatches(r) == Supplied(r) = expected

GateOpens(r) ==
    /\ pc[r] = "gate"
    /\ \/ ~Gated(r)
       \/ expected = None
       \/ ~Incomparable(r) /\ KeyMatches(r)
    /\ Goto(r, "handler")
    /\ UNCHANGED <<control, counts, input, scope, context, response, log, served, histories>>

GateRefuses(r) ==
    /\ pc[r] = "gate"
    /\ Gated(r) /\ expected # None
    /\ ~Incomparable(r) /\ ~KeyMatches(r)
    /\ response' = [response EXCEPT ![r].status = 401]
    /\ Goto(r, "finally")
    /\ UNCHANGED <<control, counts, input, scope, context, log, served, histories>>

GateRaises(r) ==
    /\ pc[r] = "gate"
    /\ Gated(r) /\ expected # None
    /\ Incomparable(r)
    /\ Goto(r, "raised")
    /\ UNCHANGED <<control, counts, input, scope, context, response, log, served, histories>>

\* FastAPI refuses a body or a parameter that does not validate (ScanCreateRequest,
\* limit, offset), a body that is no JSON even before the gate: no handler runs.
Invalid(r) ==
    /\ pc[r] = "gate"
    /\ input[r].path = "/scans"
    /\ response' = [response EXCEPT ![r].status = 422]
    /\ Goto(r, "finally")
    /\ UNCHANGED <<control, counts, input, scope, context, log, served, histories>>

\* A handler logs (the engine logs each rule that raises); once is enough to
\* tell whose id the record carries.
HandlerLogs(r) ==
    /\ pc[r] = "handler"
    /\ input[r].path = "/scans"
    /\ ~ \E i \in DOMAIN log[r] : log[r][i].message = "handler"
    /\ Emit(r, Filtered(r, "handler"))
    /\ UNCHANGED <<control, counts, pc, input, scope, context, response, served, histories>>

\* The handlers of health.py and rules.py only read constants; those of
\* scans.py, modelled in ScanService, also refuse: 400 stands for 400 and 413.
Outcomes(path) == IF path = "/scans" THEN {200, 400, 404} ELSE {200}

HandlerReturns(r, status) ==
    /\ pc[r] = "handler"
    /\ status \in Outcomes(input[r].path)
    /\ served' = served \cup {r}
    /\ response' = [response EXCEPT ![r].status = status]
    /\ Goto(r, "finally")
    /\ UNCHANGED <<control, counts, input, scope, context, log, histories>>

HandlerRaises(r) ==
    /\ pc[r] = "handler"
    /\ input[r].path = "/scans"
    /\ served' = served \cup {r}
    /\ Goto(r, "raised")
    /\ UNCHANGED <<control, counts, input, scope, context, response, log, histories>>

\* RequestLifecycleMiddleware.dispatch, the finally clause: one access line,
\* and the context variable is reset.
Complete(r, status) ==
    /\ Emit(r, Record("request.complete", status, scope[r]))
    /\ context' = [context EXCEPT ![r] = None]

\* call_next has returned: the id is echoed on the response.
Finish(r) ==
    /\ pc[r] = "finally"
    /\ response' = [response EXCEPT ![r].id = scope[r]]
    /\ Complete(r, response[r].status)
    /\ Goto(r, "done")
    /\ UNCHANGED <<control, counts, input, scope, served, histories>>

\* Mutated FinishRaised: an exception skips the access line.
FinishRaisedSilently(r) ==
    /\ pc[r] = "raised"
    /\ log' = log
    /\ context' = [context EXCEPT ![r] = None]
    /\ Goto(r, "error handler")
    /\ UNCHANGED <<control, counts, input, scope, response, served, histories>>

\* call_next has raised: status_code is still 500.
FinishRaised(r) ==
    /\ pc[r] = "raised"
    /\ Complete(r, 500)
    /\ Goto(r, "error handler")
    /\ UNCHANGED <<control, counts, input, scope, response, served, histories>>

\* Mutated ErrorId: the context variable is trusted.
ErrorIdFromContext(r) ==
    IF get_request_id(r) # None THEN get_request_id(r) ELSE uuid4(r)

\* _unhandled_exception_handler: the scope, then the context variable (reset by
\* now), then a new id.
ErrorId(r) ==
    CASE scope[r] # None -> scope[r]
      [] scope[r] = None /\ get_request_id(r) # None -> get_request_id(r)
      [] OTHER -> uuid4(r)

\* _unhandled_exception_handler, run by Starlette outside both middlewares.
HandleError(r) ==
    /\ pc[r] = "error handler"
    /\ Emit(r, Record("Unhandled exception during request.", 500, ErrorId(r)))
    /\ response' = [response EXCEPT ![r] = [status |-> 500, id |-> ErrorId(r)]]
    /\ Goto(r, "done")
    /\ UNCHANGED <<control, counts, input, scope, context, served, histories>>

\* Time: the next window begins.
NextWindow ==
    /\ now < MaxWindow
    /\ now' = now + 1
    /\ passed' = Nobody
    /\ faults' = Nobody
    /\ boots' = 1
    /\ UNCHANGED <<expected, cap, counts, pc, input, scope, context, response, log, served>>

\* The process dies and is started again: requests in flight get no answer, and
\* the buckets were in its memory.
Restart ==
    /\ boots <= MaxRestarts
    /\ boots' = boots + 1
    /\ counts' = NoCounts
    /\ pc' = [r \in Requests |-> IF pc[r] \in {"unsent", "done"} THEN pc[r] ELSE "lost"]
    /\ context' = [r \in Requests |-> None]
    /\ UNCHANGED <<control, input, scope, response, log, served, passed, faults>>

Step(r) ==
    \/ Bypass(r) \/ Admit(r) \/ Throttle(r) \/ FailOpen(r)
    \/ GateOpens(r) \/ GateRefuses(r) \/ GateRaises(r) \/ Invalid(r)
    \/ HandlerLogs(r) \/ HandlerRaises(r)
    \/ \E status \in {200, 400, 404} : HandlerReturns(r, status)
    \/ Finish(r) \/ FinishRaised(r) \/ HandleError(r)

Next ==
    \/ \E r \in Requests : Step(r) \/ \E in \in Inputs : Arrive(r, in)
    \/ NextWindow
    \/ Restart

Spec == Init /\ [][Next]_vars

\* Every step of a request is either the event loop's or that of a handler,
\* which ends by itself: ScanService shows it of the only ones that wait.
FairSpec == Spec /\ \A r \in Requests : WF_vars(Step(r))
-----------------------------------------------------------------------------
Ids == {<<"server", r>> : r \in Requests} \cup {<<"client", x>> : x \in {i.sent : i \in Inputs} \ {None, ""}}

ASSUME IdsAssumption == None \notin Ids

Labels == {"unsent", "limiter", "gate", "handler", "finally", "raised",
           "error handler", "done", "lost"}
Responses == [status : Nat, id : Ids \cup {None}]
Records ==
    [message : {"throttled", "failing open", "handler", "request.complete",
                "Unhandled exception during request."},
     status : Nat, id : Ids]

TypeOK ==
    /\ expected \in Configured
    /\ cap \in Caps
    /\ now \in 0..MaxWindow
    /\ counts \in [0..MaxWindow -> [ClientKeys -> Nat]]
    /\ pc \in [Requests -> Labels]
    /\ input \in [Requests -> Inputs \cup {NoInput}]
    /\ scope \in [Requests -> Ids \cup {None}]
    /\ context \in [Requests -> Ids \cup {None}]
    /\ response \in [Requests -> Responses]
    /\ log \in [Requests -> Seq(Records)]
    /\ served \subseteq Requests
    /\ passed \in [ClientKeys -> Nat]
    /\ faults \in [ClientKeys -> Nat]
    /\ boots \in Nat \ {0}

Lines(r) == {i \in DOMAIN log[r] : log[r][i].message = "request.complete"}

\* observability.py:142-148: however a request ends (answered, refused by the
\* gate, throttled, an exception half-way), the middleware writes its access line
\* once, and the line has the status the client was sent.
OneTruthfulLine ==
    \A r \in Requests : pc[r] = "done" =>
        \E i \in Lines(r) : Lines(r) = {i} /\ log[r][i].status = response[r].status

\* Ids never mix between requests that are served at the same time.  Every record
\* emitted for a request, on any logger, by any middleware or on the handler's
\* thread, carries that request's id (rate_limit.py:34, "carries the same id via the
\* contextvar"); and so does every answer, the 429 and the 500 included, which is
\* built after the context variable was reset: the id its client sent, or else one
\* that no other request was given.
RecordsCarryOwnId ==
    \A r \in Requests : \A i \in DOMAIN log[r] : log[r][i].id = scope[r]
ResponseCarriesOwnId ==
    \A r \in Requests : pc[r] = "done" =>
        /\ input[r].sent \notin {None, ""} => response[r].id = <<"client", input[r].sent>>
        /\ input[r].sent \in {None, ""} =>
              \A q \in Requests \ {r} : pc[q] = "done" => response[q].id # response[r].id
IdsAreTheirOwn == RecordsCarryOwnId /\ ResponseCarriesOwnId

\* Without a fault of its own, one process lets a client through cap times in a
\* window.  Failing open adds one request per failure and no more, and a restart
\* adds one fresh budget, because the buckets are memory only.
BudgetPerBoot ==
    Limiter!enabled =>
        \A k \in ClientKeys : passed[k] <= cap * boots + faults[k]

\* A caller that presents a key is throttled for its own traffic only, also when
\* it shares a host with others (rate_limit.py:134-136): more than cap requests
\* with that very key have reached the limiter.
Came(a) == {q \in Requests : pc[q] \notin {"unsent", "limiter"} /\ input[q].apiKey = a}
PresentsKey(r) == input[r].apiKey \notin {None, ""}
NoCollateral429 ==
    \A r \in Requests :
        response[r].status = 429 /\ PresentsKey(r) => Cardinality(Came(input[r].apiKey)) > cap

\* No handler runs for a request that is answered 401, 422 or 429, and a handler of a
\* gated route runs only for the configured key.
RefusedIsNotServed ==
    \A r \in served :
        /\ response[r].status \notin {401, 422, 429}
        /\ Gated(r) /\ expected # None => Supplied(r) = expected

\* Every request that arrives is answered, unless the process dies.
EveryRequestAnswered ==
    \A r \in Requests : pc[r] = "limiter" ~> pc[r] \in {"done", "lost"}
=============================================================================
