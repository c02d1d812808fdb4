----------------------------- MODULE Dashboard -----------------------------
(***************************************************************************)
(* The Streamlit pages of several users (dashboard/app.py, main, and the    *)
(* transforms and calls of dashboard/client.py) over one API.              *)
(*                                                                         *)
(* main runs once per interaction of a user, from the top.  Each API call   *)
(* it makes is answered, or raises in the client (timeout, refused          *)
(* connection).  The server works on a POST whether or not its client still *)
(* waits.  Of the API there is what ScanService promises: a POST adds one   *)
(* scan or none, and scans stay.                                           *)
(***************************************************************************)
EXTENDS Ranking, SequencesExt

CONSTANTS
    Users,
    Templates,   \* what users upload or paste
    Parsing,     \* template -> the status a POST of it gets, by the parser
    Found,       \* template -> its findings in API order: [id, severity, rule_id, resource],
                 \* names by their rank
    Earlier,     \* the scans the service may have from before
    Limit,       \* list_scans' default limit (50)
    Refusals,    \* error statuses any call may get (401, 429, 500)
    MaxClicks,   \* bound on the number of clicks on "Run scan"
    MaxClock     \* bound on the wall clock

ASSUME DashboardAssumption ==
    /\ Limit \in Nat \ {0} /\ MaxClicks \in Nat /\ MaxClock \in Nat
    /\ Parsing \in [Templates -> {201, 400, 413}]
    /\ Earlier \subseteq Seq([click : {0}, template : Templates, created_at : 0..MaxClock])
    /\ \A status \in Refusals : status \in Nat /\ status >= 400 /\ status \notin {400, 413}
    /\ Found \in [Templates -> Seq([id : {0}, rule_id : Nat, resource : Nat,
                                    severity : {"CRITICAL", "HIGH", "MEDIUM", "LOW", "INFO"}])]

VARIABLES
    scans,      \* the API's scans: row i has id i
    clock,      \* the server's wall clock
    clicks,     \* history: the clicks, with their template
    server,     \* per click, its POST: "pending", or the response
    pc,         \* per user, main's next call, or "idle" when the page is rendered
    click,      \* per user, the click main runs for
    payload,    \* per user, main's locals: the scan, ...
    advice_payload,
    screen      \* per user, what is rendered

vars == <<scans, clock, clicks, server, pc, click, payload, advice_payload, screen>>

NoPayload == [id |-> 0, findings |-> << >>]
NoAdvice == [scan_id |-> 0, provider |-> "none", items |-> << >>]
Blank == [kind |-> "blank"]
Pending == [status |-> 0, id |-> 0]

Init ==
    /\ scans \in Earlier
    /\ clock = 0
    /\ clicks = << >>
    /\ server = << >>
    /\ pc = [u \in Users |-> "idle"]
    /\ click = [u \in Users |-> 0]
    /\ payload = [u \in Users |-> NoPayload]
    /\ advice_payload = [u \in Users |-> NoAdvice]
    /\ screen = [u \in Users |-> Blank]

Goto(u, label) == pc' = [pc EXCEPT ![u] = label]

\* main ends, and its locals with it.
Leave(u) ==
    /\ payload' = [payload EXCEPT ![u] = NoPayload]
    /\ advice_payload' = [advice_payload EXCEPT ![u] = NoAdvice]
    /\ Goto(u, "idle")

\* This is on the page until the next interaction.
Render(u, page) ==
    /\ screen' = [screen EXCEPT ![u] = page]
    /\ Leave(u)
-----------------------------------------------------------------------------
(* client.py: the transforms *)

severity_rank(severity) ==
    CASE severity = "CRITICAL" -> 0 [] severity = "HIGH" -> 1 [] severity = "MEDIUM" -> 2
      [] severity = "LOW" -> 3 [] severity = "INFO" -> 4

\* The sort key of the findings table, then the order of the payload: the sort is
\* stable.
RowBefore(f, g) ==
    LET r == severity_rank(f.severity)
        s == severity_rank(g.severity)
    IN  \/ r < s
        \/ r = s /\ f.rule_id < g.rule_id
        \/ r = s /\ f.rule_id = g.rule_id /\ f.resource < g.resource
        \/ r = s /\ f.rule_id = g.rule_id /\ f.resource = g.resource /\ f.id < g.id

build_findings_rows(findings) ==
    LET rows == ToSet(findings)
    IN  Ranked(rows, {pair \in rows \X rows : RowBefore(pair[1], pair[2])})

\* The advice table: the items as they come.
build_advice_display(advice) == advice

\* Mutated TrendOrder: points of one moment keep the order of the listing.
TrendOrderStable(points) ==
    {pair \in points \X points :
        \/ pair[1].created_at < pair[2].created_at
        \/ pair[1].created_at = pair[2].created_at /\ pair[1].id > pair[2].id}

\* The sort key (created_at, scan_id).
TrendOrder(points) ==
    {pair \in points \X points :
        \/ pair[1].created_at < pair[2].created_at
        \/ pair[1].created_at = pair[2].created_at /\ pair[1].id < pair[2].id}

\* The trend: oldest first, ties by id.
build_trend_series(history) == Ranked(ToSet(history), TrendOrder(ToSet(history)))
-----------------------------------------------------------------------------
(* The API's answers *)

WithIds(findings) == [n \in DOMAIN findings |-> [findings[n] EXCEPT !.id = n]]

scan_payload(id) == [id |-> id, findings |-> WithIds(Found[scans[id].template])]

\* ORDER BY created_at DESC, id DESC
NewestFirst(rows) ==
    {pair \in (DOMAIN rows) \X (DOMAIN rows) :
        \/ rows[pair[1]].created_at > rows[pair[2]].created_at
        \/ rows[pair[1]].created_at = rows[pair[2]].created_at /\ pair[1] > pair[2]}

\* GET /scans with the default limit.
list_payload ==
    LET page == first(Ranked(DOMAIN scans, NewestFirst(scans)), Limit)
    IN  [n \in DOMAIN page |-> [id |-> page[n], created_at |-> scans[page[n]].created_at]]

\* Advice for a scan, from the static provider or from the model, whose calls may
\* fail one by one.
AdviceFor(scan) ==
    LET items(source) == [n \in DOMAIN scan.findings |->
                             [finding_id |-> scan.findings[n].id, source |-> source[n]]]
    IN  {[scan_id |-> scan.id, provider |-> "static",
          items |-> items([n \in DOMAIN scan.findings |-> "static"])]}
        \cup {[scan_id |-> scan.id, provider |-> "anthropic", items |-> items(source)] :
                 source \in [DOMAIN scan.findings -> {"static", "llm"}]}

\* The server gets to a pending POST: it stores the scan or refuses it.  It may
\* also store it and fail before it answers.
ServePost(c) ==
    /\ server[c] = Pending
    /\ \/ /\ Parsing[clicks[c].template] = 201
          /\ scans' = Append(scans, [click |-> c, template |-> clicks[c].template,
                                     created_at |-> clock])
          /\ \E status \in {201, 500} :
                server' = [server EXCEPT ![c] = [status |-> status, id |-> Len(scans) + 1]]
       \/ /\ \E status \in Refusals \cup ({Parsing[clicks[c].template]} \ {201}) :
                server' = [server EXCEPT ![c] = [status |-> status, id |-> 0]]
          /\ UNCHANGED scans
    /\ UNCHANGED <<clock, clicks, pc, click, payload, advice_payload, screen>>

\* Time passes, or the server's wall clock is set back.
SetClock ==
    /\ clock' \in (0..MaxClock) \ {clock}
    /\ UNCHANGED <<scans, clicks, server, pc, click, payload, advice_payload, screen>>
-----------------------------------------------------------------------------
(* app.py: main *)

\* The button with nothing uploaded or pasted.
RunEmpty(u) ==
    /\ pc[u] = "idle"
    /\ Render(u, [kind |-> "warning"])
    /\ UNCHANGED <<scans, clock, clicks, server, click>>

\* The button, with a template: post_scan sends the POST.
Run(u) ==
    /\ pc[u] = "idle"
    /\ Len(clicks) < MaxClicks
    /\ \E t \in Templates : clicks' = Append(clicks, [by |-> u, template |-> t])
    /\ server' = Append(server, Pending)
    /\ click' = [click EXCEPT ![u] = Len(clicks) + 1]
    /\ screen' = [screen EXCEPT ![u] = Blank]
    /\ Goto(u, "post")
    /\ UNCHANGED <<scans, clock, payload, advice_payload>>

\* Mutated Rerun: the old page stays.
RerunOverOldPage(u) ==
    /\ pc[u] = "idle"
    /\ Goto(u, "recent")
    /\ UNCHANGED <<scans, clock, clicks, server, click, payload, advice_payload, screen>>

\* Any other interaction runs main without the button.
Rerun(u) ==
    /\ pc[u] = "idle"
    /\ screen' = [screen EXCEPT ![u] = Blank]
    /\ Goto(u, "recent")
    /\ UNCHANGED <<scans, clock, clicks, server, click, payload, advice_payload>>

\* _json
raises(status) == status >= 400

\* except DashboardClientError: _surface_error's message for the status.
SurfaceError(u, status) == Render(u, [kind |-> "error", status |-> status])

\* post_scan returns.
Posted(u) ==
    LET response == server[click[u]]
    IN  /\ pc[u] = "post"
        /\ response # Pending
        /\ IF raises(response.status)
           THEN SurfaceError(u, response.status)
           ELSE /\ payload' = [payload EXCEPT ![u] = scan_payload(response.id)]
                /\ Goto(u, "advice")
                /\ UNCHANGED <<advice_payload, screen>>
        /\ UNCHANGED <<scans, clock, clicks, server, click>>

\* Mutated Advised: advice is asked for the newest scan.
AdvisedNewest(u) ==
    /\ pc[u] = "advice"
    /\ \E advice \in AdviceFor(scan_payload(Len(scans))) :
          advice_payload' = [advice_payload EXCEPT ![u] = advice]
    /\ Goto(u, "list")
    /\ UNCHANGED <<scans, clock, clicks, server, click, payload, screen>>

\* get_advice(payload["id"]) returns.
Advised(u) ==
    /\ pc[u] = "advice"
    /\ \E advice \in AdviceFor(scan_payload(payload[u].id)) :
          advice_payload' = [advice_payload EXCEPT ![u] = advice]
    /\ Goto(u, "list")
    /\ UNCHANGED <<scans, clock, clicks, server, click, payload, screen>>

\* list_scans() returns: the four parts of the results.
Listed(u) ==
    /\ pc[u] = "list"
    /\ Render(u, [ kind |-> "results",
                   scan_id |-> payload[u].id,
                   rows |-> build_findings_rows(payload[u].findings),
                   advice |-> build_advice_display(advice_payload[u]),
                   trend |-> build_trend_series(list_payload) ])
    /\ UNCHANGED <<scans, clock, clicks, server, click>>

\* The page without a scan: the trend alone.
ListedRecent(u) ==
    /\ pc[u] = "recent"
    /\ Render(u, [kind |-> "recent", trend |-> build_trend_series(list_payload)])
    /\ UNCHANGED <<scans, clock, clicks, server, click>>

\* A GET is refused.
GetRefused(u) ==
    /\ pc[u] \in {"advice", "list", "recent"}
    /\ \E status \in Refusals : SurfaceError(u, status)
    /\ UNCHANGED <<scans, clock, clicks, server, click>>

\* Mutated CallRaises: a POST without answer is sent again.
CallRaisesRetried(u) ==
    /\ pc[u] # "idle"
    /\ IF pc[u] = "post" /\ server[click[u]] # Pending
       THEN /\ server' = [server EXCEPT ![click[u]] = Pending]
            /\ UNCHANGED <<pc, screen, payload, advice_payload>>
       ELSE /\ Render(u, [kind |-> "exception"])
            /\ UNCHANGED server
    /\ UNCHANGED <<scans, clock, clicks, click>>

\* The client's timeout, or a transport error: nothing in main catches it, and the
\* page shows the exception.
CallRaises(u) ==
    /\ pc[u] # "idle"
    /\ Render(u, [kind |-> "exception"])
    /\ UNCHANGED <<scans, clock, clicks, server, click>>

\* The user does something else meanwhile, or closes the page: Streamlit stops main
\* where it would render.
Interrupted(u) ==
    /\ pc[u] # "idle"
    /\ Leave(u)
    /\ UNCHANGED <<scans, clock, clicks, server, click, screen>>

Main(u) ==
    \/ Posted(u) \/ Advised(u) \/ Listed(u) \/ ListedRecent(u)
    \/ GetRefused(u) \/ CallRaises(u)

Next ==
    \/ \E u \in Users : RunEmpty(u) \/ Run(u) \/ Rerun(u) \/ Main(u) \/ Interrupted(u)
    \/ \E c \in DOMAIN clicks : ServePost(c)
    \/ SetClock

Spec == Init /\ [][Next]_vars
-----------------------------------------------------------------------------
Results(u) == screen[u].kind = "results"
ScansOf(c) == {i \in DOMAIN scans : scans[i].click = c}

TypeOK ==
    /\ Len(server) = Len(clicks) /\ Len(clicks) <= MaxClicks
    /\ \A i \in DOMAIN scans : scans[i].click \in {0} \cup DOMAIN clicks
    /\ clock \in 0..MaxClock
    /\ pc \in [Users -> {"idle", "post", "advice", "list", "recent"}]
    /\ click \in [Users -> 0..Len(clicks)]
    /\ \A u \in Users :
          /\ payload[u].id \in {0} \cup DOMAIN scans
          /\ screen[u].kind \in {"blank", "warning", "error", "exception", "results", "recent"}
          /\ pc[u] # "idle" => screen[u].kind = "blank"

ScanOfOwnClick(u) ==
    LET page == screen[u]
    IN  /\ scans[page.scan_id].click = click[u]
        /\ clicks[click[u]].by = u
        /\ page.advice.scan_id = page.scan_id

\* The results of a click are about one scan, and it is that click's: score,
\* findings, advice and trend come from three calls between which other users
\* post.
ResultsAreOneScan ==
    \A u \in Users : Results(u) =>
        /\ ScanOfOwnClick(u)
        /\ {row.id : row \in ToSet(screen[u].rows)} =
              {item.finding_id : item \in ToSet(screen[u].advice.items)}

\* However a click ends, and however late the server gets to its POST, it stores
\* at most one scan; the page that says 400 or 413 is right that there is none.
\* (An error of a later call, or an exception, says nothing of the scan.)
OneScanPerClick ==
    /\ \A c \in DOMAIN clicks : Cardinality(ScansOf(c)) <= 1
    /\ \A u \in Users :
          screen[u].kind = "error" /\ screen[u].status \in {400, 413} => ScansOf(click[u]) = {}

\* client.py:191, "the trend is rendered oldest-first ... Ties on created_at are
\* broken by id ascending": read left to right, the chart never goes back in
\* time, and among scans of one moment never back in the order of storage.  That
\* of a results page has the scan just posted, unless Limit others have a created_at
\* as late, be it that they came later or that the clock was set back.
TrendIsTrue ==
    \A u \in Users : screen[u].kind \in {"results", "recent"} =>
        LET trend == screen[u].trend
            Older(p, q) == \/ p.created_at < q.created_at
                           \/ p.created_at = q.created_at /\ p.id < q.id
        IN  /\ \A m, n \in DOMAIN trend : m < n => Older(trend[m], trend[n])
            /\ Results(u) =>
                  LET id == screen[u].scan_id
                      sinceThen == {i \in DOMAIN scans \ {id} :
                                       scans[i].created_at >= scans[id].created_at}
                  IN  (\E n \in DOMAIN trend : trend[n].id = id) \/ Cardinality(sinceThen) >= Limit
=============================================================================
