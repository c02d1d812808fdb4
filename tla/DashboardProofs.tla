-------------------------- MODULE DashboardProofs --------------------------
(***************************************************************************)
(* Theorems about Dashboard, for any users, templates, earlier scans, error *)
(* statuses and any number of clicks.                                      *)
(***************************************************************************)
EXTENDS Dashboard, SequenceFacts

IsSeq(s) == \E S : s \in Seq(S)
OverUsers(f) == f = [u \in Users |-> f[u]]

Shapes ==
    /\ IsSeq(scans) /\ IsSeq(clicks) /\ IsSeq(server)
    /\ OverUsers(payload) /\ OverUsers(advice_payload) /\ OverUsers(screen)
    /\ \A n \in 1..Len(clicks) : clicks[n].template \in Templates

NoScan == {400, 413}

\* What the server has done about a click: no scan before it answers or when it
\* refuses the template, the one it answers with when it says 201.
PostOK(c, response, rows) ==
    /\ response.status \in Nat
    /\ response.status < 400 => response = Pending \/ response.status = 201
    /\ response = Pending \/ response.status \in NoScan =>
          \A i \in 1..Len(rows) : rows[i].click # c
    /\ response.status = 201 =>
          response.id \in 1..Len(rows) /\ rows[response.id].click = c
    /\ \A i, j \in 1..Len(rows) : rows[i].click = c /\ rows[j].click = c => i = j
Posts == \A c \in 1..Len(clicks) : PostOK(c, server[c], scans)

\* Where main of a user is: in the page of a click of theirs, with its scan.
OwnClick(u) == click[u] \in 1..Len(clicks) /\ clicks[click[u]].by = u
OwnScan(u, id) == id \in 1..Len(scans) /\ scans[id].click = click[u]
MainOK(u) ==
    /\ pc[u] \in {"post", "advice", "list"} => OwnClick(u)
    /\ pc[u] \in {"advice", "list"} => OwnScan(u, payload[u].id)
    /\ pc[u] = "list" => advice_payload[u].scan_id = payload[u].id

\* What a user sees.
ScreenOK(u) ==
    /\ Results(u) =>
          /\ OwnClick(u)
          /\ OwnScan(u, screen[u].scan_id)
          /\ screen[u].advice.scan_id = screen[u].scan_id
    /\ screen[u].kind = "error" /\ screen[u].status \in NoScan =>
          click[u] \in 1..Len(clicks) /\ server[click[u]].status \in NoScan

Pages == \A u \in Users : MainOK(u) /\ ScreenOK(u)

IInv == TypeOK /\ Shapes /\ Posts /\ Pages
-----------------------------------------------------------------------------
LEMMA SeqFacts ==
    ASSUME NEW s, IsSeq(s), NEW e
    PROVE  /\ Len(s) \in Nat /\ DOMAIN s = 1..Len(s)
           /\ IsSeq(Append(s, e))
           /\ Len(Append(s, e)) = Len(s) + 1
           /\ \A n \in 1..Len(s) : Append(s, e)[n] = s[n]
           /\ Append(s, e)[Len(s) + 1] = e
<1>1. PICK S : s \in Seq(S)
  BY DEF IsSeq
<1>2. s \in Seq(S \cup {e})
  BY <1>1, SeqMonotonic
<1> QED
  BY <1>2, LenProperties, AppendProperties DEF IsSeq

LEMMA Lengths ==
    ASSUME IInv
    PROVE  /\ Len(scans) \in Nat /\ DOMAIN scans = 1..Len(scans)
           /\ Len(clicks) \in Nat /\ DOMAIN clicks = 1..Len(clicks)
           /\ Len(server) \in Nat /\ DOMAIN server = 1..Len(server)
           /\ Len(server) = Len(clicks)
BY SeqFacts DEF IInv, Shapes, TypeOK

\* A step of user u that leaves the server and the clicks alone.
UserStep(u) ==
    /\ UNCHANGED <<scans, clock, clicks, server, click>>
    /\ pc' \in [Users -> {"idle", "post", "advice", "list", "recent"}]
    /\ OverUsers(payload)' /\ OverUsers(advice_payload)' /\ OverUsers(screen)'
    /\ \A v \in Users \ {u} :
          /\ pc'[v] = pc[v]
          /\ payload'[v] = payload[v]
          /\ advice_payload'[v] = advice_payload[v]
          /\ screen'[v] = screen[v]

UserTypeOK(u) ==
    /\ payload[u].id \in {0} \cup DOMAIN scans
    /\ screen[u].kind \in {"blank", "warning", "error", "exception", "results", "recent"}
    /\ pc[u] # "idle" => screen[u].kind = "blank"

LEMMA OthersKeep ==
    ASSUME IInv, NEW u \in Users, UserStep(u),
           UserTypeOK(u)', MainOK(u)', ScreenOK(u)'
    PROVE  IInv'
<1>1. ASSUME NEW v \in Users, v # u
      PROVE  UserTypeOK(v)' /\ MainOK(v)' /\ ScreenOK(v)'
  <2>1. /\ UNCHANGED <<scans, clock, clicks, server, click>>
        /\ pc'[v] = pc[v] /\ payload'[v] = payload[v]
        /\ advice_payload'[v] = advice_payload[v] /\ screen'[v] = screen[v]
    BY <1>1 DEF UserStep
  <2>2. UserTypeOK(v) /\ MainOK(v) /\ ScreenOK(v)
    BY DEF IInv, TypeOK, UserTypeOK, Pages
  <2>3. UserTypeOK(v)'
    BY <2>1, <2>2 DEF UserTypeOK
  <2>4. MainOK(v)'
    BY <2>1, <2>2 DEF MainOK, OwnClick, OwnScan
  <2>5. ScreenOK(v)'
    BY <2>1, <2>2 DEF ScreenOK, Results, OwnClick, OwnScan
  <2> QED
    BY <2>3, <2>4, <2>5
<1>2. \A v \in Users : UserTypeOK(v)' /\ MainOK(v)' /\ ScreenOK(v)'
  BY <1>1
<1>3. TypeOK'
  BY <1>2 DEF IInv, TypeOK, UserTypeOK, UserStep
<1>4. Shapes'
  BY DEF IInv, Shapes, UserStep
<1>5. Posts'
  BY DEF IInv, Posts, UserStep
<1>6. Pages'
  BY <1>2 DEF Pages
<1> QED
  BY <1>3, <1>4, <1>5, <1>6 DEF IInv

\* main renders a page and ends.
LEMMA RenderKeeps ==
    ASSUME IInv, NEW u \in Users, NEW page, Render(u, page),
           UNCHANGED <<scans, clock, clicks, server, click>>,
           page.kind \in {"warning", "error", "exception", "results", "recent"},
           page.kind = "results" =>
              /\ OwnClick(u) /\ OwnScan(u, page.scan_id)
              /\ page.advice.scan_id = page.scan_id,
           page.kind = "error" /\ page.status \in NoScan =>
              click[u] \in 1..Len(clicks) /\ server[click[u]].status \in NoScan
    PROVE  IInv'
<1>1. /\ screen' = [screen EXCEPT ![u] = page]
      /\ payload' = [payload EXCEPT ![u] = NoPayload]
      /\ advice_payload' = [advice_payload EXCEPT ![u] = NoAdvice]
      /\ pc' = [pc EXCEPT ![u] = "idle"]
  BY DEF Render, Leave, Goto
<1>2. OverUsers(screen) /\ OverUsers(payload) /\ OverUsers(advice_payload)
  BY DEF IInv, Shapes
<1>3. pc \in [Users -> {"idle", "post", "advice", "list", "recent"}]
  BY DEF IInv, TypeOK
<1>4. screen'[u] = page /\ payload'[u] = NoPayload /\ pc'[u] = "idle"
  BY <1>1, <1>2, <1>3 DEF OverUsers
<1>5. UserStep(u)
  <2>1. OverUsers(screen)' /\ \A v \in Users \ {u} : screen'[v] = screen[v]
    BY <1>1, <1>2 DEF OverUsers
  <2>2. OverUsers(payload)' /\ \A v \in Users \ {u} : payload'[v] = payload[v]
    BY <1>1, <1>2 DEF OverUsers
  <2>3. OverUsers(advice_payload)' /\ \A v \in Users \ {u} : advice_payload'[v] = advice_payload[v]
    BY <1>1, <1>2 DEF OverUsers
  <2>4. /\ pc' \in [Users -> {"idle", "post", "advice", "list", "recent"}]
        /\ \A v \in Users \ {u} : pc'[v] = pc[v]
    BY <1>1, <1>3
  <2> QED
    BY <2>1, <2>2, <2>3, <2>4 DEF UserStep
<1>6. UserTypeOK(u)'
  BY <1>4 DEF UserTypeOK, NoPayload
<1>7. MainOK(u)'
  BY <1>4 DEF MainOK
<1>8. ScreenOK(u)'
  BY <1>4 DEF ScreenOK, Results, OwnClick, OwnScan
<1> QED
  BY <1>5, <1>6, <1>7, <1>8, OthersKeep

\* main goes on, with what a call returned.
LEMMA GoesOn ==
    ASSUME IInv, NEW u \in Users, NEW label \in {"advice", "list", "recent"},
           pc' = [pc EXCEPT ![u] = label],
           UNCHANGED <<scans, clock, clicks, server, click>>,
           OverUsers(payload)', OverUsers(advice_payload)', OverUsers(screen)',
           \A v \in Users \ {u} :
              /\ payload'[v] = payload[v]
              /\ advice_payload'[v] = advice_payload[v]
              /\ screen'[v] = screen[v],
           screen'[u].kind = "blank",
           payload'[u].id \in {0} \cup DOMAIN scans,
           label # "recent" => OwnClick(u) /\ OwnScan(u, payload'[u].id),
           label = "list" => advice_payload'[u].scan_id = payload'[u].id
    PROVE  IInv'
<1>1. pc \in [Users -> {"idle", "post", "advice", "list", "recent"}]
  BY DEF IInv, TypeOK
<1>2. /\ pc' \in [Users -> {"idle", "post", "advice", "list", "recent"}]
      /\ pc'[u] = label
      /\ \A v \in Users \ {u} : pc'[v] = pc[v]
  BY <1>1
<1>3. UserStep(u)
  BY <1>2 DEF UserStep
<1>4. UserTypeOK(u)'
  BY <1>2 DEF UserTypeOK
<1>5. MainOK(u)'
  BY <1>2 DEF MainOK, OwnClick, OwnScan
<1>6. ScreenOK(u)'
  BY DEF ScreenOK, Results
<1> QED
  BY <1>3, <1>4, <1>5, <1>6, OthersKeep
-----------------------------------------------------------------------------
LEMMA Starts == Init => IInv
<1> SUFFICES ASSUME Init
             PROVE  IInv
  OBVIOUS
<1>1. /\ IsSeq(scans) /\ Len(scans) \in Nat /\ DOMAIN scans = 1..Len(scans)
      /\ \A i \in 1..Len(scans) : scans[i].click = 0
  <2>1. scans \in Seq([click : {0}, template : Templates, created_at : 0..MaxClock])
    <3>1. scans \in Earlier
      BY DEF Init
    <3>2. Earlier \subseteq Seq([click : {0}, template : Templates, created_at : 0..MaxClock])
      BY DashboardAssumption
    <3> QED
      BY <3>1, <3>2
  <2>2. \A i \in 1..Len(scans) :
           scans[i] \in [click : {0}, template : Templates, created_at : 0..MaxClock]
    BY <2>1, ElementOfSeq
  <2> QED
    BY <2>1, <2>2, LenProperties DEF IsSeq
<1>2. clicks = << >> /\ server = << >> /\ Len(clicks) = 0 /\ Len(server) = 0
  BY DEF Init
<1>3. /\ pc = [u \in Users |-> "idle"] /\ click = [u \in Users |-> 0]
      /\ \A u \in Users : pc[u] = "idle" /\ payload[u].id = 0 /\ screen[u].kind = "blank"
  BY DEF Init, NoPayload, Blank
<1>4. TypeOK
  BY <1>1, <1>2, <1>3, DashboardAssumption DEF Init, TypeOK
<1>5. Shapes
  <2>1. IsSeq(clicks) /\ IsSeq(server)
    BY <1>2, EmptySeq DEF IsSeq
  <2>2. IsSeq(scans) /\ \A n \in 1..Len(clicks) : clicks[n].template \in Templates
    BY <1>1, <1>2
  <2>3. OverUsers(payload) /\ OverUsers(advice_payload) /\ OverUsers(screen)
    BY DEF Init, OverUsers
  <2> QED
    BY <2>1, <2>2, <2>3 DEF Shapes
<1>6. Posts
  BY <1>2 DEF Posts
<1>7. Pages
  BY <1>3 DEF Pages, MainOK, ScreenOK, Results
<1> QED
  BY <1>4, <1>5, <1>6, <1>7 DEF IInv

LEMMA RunEmptyKeeps ==
    ASSUME IInv, NEW u \in Users, RunEmpty(u)
    PROVE  IInv'
<1> DEFINE page == [kind |-> "warning"]
<1>1. Render(u, page) /\ UNCHANGED <<scans, clock, clicks, server, click>>
  BY DEF RunEmpty
<1>2. page.kind = "warning"
  OBVIOUS
<1> HIDE DEF page
<1> QED
  BY <1>1, <1>2, RenderKeeps

LEMMA RerunKeeps ==
    ASSUME IInv, NEW u \in Users, Rerun(u)
    PROVE  IInv'
<1>1. /\ screen' = [screen EXCEPT ![u] = Blank]
      /\ pc' = [pc EXCEPT ![u] = "recent"]
      /\ UNCHANGED <<scans, clock, clicks, server, click, payload, advice_payload>>
  BY DEF Rerun, Goto
<1>2. OverUsers(screen) /\ OverUsers(payload) /\ OverUsers(advice_payload)
  BY DEF IInv, Shapes
<1>3. /\ OverUsers(screen') /\ screen'[u] = Blank
      /\ \A v \in Users \ {u} : screen'[v] = screen[v]
  BY <1>1, <1>2 DEF OverUsers
<1>4. OverUsers(screen)' /\ OverUsers(payload)' /\ OverUsers(advice_payload)'
  BY <1>1, <1>2, <1>3 DEF OverUsers
<1>5. screen'[u].kind = "blank"
  BY <1>3 DEF Blank
<1>6. payload'[u].id \in {0} \cup DOMAIN scans
  BY <1>1 DEF IInv, TypeOK
<1> QED
  BY <1>1, <1>3, <1>4, <1>5, <1>6, GoesOn

LEMMA PostedKeeps ==
    ASSUME IInv, NEW u \in Users, Posted(u)
    PROVE  IInv'
<1> DEFINE response == server[click[u]]
<1>1. /\ pc[u] = "post" /\ response # Pending
      /\ UNCHANGED <<scans, clock, clicks, server, click>>
  BY DEF Posted
<1>2. OwnClick(u)
  BY <1>1 DEF IInv, Pages, MainOK
<1>3. PostOK(click[u], response, scans)
  BY <1>2 DEF IInv, Posts, OwnClick
<1>4. CASE raises(response.status)
  <2> DEFINE page == [kind |-> "error", status |-> response.status]
  <2>1. Render(u, page)
    BY <1>4 DEF Posted, SurfaceError
  <2>2. page.kind = "error" /\ page.status = response.status
    OBVIOUS
  <2> HIDE DEF page
  <2>3. page.status \in NoScan => click[u] \in 1..Len(clicks) /\ server[click[u]].status \in NoScan
    BY <1>2, <2>2 DEF OwnClick
  <2> QED
    BY <1>1, <2>1, <2>2, <2>3, RenderKeeps
<1>5. CASE ~raises(response.status)
  <2>1. response.status = 201
    BY <1>1, <1>3, <1>5 DEF raises, PostOK
  <2>2. response.id \in 1..Len(scans) /\ scans[response.id].click = click[u]
    BY <1>3, <2>1 DEF PostOK
  <2>3. /\ payload' = [payload EXCEPT ![u] = scan_payload(response.id)]
        /\ pc' = [pc EXCEPT ![u] = "advice"]
        /\ UNCHANGED <<advice_payload, screen>>
    BY <1>5 DEF Posted, Goto
  <2>4. OverUsers(screen) /\ OverUsers(payload) /\ OverUsers(advice_payload)
    BY DEF IInv, Shapes
  <2>5. /\ OverUsers(payload') /\ payload'[u] = scan_payload(response.id)
        /\ \A v \in Users \ {u} : payload'[v] = payload[v]
    BY <2>3, <2>4 DEF OverUsers
  <2>6. payload'[u].id = response.id
    BY <2>5 DEF scan_payload
  <2>7. OverUsers(screen)' /\ OverUsers(payload)' /\ OverUsers(advice_payload)'
    BY <2>3, <2>4, <2>5 DEF OverUsers
  <2>8. screen'[u].kind = "blank"
    BY <1>1, <2>3 DEF IInv, TypeOK
  <2>9. payload'[u].id \in {0} \cup DOMAIN scans
    BY <2>2, <2>6, Lengths
  <2>10. OwnScan(u, payload'[u].id)
    BY <2>2, <2>6 DEF OwnScan
  <2> HIDE DEF response
  <2> QED
    BY <1>1, <1>2, <2>3, <2>5, <2>7, <2>8, <2>9, <2>10, GoesOn
<1> QED
  BY <1>4, <1>5

LEMMA AdvisedKeeps ==
    ASSUME IInv, NEW u \in Users, Advised(u)
    PROVE  IInv'
<1>1. /\ pc[u] = "advice" /\ pc' = [pc EXCEPT ![u] = "list"]
      /\ UNCHANGED <<scans, clock, clicks, server, click, payload, screen>>
  BY DEF Advised, Goto
<1>2. PICK advice \in AdviceFor(scan_payload(payload[u].id)) :
         advice_payload' = [advice_payload EXCEPT ![u] = advice]
  BY DEF Advised
<1>3. advice.scan_id = payload[u].id
  <2> DEFINE scan == scan_payload(payload[u].id)
  <2>1. scan.id = payload[u].id
    BY DEF scan_payload
  <2> HIDE DEF scan
  <2>2. ASSUME NEW a \in AdviceFor(scan)
        PROVE  a.scan_id = scan.id
    BY DEF AdviceFor
  <2> QED
    BY <2>1, <2>2 DEF scan
<1>4. OverUsers(screen) /\ OverUsers(payload) /\ OverUsers(advice_payload)
  BY DEF IInv, Shapes
<1>5. /\ OverUsers(advice_payload') /\ advice_payload'[u] = advice
      /\ \A v \in Users \ {u} : advice_payload'[v] = advice_payload[v]
  BY <1>2, <1>4 DEF OverUsers
<1>6. OverUsers(screen)' /\ OverUsers(payload)' /\ OverUsers(advice_payload)'
  BY <1>1, <1>4, <1>5 DEF OverUsers
<1>7. OwnClick(u) /\ OwnScan(u, payload'[u].id)
  BY <1>1 DEF IInv, Pages, MainOK
<1>8. screen'[u].kind = "blank" /\ payload'[u].id \in {0} \cup DOMAIN scans
  BY <1>1 DEF IInv, TypeOK
<1>9. advice_payload'[u].scan_id = payload'[u].id
  BY <1>1, <1>3, <1>5
<1> QED
  BY <1>1, <1>5, <1>6, <1>7, <1>8, <1>9, GoesOn

LEMMA ListedKeeps ==
    ASSUME IInv, NEW u \in Users, Listed(u)
    PROVE  IInv'
<1> DEFINE page == [ kind |-> "results",
                     scan_id |-> payload[u].id,
                     rows |-> build_findings_rows(payload[u].findings),
                     advice |-> build_advice_display(advice_payload[u]),
                     trend |-> build_trend_series(list_payload) ]
<1>1. /\ pc[u] = "list" /\ Render(u, page)
      /\ UNCHANGED <<scans, clock, clicks, server, click>>
  BY DEF Listed
<1>2. /\ page.kind = "results" /\ page.scan_id = payload[u].id
      /\ page.advice.scan_id = advice_payload[u].scan_id
  BY DEF build_advice_display
<1> HIDE DEF page
<1>3. /\ OwnClick(u) /\ OwnScan(u, payload[u].id)
      /\ advice_payload[u].scan_id = payload[u].id
  BY <1>1 DEF IInv, Pages, MainOK
<1> QED
  BY <1>1, <1>2, <1>3, RenderKeeps

LEMMA ListedRecentKeeps ==
    ASSUME IInv, NEW u \in Users, ListedRecent(u)
    PROVE  IInv'
<1> DEFINE page == [kind |-> "recent", trend |-> build_trend_series(list_payload)]
<1>1. Render(u, page) /\ UNCHANGED <<scans, clock, clicks, server, click>>
  BY DEF ListedRecent
<1>2. page.kind = "recent"
  OBVIOUS
<1> HIDE DEF page
<1> QED
  BY <1>1, <1>2, RenderKeeps

LEMMA GetRefusedKeeps ==
    ASSUME IInv, NEW u \in Users, GetRefused(u)
    PROVE  IInv'
<1>1. PICK status \in Refusals : SurfaceError(u, status)
  BY DEF GetRefused
<1> DEFINE page == [kind |-> "error", status |-> status]
<1>2. Render(u, page) /\ UNCHANGED <<scans, clock, clicks, server, click>>
  BY <1>1 DEF GetRefused, SurfaceError
<1>3. page.kind = "error" /\ page.status = status
  OBVIOUS
<1> HIDE DEF page
<1>4. page.status \notin NoScan
  BY <1>3, DashboardAssumption DEF NoScan
<1> QED
  BY <1>2, <1>3, <1>4, RenderKeeps

LEMMA CallRaisesKeeps ==
    ASSUME IInv, NEW u \in Users, CallRaises(u)
    PROVE  IInv'
<1> DEFINE page == [kind |-> "exception"]
<1>1. Render(u, page) /\ UNCHANGED <<scans, clock, clicks, server, click>>
  BY DEF CallRaises
<1>2. page.kind = "exception"
  OBVIOUS
<1> HIDE DEF page
<1> QED
  BY <1>1, <1>2, RenderKeeps

LEMMA InterruptedKeeps ==
    ASSUME IInv, NEW u \in Users, Interrupted(u)
    PROVE  IInv'
<1>1. /\ payload' = [payload EXCEPT ![u] = NoPayload]
      /\ advice_payload' = [advice_payload EXCEPT ![u] = NoAdvice]
      /\ pc' = [pc EXCEPT ![u] = "idle"]
      /\ UNCHANGED <<scans, clock, clicks, server, click, screen>>
  BY DEF Interrupted, Leave, Goto
<1>2. OverUsers(screen) /\ OverUsers(payload) /\ OverUsers(advice_payload)
  BY DEF IInv, Shapes
<1>3. pc \in [Users -> {"idle", "post", "advice", "list", "recent"}]
  BY DEF IInv, TypeOK
<1>4. payload'[u] = NoPayload /\ pc'[u] = "idle"
  BY <1>1, <1>2, <1>3 DEF OverUsers
<1>5. UserStep(u)
  <2>1. OverUsers(screen)'
    BY <1>1, <1>2 DEF OverUsers
  <2>2. OverUsers(payload)' /\ \A v \in Users \ {u} : payload'[v] = payload[v]
    BY <1>1, <1>2 DEF OverUsers
  <2>3. OverUsers(advice_payload)' /\ \A v \in Users \ {u} : advice_payload'[v] = advice_payload[v]
    BY <1>1, <1>2 DEF OverUsers
  <2>4. /\ pc' \in [Users -> {"idle", "post", "advice", "list", "recent"}]
        /\ \A v \in Users \ {u} : pc'[v] = pc[v]
    BY <1>1, <1>3
  <2> QED
    BY <1>1, <2>1, <2>2, <2>3, <2>4 DEF UserStep
<1>6. UserTypeOK(u)'
  <2>1. screen'[u].kind \in {"blank", "warning", "error", "exception", "results", "recent"}
    BY <1>1 DEF IInv, TypeOK
  <2> QED
    BY <1>4, <2>1 DEF UserTypeOK, NoPayload
<1>7. MainOK(u)'
  BY <1>4 DEF MainOK
<1>8. ScreenOK(u)'
  BY <1>1 DEF IInv, Pages, ScreenOK, Results, OwnClick, OwnScan
<1> QED
  BY <1>5, <1>6, <1>7, <1>8, OthersKeep

LEMMA RunKeeps ==
    ASSUME IInv, NEW u \in Users, Run(u)
    PROVE  IInv'
<1>1. PICK t \in Templates : clicks' = Append(clicks, [by |-> u, template |-> t])
  BY DEF Run
<1> DEFINE c == Len(clicks) + 1
           new == [by |-> u, template |-> t]
<1>2. /\ server' = Append(server, Pending)
      /\ click' = [click EXCEPT ![u] = c]
      /\ screen' = [screen EXCEPT ![u] = Blank]
      /\ pc' = [pc EXCEPT ![u] = "post"]
      /\ Len(clicks) < MaxClicks
      /\ UNCHANGED <<scans, clock, payload, advice_payload>>
  BY DEF Run, Goto
<1>3. /\ Len(scans) \in Nat /\ DOMAIN scans = 1..Len(scans)
      /\ Len(clicks) \in Nat /\ Len(server) = Len(clicks)
      /\ DOMAIN clicks = 1..Len(clicks)
  BY Lengths
<1>4. /\ IsSeq(clicks') /\ IsSeq(server') /\ Len(clicks') = c /\ Len(server') = c
      /\ DOMAIN clicks' = 1..c
      /\ \A n \in 1..Len(clicks) : clicks'[n] = clicks[n] /\ server'[n] = server[n]
      /\ clicks'[c].by = u /\ clicks'[c].template = t /\ server'[c] = Pending
  <2>1. IsSeq(clicks) /\ IsSeq(server)
    BY DEF IInv, Shapes
  <2>2. clicks' = Append(clicks, new)
    BY <1>1
  <2>3. new.by = u /\ new.template = t
    OBVIOUS
  <2> HIDE DEF new
  <2>4. /\ IsSeq(clicks') /\ Len(clicks') = c /\ clicks'[c] = new
        /\ \A n \in 1..Len(clicks) : clicks'[n] = clicks[n]
    BY <2>1, <2>2, SeqFacts
  <2>5. /\ IsSeq(server') /\ Len(server') = c /\ server'[c] = Pending
        /\ \A n \in 1..Len(clicks) : server'[n] = server[n]
    BY <1>2, <1>3, <2>1, SeqFacts
  <2>6. DOMAIN clicks' = 1..c
    BY <2>4, SeqFacts
  <2> QED
    BY <2>3, <2>4, <2>5, <2>6
<1>5. /\ OverUsers(screen) /\ OverUsers(payload) /\ OverUsers(advice_payload)
      /\ pc \in [Users -> {"idle", "post", "advice", "list", "recent"}]
      /\ click \in [Users -> 0..Len(clicks)]
  BY DEF IInv, Shapes, TypeOK
<1>6. /\ OverUsers(screen') /\ screen'[u] = Blank
      /\ \A v \in Users \ {u} : screen'[v] = screen[v]
  BY <1>2, <1>5 DEF OverUsers
<1>7. /\ pc' \in [Users -> {"idle", "post", "advice", "list", "recent"}]
      /\ pc'[u] = "post"
      /\ \A v \in Users \ {u} : pc'[v] = pc[v]
  BY <1>2, <1>5
<1>8. /\ click' \in [Users -> 0..c]
      /\ click'[u] = c
      /\ \A v \in Users \ {u} : click'[v] = click[v]
  BY <1>2, <1>3, <1>5
<1>9. 1..Len(clicks) \subseteq 1..c /\ c \in 1..c /\ c \notin 1..Len(clicks)
  BY <1>3
<1> HIDE DEF c
<1>10. TypeOK'
  <2>1. Len(server') = Len(clicks') /\ Len(clicks') <= MaxClicks
    BY <1>2, <1>3, <1>4, DashboardAssumption DEF c
  <2>2. \A i \in DOMAIN scans' : scans'[i].click \in {0} \cup DOMAIN clicks'
    BY <1>2, <1>3, <1>4, <1>9 DEF IInv, TypeOK
  <2>3. click' \in [Users -> 0..Len(clicks')]
    BY <1>4, <1>8
  <2>4. screen'[u].kind = "blank"
    BY <1>6 DEF Blank
  <2>5. \A v \in Users :
          /\ payload'[v].id \in {0} \cup DOMAIN scans'
          /\ screen'[v].kind \in {"blank", "warning", "error", "exception", "results", "recent"}
          /\ pc'[v] # "idle" => screen'[v].kind = "blank"
    BY <1>2, <1>6, <1>7, <2>4 DEF IInv, TypeOK
  <2>6. clock' \in 0..MaxClock
    BY <1>2 DEF IInv, TypeOK
  <2> QED
    BY <1>7, <2>1, <2>2, <2>3, <2>5, <2>6 DEF TypeOK
<1>11. Shapes'
  <2>1. OverUsers(payload)' /\ OverUsers(advice_payload)' /\ OverUsers(screen)'
    BY <1>2, <1>5, <1>6 DEF OverUsers
  <2>2. IsSeq(scans)' /\ IsSeq(clicks)' /\ IsSeq(server)'
    BY <1>2, <1>4 DEF IInv, Shapes, IsSeq
  <2>3. \A n \in 1..Len(clicks') : n \in 1..Len(clicks) \/ n = c
    BY <1>3, <1>4 DEF c
  <2>4. \A n \in 1..Len(clicks') : clicks'[n].template \in Templates
    BY <1>1, <1>4, <2>3 DEF IInv, Shapes
  <2> QED
    BY <2>1, <2>2, <2>4 DEF Shapes
<1>12. Posts'
  <2>1. \A n \in 1..Len(clicks) : PostOK(n, server'[n], scans')
    BY <1>2, <1>4 DEF IInv, Posts
  <2>2. \A i \in 1..Len(scans') : scans'[i].click # c
    BY <1>2, <1>3, <1>9 DEF IInv, TypeOK, c
  <2>3. PostOK(c, server'[c], scans')
    <3>1. Pending.status = 0
      BY DEF Pending
    <3> QED
      BY <1>4, <2>2, <3>1 DEF PostOK, NoScan
  <2>4. \A n \in 1..Len(clicks') : n \in 1..Len(clicks) \/ n = c
    BY <1>3, <1>4 DEF c
  <2> QED
    BY <2>1, <2>3, <2>4 DEF Posts
<1>13. Pages'
  <2>1. MainOK(u)' /\ ScreenOK(u)'
    <3>1. MainOK(u)'
      BY <1>4, <1>7, <1>8, <1>9 DEF MainOK, OwnClick
    <3>2. ScreenOK(u)'
      BY <1>6 DEF ScreenOK, Results, Blank
    <3> QED
      BY <3>1, <3>2
  <2>2. ASSUME NEW v \in Users, v # u
        PROVE  MainOK(v)' /\ ScreenOK(v)'
    <3>1. MainOK(v) /\ ScreenOK(v)
      BY DEF IInv, Pages
    <3>2. /\ pc'[v] = pc[v] /\ click'[v] = click[v] /\ screen'[v] = screen[v]
          /\ UNCHANGED <<scans, payload, advice_payload>>
      BY <1>2, <1>6, <1>7, <1>8, <2>2
    <3>3. click[v] \in 1..Len(clicks) =>
             /\ click[v] \in 1..Len(clicks')
             /\ clicks'[click[v]] = clicks[click[v]]
             /\ server'[click[v]] = server[click[v]]
      BY <1>4, <1>9
    <3>4. MainOK(v)'
      BY <3>1, <3>2, <3>3 DEF MainOK, OwnClick, OwnScan
    <3>5. ScreenOK(v)'
      BY <3>1, <3>2, <3>3 DEF ScreenOK, Results, OwnClick, OwnScan
    <3> QED
      BY <3>4, <3>5
  <2> QED
    BY <2>1, <2>2 DEF Pages
<1> QED
  BY <1>10, <1>11, <1>12, <1>13 DEF IInv

\* The server answers one click, and adds a row of that click or none.
LEMMA ServedKeeps ==
    ASSUME IInv, NEW c \in DOMAIN clicks, server[c] = Pending,
           UNCHANGED <<clock, clicks, pc, click, payload, advice_payload, screen>>,
           NEW answer, server' = [server EXCEPT ![c] = answer],
           IsSeq(scans'), Len(scans) <= Len(scans'),
           \A i \in 1..Len(scans) : scans'[i] = scans[i],
           \A i \in 1..Len(scans') : i \in 1..Len(scans) \/ scans'[i].click = c,
           PostOK(c, answer, scans')
    PROVE  IInv'
<1>1. /\ Len(scans) \in Nat /\ DOMAIN scans = 1..Len(scans)
      /\ Len(scans') \in Nat /\ DOMAIN scans' = 1..Len(scans')
      /\ Len(clicks) \in Nat /\ DOMAIN clicks = 1..Len(clicks)
      /\ Len(server) = Len(clicks) /\ IsSeq(server)
  BY Lengths, SeqFacts DEF IInv, Shapes
<1>2. c \in 1..Len(clicks) /\ 1..Len(scans) \subseteq 1..Len(scans')
  BY <1>1
<1>3. /\ IsSeq(server') /\ Len(server') = Len(clicks)
      /\ server'[c] = answer
      /\ \A n \in 1..Len(clicks) : n # c => server'[n] = server[n]
  <2>1. c \in 1..Len(server)
    BY <1>1, <1>2
  <2>2. PICK S : server \in Seq(S)
    BY <1>1 DEF IsSeq
  <2>3. server \in Seq(S \cup {answer})
    BY <2>2, SeqMonotonic
  <2>4. server \in [1..Len(server) -> S \cup {answer}]
    BY <2>3, LenProperties
  <2>5. /\ server' \in [1..Len(server) -> S \cup {answer}]
        /\ server'[c] = answer
        /\ \A n \in 1..Len(server) : n # c => server'[n] = server[n]
    BY <2>1, <2>4
  <2>6. Len(server) \in Nat
    BY <1>1
  <2>7. server' \in Seq(S \cup {answer}) /\ Len(server') = Len(server)
    <3>1. ASSUME NEW T, NEW s \in [1..Len(server) -> T]
          PROVE  s \in Seq(T) /\ Len(s) = Len(server)
      BY <2>6, FunctionIsSeq
    <3> QED
      BY <2>5, <3>1
  <2> QED
    BY <1>1, <2>5, <2>7 DEF IsSeq
<1>4. TypeOK'
  <2>1. \A i \in DOMAIN scans' : scans'[i].click \in {0} \cup DOMAIN clicks'
    BY <1>1 DEF IInv, TypeOK
  <2>2. \A u \in Users : payload'[u].id \in {0} \cup DOMAIN scans'
    BY <1>1, <1>2 DEF IInv, TypeOK
  <2> QED
    BY <1>1, <1>3, <2>1, <2>2 DEF IInv, TypeOK
<1>5. Shapes'
  BY <1>3 DEF IInv, Shapes, OverUsers
<1>6. Posts'
  <2>1. ASSUME NEW n \in 1..Len(clicks), n # c
        PROVE  PostOK(n, server[n], scans')
    <3>1. PostOK(n, server[n], scans)
      BY DEF IInv, Posts
    <3>2. \A i \in 1..Len(scans') : scans'[i].click = n => i \in 1..Len(scans)
      BY <2>1
    <3>3. server[n] = Pending \/ server[n].status \in NoScan =>
             \A i \in 1..Len(scans') : scans'[i].click # n
      BY <3>1, <3>2 DEF PostOK
    <3>4. server[n].status = 201 =>
             server[n].id \in 1..Len(scans') /\ scans'[server[n].id].click = n
      BY <1>2, <3>1 DEF PostOK
    <3>5. \A i, j \in 1..Len(scans') : scans'[i].click = n /\ scans'[j].click = n => i = j
      BY <3>1, <3>2 DEF PostOK
    <3> QED
      BY <3>1, <3>3, <3>4, <3>5 DEF PostOK
  <2> QED
    BY <1>3, <2>1 DEF Posts
<1>7. Pages'
  <2> SUFFICES ASSUME NEW u \in Users
               PROVE  MainOK(u)' /\ ScreenOK(u)'
    BY DEF Pages
  <2>1. MainOK(u) /\ ScreenOK(u)
    BY DEF IInv, Pages
  <2>2. \A id : OwnScan(u, id) => OwnScan(u, id)'
    BY <1>2 DEF OwnScan
  <2>3. click[u] \in 1..Len(clicks) /\ server[click[u]].status \in NoScan =>
           server'[click[u]].status \in NoScan
    <3>1. server[c].status \notin NoScan
      BY DEF Pending, NoScan
    <3> QED
      BY <1>3, <3>1
  <2>4. OwnClick(u) <=> OwnClick(u)'
    BY DEF OwnClick
  <2>5. MainOK(u)'
    BY <2>1, <2>2, <2>4 DEF MainOK
  <2>6. ScreenOK(u)'
    BY <2>1, <2>2, <2>3, <2>4 DEF ScreenOK, Results
  <2> QED
    BY <2>5, <2>6
<1> QED
  BY <1>4, <1>5, <1>6, <1>7 DEF IInv

LEMMA ServePostKeeps ==
    ASSUME IInv, NEW c \in DOMAIN clicks, ServePost(c)
    PROVE  IInv'
<1>1. /\ server[c] = Pending
      /\ UNCHANGED <<clock, clicks, pc, click, payload, advice_payload, screen>>
  BY DEF ServePost
<1>2. /\ Len(scans) \in Nat /\ c \in 1..Len(clicks) /\ IsSeq(scans)
  BY Lengths DEF IInv, Shapes
<1>3. \A i \in 1..Len(scans) : scans[i].click # c
  BY <1>1, <1>2 DEF IInv, Posts, PostOK
<1>4. \A i, j \in 1..Len(scans) : scans[i].click = c /\ scans[j].click = c => i = j
  BY <1>3
<1>5. Pending.status = 0
  BY DEF Pending
<1>6. ASSUME NEW status \in {201, 500},
             scans' = Append(scans, [click |-> c, template |-> clicks[c].template,
                                     created_at |-> clock]),
             server' = [server EXCEPT ![c] = [status |-> status, id |-> Len(scans) + 1]]
      PROVE  IInv'
  <2> DEFINE answer == [status |-> status, id |-> Len(scans) + 1]
             row == [click |-> c, template |-> clicks[c].template, created_at |-> clock]
  <2>1. row.click = c /\ answer.status = status /\ answer.id = Len(scans) + 1
    OBVIOUS
  <2>2. server' = [server EXCEPT ![c] = answer] /\ scans' = Append(scans, row)
    BY <1>6
  <2> HIDE DEF answer, row
  <2>3. /\ IsSeq(scans') /\ Len(scans') = Len(scans) + 1
        /\ \A i \in 1..Len(scans) : scans'[i] = scans[i]
        /\ scans'[Len(scans) + 1] = row
    BY <1>2, <2>2, SeqFacts
  <2>4. /\ \A i \in 1..Len(scans') : i \in 1..Len(scans) \/ i = Len(scans) + 1
        /\ Len(scans) + 1 \in 1..Len(scans')
        /\ Len(scans) <= Len(scans')
    BY <1>2, <2>3
  <2>5. /\ answer # Pending /\ answer.status \notin NoScan /\ answer.status \in Nat
        /\ answer.status < 400 => answer.status = 201
    BY <1>5, <2>1 DEF NoScan
  <2>6. \A i \in 1..Len(scans') : scans'[i].click = c => i = Len(scans) + 1
    BY <1>3, <2>3, <2>4
  <2>7. PostOK(c, answer, scans')
    BY <2>1, <2>3, <2>4, <2>5, <2>6 DEF PostOK
  <2>8. \A i \in 1..Len(scans') : i \in 1..Len(scans) \/ scans'[i].click = c
    BY <2>1, <2>3, <2>4
  <2> QED
    BY <1>1, <2>2, <2>3, <2>4, <2>7, <2>8, ServedKeeps
<1>7. ASSUME NEW status \in Refusals \cup ({Parsing[clicks[c].template]} \ {201}),
             server' = [server EXCEPT ![c] = [status |-> status, id |-> 0]],
             UNCHANGED scans
      PROVE  IInv'
  <2> DEFINE answer == [status |-> status, id |-> 0]
  <2>1. answer.status = status /\ server' = [server EXCEPT ![c] = answer]
    BY <1>7
  <2> HIDE DEF answer
  <2>2. status \in Nat /\ status >= 400
    <3>1. clicks[c].template \in Templates
      BY <1>2 DEF IInv, Shapes
    <3>2. Parsing[clicks[c].template] \in {201, 400, 413}
      BY <3>1, DashboardAssumption
    <3> QED
      BY <1>7, <3>2, DashboardAssumption
  <2>3. answer # Pending /\ answer.status \in Nat /\ ~(answer.status < 400) /\ answer.status # 201
    BY <1>5, <2>1, <2>2
  <2>4. PostOK(c, answer, scans)
    BY <1>3, <1>4, <2>3 DEF PostOK
  <2>5. /\ IsSeq(scans') /\ Len(scans) <= Len(scans') /\ PostOK(c, answer, scans')
        /\ \A i \in 1..Len(scans) : scans'[i] = scans[i]
        /\ \A i \in 1..Len(scans') : i \in 1..Len(scans) \/ scans'[i].click = c
    BY <1>2, <1>7, <2>4
  <2> QED
    BY <1>1, <2>1, <2>5, ServedKeeps
<1> QED
  BY <1>6, <1>7 DEF ServePost

LEMMA ClockKeeps ==
    ASSUME IInv, clock' \in 0..MaxClock,
           UNCHANGED <<scans, clicks, server, pc, click, payload, advice_payload, screen>>
    PROVE  IInv'
<1>1. TypeOK'
  BY DEF IInv, TypeOK
<1>2. Shapes' /\ Posts'
  BY DEF IInv, Shapes, Posts, OverUsers
<1>3. Pages'
  BY DEF IInv, Pages, MainOK, ScreenOK, Results, OwnClick, OwnScan
<1> QED
  BY <1>1, <1>2, <1>3 DEF IInv

LEMMA Steps == IInv /\ [Next]_vars => IInv'
<1> SUFFICES ASSUME IInv, [Next]_vars
             PROVE  IInv'
  OBVIOUS
<1>1. ASSUME NEW u \in Users, RunEmpty(u) \/ Run(u) \/ Rerun(u) \/ Interrupted(u)
      PROVE  IInv'
  BY <1>1, RunEmptyKeeps, RunKeeps, RerunKeeps, InterruptedKeeps
<1>2. ASSUME NEW u \in Users, Main(u)
      PROVE  IInv'
  BY <1>2, PostedKeeps, AdvisedKeeps, ListedKeeps, ListedRecentKeeps, GetRefusedKeeps,
     CallRaisesKeeps DEF Main
<1>3. ASSUME NEW c \in DOMAIN clicks, ServePost(c)
      PROVE  IInv'
  BY <1>3, ServePostKeeps
<1>4. CASE SetClock
  <2>1. clock' \in 0..MaxClock
    BY <1>4, DashboardAssumption DEF SetClock, IInv, TypeOK
  <2> QED
    BY <1>4, <2>1, ClockKeeps DEF SetClock
<1>5. CASE UNCHANGED vars
  <2>1. clock' \in 0..MaxClock
    BY <1>5 DEF vars, IInv, TypeOK
  <2> QED
    BY <1>5, <2>1, ClockKeeps DEF vars
<1> QED
  BY <1>1, <1>2, <1>3, <1>4, <1>5 DEF Next

-----------------------------------------------------------------------------
(* Sorting: nothing is lost *)

LEMMA RankedIsAll ==
    ASSUME NEW S, IsFiniteSet(S), NEW order, StrictlyOrders(order, S)
    PROVE  ToSet(Ranked(S, order)) = S
<1>1. /\ DOMAIN Ranked(S, order) = 1..Cardinality(S)
      /\ \A n \in 1..Cardinality(S) : Ranked(S, order)[n] \in S
  BY RankedFacts
<1>2. \A x \in S : \E n \in 1..Cardinality(S) : Ranked(S, order)[n] = x
  BY RankedPlace
<1> QED
  BY <1>1, <1>2 DEF ToSet

-----------------------------------------------------------------------------
(* client.py: the tables *)

\* The sort key and the position of a finding.
Sortable(f) ==
    /\ f.severity \in {"CRITICAL", "HIGH", "MEDIUM", "LOW", "INFO"}
    /\ f.rule_id \in Nat /\ f.resource \in Nat /\ f.id \in Nat

RowOrder(S) == {pair \in S \X S : RowBefore(pair[1], pair[2])}

LEMMA RowsAreOrdered ==
    ASSUME NEW S, \A f \in S : Sortable(f), \A f, g \in S : f.id = g.id => f = g
    PROVE  StrictlyOrders(RowOrder(S), S)
<1>1. \A f, g \in S : <<f, g>> \in RowOrder(S) <=> RowBefore(f, g)
  BY DEF RowOrder
<1>2. \A f \in S : severity_rank(f.severity) \in Nat
  BY DEF severity_rank, Sortable
<1>3. \A f \in S : f.rule_id \in Nat /\ f.resource \in Nat /\ f.id \in Nat
  BY DEF Sortable
<1>4. \A f \in S : ~RowBefore(f, f)
  BY <1>2, <1>3 DEF RowBefore
<1>5. \A f, g \in S : f # g => RowBefore(f, g) \/ RowBefore(g, f)
  BY <1>2, <1>3 DEF RowBefore
<1>6. \A f, g, h \in S : RowBefore(f, g) /\ RowBefore(g, h) => RowBefore(f, h)
  BY <1>2, <1>3 DEF RowBefore
<1> HIDE DEF RowOrder
<1> QED
  BY <1>1, <1>4, <1>5, <1>6 DEF StrictlyOrders

\* The findings of a payload are numbered from 1.
LEMMA Numbered ==
    ASSUME NEW t \in Templates, NEW fs, fs = WithIds(Found[t])
    PROVE  /\ IsFiniteSet(ToSet(fs))
           /\ \A f \in ToSet(fs) : Sortable(f)
           /\ \A f, g \in ToSet(fs) : f.id = g.id => f = g
<1> DEFINE s == Found[t]
<1>1. /\ s \in Seq([id : {0}, rule_id : Nat, resource : Nat,
                    severity : {"CRITICAL", "HIGH", "MEDIUM", "LOW", "INFO"}])
  BY DashboardAssumption
<1>2. /\ Len(s) \in Nat /\ DOMAIN s = 1..Len(s)
      /\ \A n \in 1..Len(s) :
            s[n] \in [id : {0}, rule_id : Nat, resource : Nat,
                      severity : {"CRITICAL", "HIGH", "MEDIUM", "LOW", "INFO"}]
  BY <1>1, LenProperties, ElementOfSeq
<1> HIDE DEF s
<1>3. fs = [n \in 1..Len(s) |-> [s[n] EXCEPT !.id = n]]
  BY <1>2 DEF WithIds, s
<1>4. \A n \in 1..Len(s) : fs[n].id = n /\ Sortable(fs[n])
  BY <1>2, <1>3 DEF Sortable
<1>5. fs \in Surjection(1..Len(s), ToSet(fs))
  <2>1. DOMAIN fs = 1..Len(s)
    BY <1>3
  <2>2. fs \in [1..Len(s) -> ToSet(fs)] /\ \A x \in ToSet(fs) : \E n \in 1..Len(s) : fs[n] = x
    BY <1>3, <2>1 DEF ToSet
  <2> QED
    BY <2>2 DEF Surjection
<1>6. IsFiniteSet(1..Len(s))
  BY <1>2, FS_Interval
<1>7. IsFiniteSet(ToSet(fs))
  BY <1>5, <1>6, FS_Surjection
<1>8. \A x \in ToSet(fs) : \E n \in 1..Len(s) : x = fs[n]
  BY <1>5 DEF Surjection
<1> QED
  BY <1>4, <1>7, <1>8

\* The table of findings loses and adds none.
LEMMA RowsAreFindings ==
    ASSUME NEW t \in Templates, NEW fs, fs = WithIds(Found[t])
    PROVE  ToSet(build_findings_rows(fs)) = ToSet(fs)
<1>1. IsFiniteSet(ToSet(fs)) /\ StrictlyOrders(RowOrder(ToSet(fs)), ToSet(fs))
  BY Numbered, RowsAreOrdered
<1>2. build_findings_rows(fs) = Ranked(ToSet(fs), RowOrder(ToSet(fs)))
  BY DEF build_findings_rows, RowOrder
<1> QED
  BY <1>1, <1>2, RankedIsAll

\* One item of advice per finding.
LEMMA AdviceIsForFindings ==
    ASSUME NEW scan, NEW advice \in AdviceFor(scan)
    PROVE  {item.finding_id : item \in ToSet(advice.items)} = {f.id : f \in ToSet(scan.findings)}
<1>1. /\ DOMAIN advice.items = DOMAIN scan.findings
      /\ \A n \in DOMAIN scan.findings : advice.items[n].finding_id = scan.findings[n].id
  BY DEF AdviceFor
<1> QED
  BY <1>1 DEF ToSet
-----------------------------------------------------------------------------
(* The trend *)

\* Rows as the API stores them.
Stored(rows) ==
    /\ IsSeq(rows)
    /\ \A i \in 1..Len(rows) : rows[i].template \in Templates /\ rows[i].created_at \in Nat

Chronological(trend) ==
    \A m, n \in DOMAIN trend : m < n =>
        \/ trend[m].created_at < trend[n].created_at
        \/ trend[m].created_at = trend[n].created_at /\ trend[m].id < trend[n].id

Since(rows, id) ==
    {i \in DOMAIN rows \ {id} : rows[i].created_at >= rows[id].created_at}

\* The trend has the scan, or Limit others are newer.
Charted(trend, id, rows) ==
    (\E n \in DOMAIN trend : trend[n].id = id) \/ Cardinality(Since(rows, id)) >= Limit

Point(rows, i) == [id |-> i, created_at |-> rows[i].created_at]

LEMMA NewestFirstOrders ==
    ASSUME NEW rows, Stored(rows)
    PROVE  /\ IsFiniteSet(DOMAIN rows)
           /\ StrictlyOrders(NewestFirst(rows), DOMAIN rows)
<1>1. Len(rows) \in Nat /\ DOMAIN rows = 1..Len(rows)
  BY SeqFacts DEF Stored
<1>2. \A i \in DOMAIN rows : i \in Nat /\ rows[i].created_at \in Nat
  BY <1>1 DEF Stored
<1>3. \A i, j \in DOMAIN rows : <<i, j>> \in NewestFirst(rows) <=>
         \/ rows[i].created_at > rows[j].created_at
         \/ rows[i].created_at = rows[j].created_at /\ i > j
  BY DEF NewestFirst
<1>4. IsFiniteSet(DOMAIN rows)
  BY <1>1, FS_Interval
<1>5. StrictlyOrders(NewestFirst(rows), DOMAIN rows)
  BY <1>2, <1>3 DEF StrictlyOrders
<1> QED
  BY <1>4, <1>5

LEMMA TrendOrders ==
    ASSUME NEW P, \A p \in P : p.id \in Nat /\ p.created_at \in Nat,
           \A p, q \in P : p.id = q.id => p = q
    PROVE  StrictlyOrders(TrendOrder(P), P)
<1>1. \A p, q \in P : <<p, q>> \in TrendOrder(P) <=>
         \/ p.created_at < q.created_at
         \/ p.created_at = q.created_at /\ p.id < q.id
  BY DEF TrendOrder
<1> QED
  BY <1>1 DEF StrictlyOrders

\* The chart of what list_scans returns.
LEMMA TrendFacts ==
    ASSUME Stored(scans), NEW trend, trend = build_trend_series(list_payload)
    PROVE  /\ Chronological(trend)
           /\ \A id \in DOMAIN scans : Charted(trend, id, scans)
<1> DEFINE D == DOMAIN scans
           order == NewestFirst(scans)
           newest == Ranked(D, order)
           page == first(newest, Limit)
           P == ToSet(list_payload)
<1>1. IsFiniteSet(D) /\ StrictlyOrders(order, D)
  BY NewestFirstOrders
<1>2. /\ Cardinality(D) \in Nat
      /\ newest \in Seq(D) /\ Len(newest) = Cardinality(D)
  BY <1>1, RankedFacts
<1>3. Limit \in Nat \ {0}
  BY DashboardAssumption
<1> HIDE DEF order, newest, D
<1>4. /\ page \in Seq(D)
      /\ Len(page) = IF Limit < Len(newest) THEN Limit ELSE Len(newest)
      /\ \A n \in 1..Len(page) : page[n] = newest[n]
  BY <1>2, <1>3, FirstFacts
<1>5. list_payload = [n \in DOMAIN page |-> Point(scans, page[n])]
  BY DEF list_payload, newest, D, order, Point
<1> HIDE DEF page
<1>6. Len(page) \in Nat /\ DOMAIN page = 1..Len(page) /\ \A n \in 1..Len(page) : page[n] \in D
  BY <1>4, LenProperties, ElementOfSeq
<1>7. P = {Point(scans, page[n]) : n \in 1..Len(page)}
  BY <1>5, <1>6 DEF ToSet
<1>8. IsFiniteSet(P)
  <2> DEFINE h == [n \in 1..Len(page) |-> Point(scans, page[n])]
  <2>1. h \in Surjection(1..Len(page), P)
    BY <1>7 DEF Surjection
  <2> QED
    BY <1>6, <2>1, FS_Interval, FS_Surjection
<1>9. \A p \in P : p.id \in D /\ p = Point(scans, p.id)
  BY <1>6, <1>7 DEF Point
<1>10. \A i \in D : i \in Nat /\ scans[i].created_at \in Nat
  BY SeqFacts DEF Stored, D
<1> HIDE DEF P
<1>11. StrictlyOrders(TrendOrder(P), P)
  <2>1. /\ \A p \in P : p.id \in Nat /\ p.created_at \in Nat
        /\ \A p, q \in P : p.id = q.id => p = q
    BY <1>9, <1>10 DEF Point
  <2> QED
    BY <2>1, TrendOrders
<1>12. trend = Ranked(P, TrendOrder(P))
  BY DEF build_trend_series, P
<1>13. Chronological(trend)
  <2>1. DOMAIN trend = 1..Cardinality(P)
    BY <1>8, <1>11, <1>12, RankedFacts
  <2>2. \A m, n \in 1..Cardinality(P) : m < n => <<trend[m], trend[n]>> \in TrendOrder(P)
    BY <1>8, <1>11, <1>12, RankedInOrder
  <2>3. \A p, q : <<p, q>> \in TrendOrder(P) =>
           \/ p.created_at < q.created_at
           \/ p.created_at = q.created_at /\ p.id < q.id
    BY DEF TrendOrder
  <2> QED
    BY <2>1, <2>2, <2>3 DEF Chronological
<1>14. ASSUME NEW id \in D
       PROVE  Charted(trend, id, scans)
  <2> DEFINE B == Below(D, order, id)
  <2>1. /\ Cardinality(B) + 1 \in 1..Cardinality(D)
        /\ newest[Cardinality(B) + 1] = id
    BY <1>1, RankedPlace DEF newest
  <2>2. Cardinality(B) \in Nat
    BY <1>1, BelowIsFinite
  <2>3. CASE Cardinality(B) < Limit
    <3> HIDE DEF B
    <3>1. Cardinality(B) + 1 \in 1..Len(page)
      BY <1>2, <1>3, <1>4, <2>1, <2>2, <2>3
    <3>2. Point(scans, id) \in P
      BY <1>4, <1>7, <2>1, <3>1
    <3>3. Point(scans, id) \in ToSet(trend)
      BY <1>8, <1>11, <1>12, <3>2, RankedIsAll
    <3>4. \E n \in DOMAIN trend : trend[n] = Point(scans, id)
      BY <3>3 DEF ToSet
    <3> QED
      BY <3>4 DEF Charted, Point
  <2>4. CASE Cardinality(B) >= Limit
    <3>1. B \in SUBSET Since(scans, id)
      BY <1>10 DEF Below, Since, NewestFirst, D, order
    <3>2. IsFiniteSet(Since(scans, id))
      BY <1>1, FS_Subset DEF Since, D
    <3> HIDE DEF B
    <3>3. Cardinality(Since(scans, id)) \in Nat /\ Cardinality(B) <= Cardinality(Since(scans, id))
      BY <3>1, <3>2, FS_Subset, FS_CardinalityType
    <3>4. Cardinality(Since(scans, id)) >= Limit
      BY <1>3, <2>2, <2>4, <3>3
    <3> QED
      BY <3>4 DEF Charted
  <2> QED
    BY <1>3, <2>2, <2>3, <2>4
<1> QED
  BY <1>13, <1>14 DEF D

\* What was charted stays so: rows are only added.
LEMMA ChartedStays ==
    ASSUME NEW rows, Stored(rows), NEW more, Stored(more), Len(rows) <= Len(more),
           \A i \in 1..Len(rows) : more[i] = rows[i],
           NEW trend, NEW id \in 1..Len(rows), Charted(trend, id, rows)
    PROVE  Charted(trend, id, more)
<1>1. /\ Len(rows) \in Nat /\ DOMAIN rows = 1..Len(rows)
      /\ Len(more) \in Nat /\ DOMAIN more = 1..Len(more)
  BY SeqFacts DEF Stored
<1>2. Since(rows, id) \in SUBSET Since(more, id)
  BY <1>1 DEF Since
<1>3. IsFiniteSet(Since(more, id))
  <2>1. IsFiniteSet(DOMAIN more)
    BY <1>1, FS_Interval
  <2> QED
    BY <2>1, FS_Subset DEF Since
<1>4. /\ Cardinality(Since(rows, id)) <= Cardinality(Since(more, id))
      /\ Cardinality(Since(rows, id)) \in Nat /\ Cardinality(Since(more, id)) \in Nat
      /\ Limit \in Nat
  BY <1>2, <1>3, FS_Subset, FS_CardinalityType, DashboardAssumption
<1> QED
  BY <1>4 DEF Charted
-----------------------------------------------------------------------------
(* What the pages show *)

SameFindings(rows, items) ==
    {row.id : row \in ToSet(rows)} = {item.finding_id : item \in ToSet(items)}

\* What main has in hand is about one scan, and so is what it has rendered.
ShowsOneScan(label, scan, advice, page, rows) ==
    /\ label \in {"advice", "list"} => scan.findings = WithIds(Found[rows[scan.id].template])
    /\ label = "list" =>
          {item.finding_id : item \in ToSet(advice.items)} = {f.id : f \in ToSet(scan.findings)}
    /\ page.kind = "results" => SameFindings(page.rows, page.advice.items)

\* The chart is sound.
ShowsTrend(page, rows) ==
    /\ page.kind \in {"results", "recent"} => Chronological(page.trend)
    /\ page.kind = "results" => Charted(page.trend, page.scan_id, rows)

Sound(u) ==
    /\ ShowsOneScan(pc[u], payload[u], advice_payload[u], screen[u], scans)
    /\ ShowsTrend(screen[u], scans)

Shown ==
    /\ Stored(scans)
    /\ \A u \in Users : Sound(u)

LEMMA ShownStarts == Init => Shown
<1> SUFFICES ASSUME Init
             PROVE  Shown
  OBVIOUS
<1>1. scans \in Seq([click : {0}, template : Templates, created_at : 0..MaxClock])
  <2>1. scans \in Earlier
    BY DEF Init
  <2>2. Earlier \subseteq Seq([click : {0}, template : Templates, created_at : 0..MaxClock])
    BY DashboardAssumption
  <2> QED
    BY <2>1, <2>2
<1>2. \A i \in 1..Len(scans) :
         scans[i] \in [click : {0}, template : Templates, created_at : 0..MaxClock]
  BY <1>1, ElementOfSeq
<1>3. Stored(scans)
  BY <1>1, <1>2, DashboardAssumption DEF Stored, IsSeq
<1>4. \A u \in Users : pc[u] = "idle" /\ screen[u].kind = "blank"
  BY DEF Init, Blank
<1> QED
  BY <1>3, <1>4 DEF Shown, Sound, ShowsOneScan, ShowsTrend

\* A step of one user that leaves the API alone.
LEMMA OneUserShown ==
    ASSUME Shown, NEW u \in Users, UNCHANGED scans, Sound(u)',
           \A v \in Users \ {u} :
              /\ pc'[v] = pc[v] /\ payload'[v] = payload[v]
              /\ advice_payload'[v] = advice_payload[v] /\ screen'[v] = screen[v]
    PROVE  Shown'
BY DEF Shown, Sound

LEMMA RenderShows ==
    ASSUME IInv, Shown, NEW u \in Users, NEW page, Render(u, page), UNCHANGED scans,
           page.kind = "results" => SameFindings(page.rows, page.advice.items),
           ShowsTrend(page, scans)
    PROVE  Shown'
<1>1. /\ screen' = [screen EXCEPT ![u] = page]
      /\ payload' = [payload EXCEPT ![u] = NoPayload]
      /\ advice_payload' = [advice_payload EXCEPT ![u] = NoAdvice]
      /\ pc' = [pc EXCEPT ![u] = "idle"]
  BY DEF Render, Leave, Goto
<1>2. /\ OverUsers(screen) /\ OverUsers(payload) /\ OverUsers(advice_payload)
      /\ pc \in [Users -> {"idle", "post", "advice", "list", "recent"}]
  BY DEF IInv, Shapes, TypeOK
<1>3. screen'[u] = page /\ \A v \in Users \ {u} : screen'[v] = screen[v]
  BY <1>1, <1>2 DEF OverUsers
<1>4. pc'[u] = "idle" /\ \A v \in Users \ {u} : pc'[v] = pc[v]
  BY <1>1, <1>2
<1>5. \A v \in Users \ {u} : payload'[v] = payload[v] /\ advice_payload'[v] = advice_payload[v]
  BY <1>1, <1>2 DEF OverUsers
<1>6. Sound(u)'
  BY <1>3, <1>4 DEF Sound, ShowsOneScan
<1> QED
  BY <1>3, <1>4, <1>5, <1>6, OneUserShown

\* A page without findings and without a chart.
LEMMA PlainPageShows ==
    ASSUME IInv, Shown, NEW u \in Users, NEW page, Render(u, page), UNCHANGED scans,
           page.kind \in {"warning", "error", "exception"}
    PROVE  Shown'
<1>1. ShowsTrend(page, scans)
  BY DEF ShowsTrend
<1> QED
  BY <1>1, RenderShows

LEMMA PostedShows ==
    ASSUME IInv, Shown, NEW u \in Users, Posted(u)
    PROVE  Shown'
<1> DEFINE response == server[click[u]]
<1>1. pc[u] = "post" /\ UNCHANGED scans
  BY DEF Posted
<1>2. CASE raises(response.status)
  <2> DEFINE page == [kind |-> "error", status |-> response.status]
  <2>1. Render(u, page) /\ page.kind = "error"
    BY <1>2 DEF Posted, SurfaceError
  <2> HIDE DEF page
  <2> QED
    BY <1>1, <2>1, PlainPageShows
<1>3. CASE ~raises(response.status)
  <2> DEFINE scan == scan_payload(response.id)
  <2>1. /\ payload' = [payload EXCEPT ![u] = scan]
        /\ pc' = [pc EXCEPT ![u] = "advice"]
        /\ UNCHANGED <<advice_payload, screen>>
    BY <1>3 DEF Posted, Goto
  <2>2. /\ OverUsers(screen) /\ OverUsers(payload) /\ OverUsers(advice_payload)
        /\ pc \in [Users -> {"idle", "post", "advice", "list", "recent"}]
    BY DEF IInv, Shapes, TypeOK
  <2>3. screen[u].kind = "blank"
    BY <1>1 DEF IInv, TypeOK
  <2>4. scan.findings = WithIds(Found[scans[scan.id].template])
    BY DEF scan_payload
  <2> HIDE DEF scan
  <2>5. /\ payload'[u] = scan /\ pc'[u] = "advice"
        /\ \A v \in Users \ {u} : payload'[v] = payload[v] /\ pc'[v] = pc[v]
    BY <2>1, <2>2 DEF OverUsers
  <2>6. Sound(u)'
    BY <1>1, <2>1, <2>3, <2>4, <2>5 DEF Sound, ShowsOneScan, ShowsTrend
  <2> QED
    BY <1>1, <2>1, <2>5, <2>6, OneUserShown
<1> QED
  BY <1>2, <1>3

LEMMA AdvisedShows ==
    ASSUME IInv, Shown, NEW u \in Users, Advised(u)
    PROVE  Shown'
<1>1. /\ pc[u] = "advice" /\ pc' = [pc EXCEPT ![u] = "list"]
      /\ UNCHANGED <<scans, payload, screen>>
  BY DEF Advised, Goto
<1>2. PICK advice \in AdviceFor(scan_payload(payload[u].id)) :
         advice_payload' = [advice_payload EXCEPT ![u] = advice]
  BY DEF Advised
<1>3. payload[u].findings = scan_payload(payload[u].id).findings
  BY <1>1 DEF Shown, Sound, ShowsOneScan, scan_payload
<1>4. {item.finding_id : item \in ToSet(advice.items)} = {f.id : f \in ToSet(payload[u].findings)}
  BY <1>3, AdviceIsForFindings
<1>5. /\ OverUsers(advice_payload)
      /\ pc \in [Users -> {"idle", "post", "advice", "list", "recent"}]
  BY DEF IInv, Shapes, TypeOK
<1>6. /\ advice_payload'[u] = advice /\ pc'[u] = "list"
      /\ \A v \in Users \ {u} : advice_payload'[v] = advice_payload[v] /\ pc'[v] = pc[v]
  BY <1>1, <1>2, <1>5 DEF OverUsers
<1>7. screen[u].kind = "blank"
  BY <1>1 DEF IInv, TypeOK
<1>8. payload[u].findings = WithIds(Found[scans[payload[u].id].template])
  BY <1>1 DEF Shown, Sound, ShowsOneScan
<1>9. Sound(u)'
  BY <1>1, <1>4, <1>6, <1>7, <1>8 DEF Sound, ShowsOneScan, ShowsTrend
<1> QED
  BY <1>1, <1>6, <1>9, OneUserShown

LEMMA ListedShows ==
    ASSUME IInv, Shown, NEW u \in Users, Listed(u)
    PROVE  Shown'
<1> DEFINE page == [ kind |-> "results",
                     scan_id |-> payload[u].id,
                     rows |-> build_findings_rows(payload[u].findings),
                     advice |-> build_advice_display(advice_payload[u]),
                     trend |-> build_trend_series(list_payload) ]
<1>1. pc[u] = "list" /\ Render(u, page) /\ UNCHANGED scans
  BY DEF Listed
<1>2. /\ page.kind = "results" /\ page.scan_id = payload[u].id
      /\ page.rows = build_findings_rows(payload[u].findings)
      /\ page.advice = advice_payload[u]
      /\ page.trend = build_trend_series(list_payload)
  BY DEF build_advice_display
<1> HIDE DEF page
<1>3. payload[u].id \in 1..Len(scans) /\ DOMAIN scans = 1..Len(scans)
  BY <1>1, Lengths DEF IInv, Pages, MainOK, OwnScan
<1>4. SameFindings(page.rows, page.advice.items)
  <2> DEFINE t == scans[payload[u].id].template
  <2>1. payload[u].findings = WithIds(Found[t])
    BY <1>1 DEF Shown, Sound, ShowsOneScan
  <2>2. t \in Templates
    BY <1>3 DEF Shown, Stored
  <2> HIDE DEF t
  <2>3. ToSet(page.rows) = ToSet(payload[u].findings)
    BY <1>2, <2>1, <2>2, RowsAreFindings
  <2>4. {item.finding_id : item \in ToSet(page.advice.items)} = {f.id : f \in ToSet(payload[u].findings)}
    BY <1>1, <1>2 DEF Shown, Sound, ShowsOneScan
  <2> QED
    BY <2>3, <2>4 DEF SameFindings
<1>5. ShowsTrend(page, scans)
  BY <1>2, <1>3, TrendFacts DEF Shown, ShowsTrend
<1> QED
  BY <1>1, <1>4, <1>5, RenderShows

LEMMA ListedRecentShows ==
    ASSUME IInv, Shown, NEW u \in Users, ListedRecent(u)
    PROVE  Shown'
<1> DEFINE page == [kind |-> "recent", trend |-> build_trend_series(list_payload)]
<1>1. Render(u, page) /\ UNCHANGED scans
  BY DEF ListedRecent
<1>2. page.kind = "recent" /\ page.trend = build_trend_series(list_payload)
  OBVIOUS
<1> HIDE DEF page
<1>3. ShowsTrend(page, scans)
  BY <1>2, TrendFacts DEF Shown, ShowsTrend
<1> QED
  BY <1>1, <1>2, <1>3, RenderShows

\* main ends without a page, or begins anew with a blank one.
LEMMA OtherUserStepsShow ==
    ASSUME IInv, Shown, NEW u \in Users, Run(u) \/ Rerun(u) \/ Interrupted(u)
    PROVE  Shown'
<1>1. /\ OverUsers(screen) /\ OverUsers(payload) /\ OverUsers(advice_payload)
      /\ pc \in [Users -> {"idle", "post", "advice", "list", "recent"}]
  BY DEF IInv, Shapes, TypeOK
<1>2. CASE Run(u) \/ Rerun(u)
  <2>1. /\ \E label \in {"post", "recent"} : pc' = [pc EXCEPT ![u] = label]
        /\ screen' = [screen EXCEPT ![u] = Blank]
        /\ UNCHANGED <<scans, payload, advice_payload>>
    BY <1>2 DEF Run, Rerun, Goto
  <2>2. /\ pc'[u] \in {"post", "recent"} /\ screen'[u].kind = "blank"
        /\ \A v \in Users \ {u} : pc'[v] = pc[v] /\ screen'[v] = screen[v]
    BY <1>1, <2>1 DEF OverUsers, Blank
  <2>3. Sound(u)'
    BY <2>2 DEF Sound, ShowsOneScan, ShowsTrend
  <2> QED
    BY <2>1, <2>2, <2>3, OneUserShown
<1>3. CASE Interrupted(u)
  <2>1. /\ pc' = [pc EXCEPT ![u] = "idle"]
        /\ payload' = [payload EXCEPT ![u] = NoPayload]
        /\ advice_payload' = [advice_payload EXCEPT ![u] = NoAdvice]
        /\ UNCHANGED <<scans, screen>> /\ pc[u] # "idle"
    BY <1>3 DEF Interrupted, Leave, Goto
  <2>2. /\ pc'[u] = "idle"
        /\ \A v \in Users \ {u} :
              /\ pc'[v] = pc[v] /\ payload'[v] = payload[v]
              /\ advice_payload'[v] = advice_payload[v]
    BY <1>1, <2>1 DEF OverUsers
  <2>3. screen[u].kind = "blank"
    BY <2>1 DEF IInv, TypeOK
  <2>4. Sound(u)'
    BY <2>1, <2>2, <2>3 DEF Sound, ShowsOneScan, ShowsTrend
  <2> QED
    BY <2>1, <2>2, <2>4, OneUserShown
<1> QED
  BY <1>2, <1>3

\* The server's answer leaves the pages alone, and what they chart.
LEMMA ServePostShows ==
    ASSUME IInv, Shown, NEW c \in DOMAIN clicks, ServePost(c)
    PROVE  Shown'
<1>1. UNCHANGED <<clock, clicks, pc, click, payload, advice_payload, screen>>
  BY DEF ServePost
<1> DEFINE row == [click |-> c, template |-> clicks[c].template, created_at |-> clock]
<1>2. scans' = scans \/ scans' = Append(scans, row)
  BY DEF ServePost
<1>3. row.template \in Templates /\ row.created_at \in Nat
  BY Lengths DEF IInv, Shapes, TypeOK
<1> HIDE DEF row
<1>4. CASE scans' = scans
  BY <1>1, <1>4 DEF Shown, Sound
<1>5. CASE scans' = Append(scans, row)
  <2>1. /\ Len(scans) \in Nat /\ IsSeq(scans') /\ Len(scans') = Len(scans) + 1
        /\ \A i \in 1..Len(scans) : scans'[i] = scans[i]
        /\ scans'[Len(scans) + 1] = row
    BY <1>5, SeqFacts DEF IInv, Shapes
  <2>2. \A i \in 1..Len(scans') : i \in 1..Len(scans) \/ i = Len(scans) + 1
    BY <2>1
  <2>3. Stored(scans')
    BY <1>3, <2>1, <2>2 DEF Shown, Stored
  <2>4. ASSUME NEW u \in Users
        PROVE  Sound(u)'
    <3>1. MainOK(u) /\ ScreenOK(u) /\ Sound(u)
      BY DEF IInv, Pages, Shown
    <3>2. pc[u] \in {"advice", "list"} => payload[u].id \in 1..Len(scans)
      BY <3>1 DEF MainOK, OwnScan
    <3>3. ShowsOneScan(pc[u], payload[u], advice_payload[u], screen[u], scans')
      BY <2>1, <3>1, <3>2 DEF Sound, ShowsOneScan
    <3>4. ShowsTrend(screen[u], scans')
      <4>1. screen[u].kind \in {"results", "recent"} => Chronological(screen[u].trend)
        BY <3>1 DEF Sound, ShowsTrend
      <4>2. ASSUME screen[u].kind = "results"
            PROVE  Charted(screen[u].trend, screen[u].scan_id, scans')
        <5>1. screen[u].scan_id \in 1..Len(scans) /\ Charted(screen[u].trend, screen[u].scan_id, scans)
          BY <3>1, <4>2 DEF ScreenOK, Results, OwnScan, Sound, ShowsTrend
        <5>2. Stored(scans) /\ Len(scans) <= Len(scans')
          BY <2>1 DEF Shown
        <5> QED
          BY <2>1, <2>3, <5>1, <5>2, ChartedStays
      <4> QED
        BY <4>1, <4>2 DEF ShowsTrend
    <3> QED
      BY <1>1, <3>3, <3>4 DEF Sound
  <2> QED
    BY <2>3, <2>4 DEF Shown
<1> QED
  BY <1>2, <1>4, <1>5

LEMMA ShownSteps == IInv /\ Shown /\ [Next]_vars => Shown'
<1> SUFFICES ASSUME IInv, Shown, [Next]_vars
             PROVE  Shown'
  OBVIOUS
<1>1. ASSUME NEW u \in Users, RunEmpty(u)
      PROVE  Shown'
  <2> DEFINE page == [kind |-> "warning"]
  <2>1. Render(u, page) /\ page.kind = "warning" /\ UNCHANGED scans
    BY <1>1 DEF RunEmpty
  <2> HIDE DEF page
  <2> QED
    BY <2>1, PlainPageShows
<1>2. ASSUME NEW u \in Users, GetRefused(u)
      PROVE  Shown'
  <2>1. PICK status \in Refusals : Render(u, [kind |-> "error", status |-> status])
    BY <1>2 DEF GetRefused, SurfaceError
  <2> DEFINE page == [kind |-> "error", status |-> status]
  <2>2. Render(u, page) /\ page.kind = "error" /\ UNCHANGED scans
    BY <1>2, <2>1 DEF GetRefused
  <2> HIDE DEF page
  <2> QED
    BY <2>2, PlainPageShows
<1>3. ASSUME NEW u \in Users, CallRaises(u)
      PROVE  Shown'
  <2> DEFINE page == [kind |-> "exception"]
  <2>1. Render(u, page) /\ page.kind = "exception" /\ UNCHANGED scans
    BY <1>3 DEF CallRaises
  <2> HIDE DEF page
  <2> QED
    BY <2>1, PlainPageShows
<1>4. ASSUME NEW u \in Users, Main(u)
      PROVE  Shown'
  BY <1>2, <1>3, <1>4, PostedShows, AdvisedShows, ListedShows, ListedRecentShows DEF Main
<1>5. ASSUME NEW u \in Users, Run(u) \/ Rerun(u) \/ Interrupted(u)
      PROVE  Shown'
  BY <1>5, OtherUserStepsShow
<1>6. ASSUME NEW c \in DOMAIN clicks, ServePost(c)
      PROVE  Shown'
  BY <1>6, ServePostShows
<1>7. CASE SetClock \/ UNCHANGED vars
  <2>1. UNCHANGED <<scans, pc, payload, advice_payload, screen>>
    BY <1>7 DEF SetClock, vars
  <2> QED
    BY <2>1 DEF Shown, Sound
<1> QED
  BY <1>1, <1>4, <1>5, <1>6, <1>7 DEF Next
-----------------------------------------------------------------------------
\* The variables keep their types, for any users and any number of clicks.
THEOREM TypeCorrect == Spec => []TypeOK
<1>1. IInv => TypeOK
  BY DEF IInv
<1> QED
  BY Starts, Steps, <1>1, PTL DEF Spec

\* One click on "Run scan" stores at most one scan, whatever the client gives up on
\* and whoever clicks meanwhile, and none when the page says 400 or 413
\* (app.py:166-174, client.py:326-334).
THEOREM AClickStoresOnce == Spec => []OneScanPerClick
<1>1. IInv => OneScanPerClick
  <2> SUFFICES ASSUME IInv
               PROVE  OneScanPerClick
    OBVIOUS
  <2>1. \A c \in 1..Len(clicks) : PostOK(c, server[c], scans)
    BY DEF IInv, Posts
  <2>2. ASSUME NEW c \in 1..Len(clicks)
        PROVE  Cardinality(ScansOf(c)) <= 1
    <3>1. \A i, j \in ScansOf(c) : i = j
      BY <2>1, Lengths DEF PostOK, ScansOf
    <3>2. CASE ScansOf(c) = {}
      <4>1. Cardinality(ScansOf(c)) = 0
        BY <3>2, FS_EmptySet
      <4> QED
        BY <4>1
    <3>3. CASE ScansOf(c) # {}
      <4>1. PICK i : ScansOf(c) = {i}
        BY <3>1, <3>3
      <4>2. Cardinality(ScansOf(c)) = 1
        BY <4>1, FS_Singleton
      <4> QED
        BY <4>2
    <3> QED
      BY <3>2, <3>3
  <2>3. ASSUME NEW u \in Users, screen[u].kind = "error", screen[u].status \in {400, 413}
        PROVE  ScansOf(click[u]) = {}
    <3>1. click[u] \in 1..Len(clicks) /\ server[click[u]].status \in NoScan
      BY <2>3 DEF IInv, Pages, ScreenOK, NoScan
    <3>2. \A i \in 1..Len(scans) : scans[i].click # click[u]
      BY <2>1, <3>1 DEF PostOK
    <3> QED
      BY <3>2, Lengths DEF ScansOf
  <2> QED
    BY <2>2, <2>3, Lengths DEF OneScanPerClick
<1> QED
  BY Starts, Steps, <1>1, PTL DEF Spec

\* A results page is about the scan of the last click of the user who sees it, its
\* advice is that scan's, and the tables of findings and of advice list the same
\* findings, whoever posts between its three calls (app.py:166-183).
THEOREM PageOfOwnScan == Spec => []ResultsAreOneScan
<1>1. IInv /\ Shown => ResultsAreOneScan
  <2> SUFFICES ASSUME IInv, Shown, NEW u \in Users, Results(u)
               PROVE  /\ ScanOfOwnClick(u)
                      /\ SameFindings(screen[u].rows, screen[u].advice.items)
    BY DEF ResultsAreOneScan, SameFindings
  <2>1. ScanOfOwnClick(u)
    BY DEF IInv, Pages, ScreenOK, OwnClick, OwnScan, ScanOfOwnClick
  <2>2. SameFindings(screen[u].rows, screen[u].advice.items)
    BY DEF Shown, Sound, ShowsOneScan, Results
  <2> QED
    BY <2>1, <2>2
<1> QED
  BY Starts, Steps, ShownStarts, ShownSteps, <1>1, PTL DEF Spec

\* The chart runs forward in time and has the scan just posted, unless Limit others
\* were built at the same time or later; that holds until the page is left, whatever is
\* stored meanwhile (client.py:188-206, scans.py:80-90).
THEOREM ChartIsTrue == Spec => []TrendIsTrue
<1>1. IInv /\ Shown => TrendIsTrue
  <2> SUFFICES ASSUME IInv, Shown, NEW u \in Users, screen[u].kind \in {"results", "recent"}
               PROVE  /\ Chronological(screen[u].trend)
                      /\ Results(u) => Charted(screen[u].trend, screen[u].scan_id, scans)
    BY DEF TrendIsTrue, Chronological, Charted, Since
  <2> QED
    BY DEF Shown, Sound, ShowsTrend, Results
<1> QED
  BY Starts, Steps, ShownStarts, ShownSteps, <1>1, PTL DEF Spec
=============================================================================
