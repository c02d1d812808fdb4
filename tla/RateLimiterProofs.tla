-------------------------- MODULE RateLimiterProofs --------------------------
(***************************************************************************)
(* Proofs about RateLimiter, for every number of threads, keys and windows *)
(* and for every cap.                                                      *)
(*                                                                         *)
(* The argument.  As long as no thread has collected past a window, its    *)
(* buckets are complete and the limiter is exact for it (OnTimeExact).     *)
(* Once the horizon is beyond it, only threads that sampled it earlier can *)
(* still count in it; each does so at most once, because what it samples   *)
(* next lies beyond the window (LateOnce), and the thread that moved the   *)
(* horizon never does (OneNeverLate).  So the window admits at most one    *)
(* request per late thread beyond the cap (LateBounded).                   *)
(***************************************************************************)
EXTENDS RateLimiter, FiniteSetTheorems, TLAPS

\* A count as far as the cap admits it.
Capped(n) == IF n <= cap THEN n ELSE cap

\* No thread sampled the future, none collected beyond the present, and nothing
\* was counted in a window that has not begun.
NothingAhead ==
    /\ \A t \in Threads : sample[t] <= now
    /\ horizon <= Win(now)
    /\ \A w \in Windows, k \in Keys :
          w > Win(now) => counts[w][k] = 0 /\ admitted[w][k] = 0

\* Up to the horizon's window from the future, the limiter is exact.
OnTimeExact ==
    \A w \in Windows : w >= horizon =>
        /\ late[w] = {}
        /\ \A k \in Keys : admitted[w][k] = Capped(counts[w][k])

\* A bucket may have lost counts, never gained any.
CountsAreAdmitted ==
    \A w \in Windows, k \in Keys : admitted[w][k] >= Capped(counts[w][k])

LateBounded ==
    \A w \in Windows, k \in Keys : admitted[w][k] <= cap + Cardinality(late[w])

\* Thread t will count nothing more in window w.
Past(t, w) == pc[t] = "sampled" => Win(sample[t]) > w

LateOnce ==
    \A w \in Windows : \A t \in late[w] : Past(t, w)

OneNeverLate ==
    \A w \in Windows : w < horizon => \E t \in Threads : t \notin late[w] /\ Past(t, w)

IInv == /\ TypeOK
        /\ NothingAhead
        /\ OnTimeExact
        /\ CountsAreAdmitted
        /\ LateBounded
        /\ LateOnce
        /\ OneNeverLate
        /\ RejectedOnlyWhenSpent
-----------------------------------------------------------------------------
\* Windows follow one another: a later time is in no earlier window.
LEMMA WinMonotone ==
    ASSUME NEW a \in Time, NEW b \in Time, a <= b
    PROVE  /\ Win(a) \in Windows /\ Win(b) \in Windows
           /\ Win(a) <= Win(b)
<1>1. Window \in Nat \ {0} /\ MaxTime \in Nat /\ a \in Nat /\ b \in Nat
  BY WindowAssumption, MaxTimeAssumption DEF Time
<1>2. /\ a \div Window \in Nat /\ b \div Window \in Nat /\ MaxTime \div Window \in Nat
  BY <1>1
<1>3. a \div Window <= b \div Window
  BY <1>1
<1>4. b \div Window <= MaxTime \div Window
  BY <1>1 DEF Time
<1>. QED  BY <1>2, <1>3, <1>4 DEF Win, Windows

LEMMA WinType ==
    ASSUME NEW a \in Time
    PROVE  Win(a) \in Windows
<1>1. a <= a
  BY MaxTimeAssumption DEF Time
<1>. QED  BY <1>1, WinMonotone

\* Between a time and the end of its window lie 1 to Window ticks.
LEMMA TimeLeft ==
    ASSUME NEW a \in Time
    PROVE  (Win(a) + 1) * Window - a \in 1..Window
<1>1. Window \in Nat \ {0} /\ a \in Nat
  BY WindowAssumption DEF Time
<1>2. a = Window * (a \div Window) + (a % Window) /\ a % Window \in 0..(Window - 1)
  BY <1>1
<1>3. a \div Window \in Nat
  BY <1>1
<1>4. (a \div Window + 1) * Window = Window * (a \div Window) + Window
  BY <1>1, <1>3
<1>5. (a \div Window + 1) * Window - a = Window - (a % Window)
  BY <1>1, <1>2, <1>3, <1>4
<1>. QED  BY <1>1, <1>2, <1>5 DEF Win

\* The decision of a hit is a verdict.
LEMMA OutcomeType ==
    ASSUME NEW n \in Nat, NEW a \in Time
    PROVE  outcome(n, a) \in Verdicts /\ (outcome(n, a).allowed <=> ~rejected(n))
<1>1. Window \in Nat \ {0}
  BY WindowAssumption
<1>2. (Win(a) + 1) * Window - a \in 0..Window
  BY <1>1, TimeLeft
<1>. QED  BY <1>1, <1>2 DEF outcome, Verdicts, Allowed

\* Every reachable state is of the types the module declares.
LEMMA TypeCorrectInit == Init => TypeOK
<1>. USE CapsAssumption, MaxTimeAssumption
<1>1. 0 \in Time /\ 0 \in Windows
  <2>1. 0 \in Time
    BY DEF Time
  <2>2. 0 \in Windows
    BY <2>1, WindowAssumption DEF Windows, Win
  <2>. QED  BY <2>1, <2>2
<1>2. Allowed \in Verdicts
  BY WindowAssumption DEF Allowed, Verdicts
<1>. QED  BY <1>1, <1>2 DEF Init, TypeOK

LEMMA TypeCorrectStep == TypeOK /\ [Next]_vars => TypeOK'
<1>. USE CapsAssumption, MaxTimeAssumption
<1>. SUFFICES ASSUME TypeOK, [Next]_vars PROVE TypeOK'
  OBVIOUS
<1>1. CASE Tick
  BY <1>1 DEF TypeOK, Tick, Time
<1>2. ASSUME NEW t \in Threads, Bypass(t) PROVE TypeOK'
  <2>1. Allowed \in Verdicts
    BY WindowAssumption DEF Allowed, Verdicts
  <2>. QED  BY <1>2, <2>1 DEF TypeOK, Bypass
<1>3. ASSUME NEW t \in Threads, NEW k \in Keys, Sample(t, k) PROVE TypeOK'
  BY <1>3 DEF TypeOK, Sample
<1>4. ASSUME NEW t \in Threads, Count(t) PROVE TypeOK'
  <2> DEFINE w == Win(sample[t])
             k == key[t]
             current == counts[w][k] + 1
             result == outcome(current, sample[t])
  <2>1. sample[t] \in Time /\ w \in Windows /\ k \in Keys
    BY WinType DEF TypeOK
  <2>2. current \in Nat
    BY <2>1 DEF TypeOK
  <2>3. result \in Verdicts
    BY <2>1, <2>2, OutcomeType
  <2>4. counts' \in [Windows -> [Keys -> Nat]]
    <3>1. counts' = gc([counts EXCEPT ![w][k] = current], sample[t])
      BY <1>4 DEF Count
    <3>2. [counts EXCEPT ![w][k] = current] \in [Windows -> [Keys -> Nat]]
      BY <2>1, <2>2 DEF TypeOK
    <3>. QED  BY <3>1, <3>2 DEF gc
  <2>5. verdict' \in [Threads -> Verdicts] /\ pc' \in [Threads -> {"idle", "sampled"}]
    BY <1>4, <2>3 DEF Count, TypeOK
  <2>6. admitted' \in [Windows -> [Keys -> Nat]]
    BY <1>4, <2>1 DEF Count, TypeOK
  <2>7. horizon' \in Windows /\ late' \in [Windows -> SUBSET Threads]
    BY <1>4, <2>1 DEF Count, TypeOK
  <2>. QED  BY <1>4, <2>4, <2>5, <2>6, <2>7 DEF Count, TypeOK
<1>5. CASE UNCHANGED vars
  BY <1>5 DEF TypeOK, vars
<1>. QED  BY <1>1, <1>2, <1>3, <1>4, <1>5 DEF Next

\* Every reachable state is of the types the module declares.
THEOREM TypeCorrect == Spec => []TypeOK
<1>. QED  BY TypeCorrectInit, TypeCorrectStep, PTL DEF Spec
-----------------------------------------------------------------------------
LEMMA InvInit == Init => IInv
<1>. SUFFICES ASSUME Init PROVE IInv
  OBVIOUS
<1>1. TypeOK
  BY TypeCorrectInit
<1>2. \A w \in Windows : w \in Nat
  BY DEF Windows
<1>3. Win(0) = 0
  BY WindowAssumption DEF Win
<1>4. Capped(0) = 0
  BY CapsAssumption DEF Capped, Init
<1>5. NothingAhead
  BY <1>3 DEF NothingAhead, Init
<1>6. OnTimeExact /\ CountsAreAdmitted
  BY <1>4 DEF OnTimeExact, CountsAreAdmitted, Init
<1>7. LateBounded
  <2>1. Cardinality({}) = 0
    BY FS_EmptySet
  <2>. QED  BY <2>1, CapsAssumption DEF LateBounded, Init
<1>8. LateOnce /\ OneNeverLate
  BY <1>2 DEF LateOnce, OneNeverLate, Init
<1>9. RejectedOnlyWhenSpent
  BY DEF RejectedOnlyWhenSpent, Allowed, Init
<1>. QED  BY <1>1, <1>5, <1>6, <1>7, <1>8, <1>9 DEF IInv

\* Time passing only makes threads later.
LEMMA InvTick == IInv /\ Tick => IInv'
<1>. SUFFICES ASSUME IInv, Tick PROVE IInv'
  OBVIOUS
<1>1. TypeOK /\ TypeOK'
  BY TypeCorrectStep DEF IInv, Next
<1>2. now \in Time /\ now' \in Time /\ now <= now' /\ now \in Nat /\ now' \in Nat
  BY <1>1, MaxTimeAssumption DEF Tick, TypeOK, Time
<1>3. /\ Win(now) \in Windows /\ Win(now') \in Windows /\ Win(now) <= Win(now')
      /\ \A w \in Windows : w \in Int
  BY <1>2, WinMonotone DEF Windows
<1>4. NothingAhead'
  <2>1. \A t \in Threads : sample'[t] <= now'
    BY <1>1, <1>2 DEF IInv, NothingAhead, Tick, TypeOK, Time
  <2>2. horizon' <= Win(now')
    BY <1>1, <1>3 DEF IInv, NothingAhead, Tick, TypeOK
  <2>3. \A w \in Windows, k \in Keys :
            w > Win(now') => counts'[w][k] = 0 /\ admitted'[w][k] = 0
    BY <1>3 DEF IInv, NothingAhead, Tick
  <2>. QED  BY <2>1, <2>2, <2>3 DEF NothingAhead
<1>5. OnTimeExact' /\ CountsAreAdmitted' /\ LateBounded'
  BY DEF IInv, OnTimeExact, CountsAreAdmitted, LateBounded, Capped, Tick
<1>6. LateOnce' /\ OneNeverLate' /\ RejectedOnlyWhenSpent'
  BY DEF IInv, LateOnce, OneNeverLate, RejectedOnlyWhenSpent, Past, Tick
<1>. QED  BY <1>1, <1>4, <1>5, <1>6 DEF IInv

\* A disabled limiter changes no count.
LEMMA InvBypass ==
    ASSUME NEW t \in Threads, IInv, Bypass(t)
    PROVE  IInv'
<1>1. TypeOK /\ TypeOK'
  BY TypeCorrectStep DEF IInv, Next
<1>2. /\ verdict' = [verdict EXCEPT ![t] = Allowed]
      /\ UNCHANGED <<cap, now, counts, pc, key, sample, admitted, horizon, late>>
  BY DEF Bypass
<1>3. NothingAhead' /\ OnTimeExact' /\ CountsAreAdmitted' /\ LateBounded'
  BY <1>2 DEF IInv, NothingAhead, OnTimeExact, CountsAreAdmitted, LateBounded, Capped
<1>4. LateOnce' /\ OneNeverLate'
  BY <1>2 DEF IInv, LateOnce, OneNeverLate, Past
<1>5. RejectedOnlyWhenSpent'
  <2>1. Allowed.allowed
    BY DEF Allowed
  <2>. QED  BY <1>1, <1>2, <2>1 DEF IInv, RejectedOnlyWhenSpent, TypeOK
<1>. QED  BY <1>1, <1>3, <1>4, <1>5 DEF IInv

\* A thread samples the present, which is beyond every collected window.
LEMMA InvSample ==
    ASSUME NEW t \in Threads, NEW k \in Keys, IInv, Sample(t, k)
    PROVE  IInv'
<1>1. TypeOK /\ TypeOK'
  BY TypeCorrectStep DEF IInv, Next
<1>2. /\ now \in Time /\ Win(now) \in Windows /\ horizon \in Windows
      /\ \A w \in Windows : w \in Int
  BY <1>1, WinType DEF TypeOK, Windows
<1>3. /\ pc' = [pc EXCEPT ![t] = "sampled"] /\ sample' = [sample EXCEPT ![t] = now]
      /\ key' = [key EXCEPT ![t] = k]
      /\ UNCHANGED <<cap, now, counts, verdict, admitted, horizon, late>>
  BY DEF Sample
<1>4. NothingAhead'
  <2>1. \A u \in Threads : sample'[u] <= now'
    BY <1>1, <1>2, <1>3, MaxTimeAssumption DEF IInv, NothingAhead, TypeOK, Time
  <2>. QED  BY <1>3, <2>1 DEF IInv, NothingAhead
<1>5. OnTimeExact' /\ CountsAreAdmitted' /\ LateBounded'
  BY <1>3 DEF IInv, OnTimeExact, CountsAreAdmitted, LateBounded, Capped
<1>6. \A w \in Windows : w < horizon => Win(now) > w
  BY <1>2 DEF IInv, NothingAhead
<1>7. \A w \in Windows, u \in Threads : w < horizon /\ Past(u, w) => Past(u, w)'
  BY <1>1, <1>3, <1>6 DEF Past, TypeOK
<1>8. \A w \in Windows : late[w] # {} => w < horizon
  BY <1>2 DEF IInv, OnTimeExact
<1>9. LateOnce'
  BY <1>1, <1>3, <1>7, <1>8 DEF IInv, LateOnce, TypeOK
<1>10. OneNeverLate'
  BY <1>3, <1>7 DEF IInv, OneNeverLate
<1>11. RejectedOnlyWhenSpent'
  BY <1>1, <1>3 DEF IInv, RejectedOnlyWhenSpent, TypeOK
<1>. QED  BY <1>1, <1>4, <1>5, <1>9, <1>10, <1>11 DEF IInv

\* A hit is counted in the window that was sampled, in time or late.
LEMMA InvCount ==
    ASSUME NEW t \in Threads, IInv, Count(t)
    PROVE  IInv'
<1> DEFINE w == Win(sample[t])
           k == key[t]
           current == counts[w][k] + 1
           one == IF current <= cap THEN 1 ELSE 0
<1>1. TypeOK /\ TypeOK'
  BY TypeCorrectStep DEF IInv, Next
<1>2. /\ sample[t] \in Time /\ now \in Time /\ w \in Windows /\ k \in Keys /\ w <= Win(now)
      /\ Win(now) \in Windows /\ horizon \in Windows /\ cap \in Nat
      /\ \A v \in Windows : v \in Nat
  <2>1. sample[t] \in Time /\ now \in Time /\ sample[t] <= now
    BY <1>1 DEF IInv, NothingAhead, TypeOK
  <2>. QED  BY <1>1, <2>1, WinMonotone, CapsAssumption DEF TypeOK, Windows
<1>3. counts[w][k] \in Nat /\ current \in Nat /\ admitted[w][k] \in Nat
  BY <1>1, <1>2 DEF TypeOK
<1>4. pc[t] = "sampled" /\ UNCHANGED <<cap, now, key, sample>>
  BY DEF Count
<1>5. \A v \in Windows, j \in Keys :
          counts'[v][j] = IF v < w THEN 0
                          ELSE IF v = w /\ j = k THEN current ELSE counts[v][j]
  <2>1. counts' = gc([counts EXCEPT ![w][k] = current], sample[t])
    BY DEF Count
  <2>. QED  BY <1>1, <1>2, <2>1 DEF gc, TypeOK
<1>6. \A v \in Windows, j \in Keys :
          admitted'[v][j] = IF v = w /\ j = k THEN admitted[v][j] + one ELSE admitted[v][j]
  <2>1. outcome(current, sample[t]).allowed <=> current <= cap
    BY <1>2, <1>3, OutcomeType DEF rejected
  <2>2. admitted' = [admitted EXCEPT ![w][k] = @ + one]
    BY <2>1 DEF Count
  <2>. QED  BY <1>1, <1>2, <2>2 DEF TypeOK
<1>7. /\ horizon' = IF w > horizon THEN w ELSE horizon
      /\ \A v \in Windows :
            late'[v] = IF v = w /\ w < horizon THEN late[v] \cup {t} ELSE late[v]
  BY <1>1, <1>2 DEF Count, TypeOK
<1>8. /\ pc'[t] = "idle"
      /\ \A u \in Threads \ {t} : pc'[u] = pc[u] /\ verdict'[u] = verdict[u]
      /\ ~verdict'[t].allowed <=> current > cap
  <2>1. outcome(current, sample[t]).allowed <=> ~rejected(current)
    BY <1>2, <1>3, OutcomeType
  <2>2. verdict' = [verdict EXCEPT ![t] = outcome(current, sample[t])]
        /\ pc' = [pc EXCEPT ![t] = "idle"]
    BY DEF Count
  <2>. QED  BY <1>1, <2>1, <2>2 DEF TypeOK, rejected
<1>. HIDE DEF w, k
<1>9. Capped(counts[w][k]) + one = Capped(current) /\ Capped(current) <= cap
      /\ Capped(0) = 0
  BY <1>2, <1>3 DEF Capped
<1>10. \A v \in Windows, j \in Keys :
          admitted[v][j] \in Nat /\ counts[v][j] \in Nat /\ Capped(counts[v][j]) \in Nat
  BY <1>1, <1>2 DEF TypeOK, Capped
<1>11. NothingAhead'
  <2>1. horizon' <= Win(now')
    BY <1>2, <1>4, <1>7 DEF IInv, NothingAhead
  <2>2. \A v \in Windows, j \in Keys :
            v > Win(now') => counts'[v][j] = 0 /\ admitted'[v][j] = 0
    BY <1>2, <1>4, <1>5, <1>6 DEF IInv, NothingAhead
  <2>. QED  BY <1>4, <2>1, <2>2 DEF IInv, NothingAhead
<1>12. OnTimeExact'
  <2>1. ASSUME NEW v \in Windows, v >= horizon' PROVE late'[v] = {}
    <3>1. v >= horizon
      BY <1>2, <1>7, <2>1
    <3>2. late'[v] = late[v]
      <4>1. v \in Nat /\ w \in Nat /\ horizon \in Nat
        BY <1>2
      <4>2. ~(v = w /\ w < horizon)
        BY <3>1, <4>1
      <4>. QED  BY <1>7, <4>2
    <3>. QED  BY <3>1, <3>2 DEF IInv, OnTimeExact
  <2>2. ASSUME NEW v \in Windows, v >= horizon', NEW j \in Keys
        PROVE  admitted'[v][j] = Capped(counts'[v][j])
    <3>1. v >= horizon /\ v >= w
      BY <1>2, <1>7, <2>2
    <3>2. admitted[v][j] = Capped(counts[v][j])
      BY <3>1 DEF IInv, OnTimeExact
    <3>. QED  BY <1>2, <1>5, <1>6, <1>9, <3>1, <3>2
  <2>. QED  BY <1>4, <2>1, <2>2 DEF OnTimeExact, Capped
<1>13. CountsAreAdmitted'
  <2>1. ASSUME NEW v \in Windows, NEW j \in Keys
        PROVE  admitted'[v][j] >= Capped(counts'[v][j])
    <3>1. admitted[v][j] >= Capped(counts[v][j])
      BY DEF IInv, CountsAreAdmitted
    <3>. QED  BY <1>2, <1>5, <1>6, <1>9, <1>10, <3>1
  <2>. QED  BY <1>4, <2>1 DEF CountsAreAdmitted, Capped
<1>14. w < horizon => t \notin late[w]
  BY <1>2, <1>4 DEF IInv, LateOnce, Past, w
<1>15. LateBounded'
  <2>1. ASSUME NEW v \in Windows, NEW j \in Keys
        PROVE  admitted'[v][j] <= cap + Cardinality(late'[v])
    <3>1. IsFiniteSet(late[v]) /\ Cardinality(late[v]) \in Nat
      <4>1. late[v] \subseteq Threads
        BY <1>1 DEF TypeOK
      <4>. QED  BY <4>1, ThreadsAssumption, FS_Subset, FS_CardinalityType
    <3>2. admitted[v][j] <= cap + Cardinality(late[v])
      BY DEF IInv, LateBounded
    <3>3. CASE v = w /\ w < horizon
      <4>1. late'[v] = late[v] \cup {t} /\ t \notin late[v]
        BY <1>7, <1>14, <3>3
      <4>2. Cardinality(late'[v]) = Cardinality(late[v]) + 1
        BY <3>1, <4>1, FS_AddElement
      <4>. QED  BY <1>2, <1>6, <1>10, <3>1, <3>2, <4>2
    <3>4. CASE ~(v = w /\ w < horizon)
      <4>1. late'[v] = late[v]
        BY <1>7, <3>4
      <4>2. v = w => admitted[v][j] = Capped(counts[v][j])
        BY <1>2, <3>4 DEF IInv, OnTimeExact
      <4>3. v = w /\ j = k => admitted'[v][j] = Capped(current)
        BY <1>6, <1>9, <4>2
      <4>. QED  BY <1>2, <1>6, <1>9, <1>10, <3>1, <3>2, <4>1, <4>3 DEF Capped
    <3>. QED  BY <3>3, <3>4
  <2>. QED  BY <1>4, <2>1 DEF LateBounded
<1>16. \A v \in Windows, u \in Threads \ {t} : Past(u, v) => Past(u, v)'
  BY <1>4, <1>8 DEF Past
<1>17. \A v \in Windows : Past(t, v)'
  BY <1>8 DEF Past
<1>18. LateOnce'
  <2>1. ASSUME NEW v \in Windows, NEW u \in late'[v] PROVE Past(u, v)'
    <3>1. CASE u = t
      BY <1>17, <3>1
    <3>2. CASE u # t
      <4>1. u \in late[v] /\ u \in Threads \ {t}
        BY <1>1, <1>7, <3>2 DEF TypeOK
      <4>2. Past(u, v)
        BY <4>1 DEF IInv, LateOnce
      <4>. QED  BY <1>16, <4>1, <4>2
    <3>. QED  BY <3>1, <3>2
  <2>. QED  BY <2>1 DEF LateOnce
<1>19. OneNeverLate'
  <2>1. ASSUME NEW v \in Windows, v < horizon'
        PROVE  \E u \in Threads : u \notin late'[v] /\ Past(u, v)'
    <3>1. CASE v < horizon
      <4>1. PICK u \in Threads : u \notin late[v] /\ Past(u, v)
        BY <3>1 DEF IInv, OneNeverLate
      <4>2. v = w => u # t
        BY <1>2, <1>4, <4>1 DEF Past, w
      <4>3. u \notin late'[v]
        BY <1>7, <4>1, <4>2
      <4>. QED  BY <1>16, <1>17, <4>1, <4>3
    <3>2. CASE ~(v < horizon)
      <4>1. v >= horizon /\ v # w
        BY <1>2, <1>7, <2>1, <3>2
      <4>2. late[v] = {}
        BY <4>1 DEF IInv, OnTimeExact
      <4>3. late'[v] = {}
        BY <1>7, <4>1, <4>2
      <4>. QED  BY <1>17, <4>3
    <3>. QED  BY <3>1, <3>2
  <2>. QED  BY <2>1 DEF OneNeverLate
<1>20. RejectedOnlyWhenSpent'
  <2>1. \A v \in Windows, j \in Keys : admitted'[v][j] >= admitted[v][j]
    BY <1>6, <1>10
  <2>2. \A u \in Threads : Win(sample[u]) \in Windows /\ key[u] \in Keys
    BY <1>1, WinType DEF TypeOK
  <2>3. ASSUME NEW u \in Threads, ~verdict'[u].allowed, pc'[u] = "idle"
        PROVE  admitted'[Win(sample[u])][key[u]] >= cap
    <3>1. CASE u = t
      <4>1. Capped(counts[w][k]) = cap
        BY <1>2, <1>3, <1>8, <2>3, <3>1 DEF Capped
      <4>2. admitted[w][k] >= cap
        BY <1>2, <4>1 DEF IInv, CountsAreAdmitted
      <4>. QED  BY <1>2, <1>6, <1>3, <2>1, <3>1, <4>2 DEF w, k
    <3>2. CASE u # t
      <4>1. admitted[Win(sample[u])][key[u]] >= cap
        BY <1>8, <2>3, <3>2 DEF IInv, RejectedOnlyWhenSpent
      <4>2. admitted'[Win(sample[u])][key[u]] >= admitted[Win(sample[u])][key[u]]
            /\ admitted[Win(sample[u])][key[u]] \in Nat
            /\ admitted'[Win(sample[u])][key[u]] \in Nat
        BY <1>1, <1>10, <2>1, <2>2 DEF TypeOK
      <4>. QED  BY <1>2, <4>1, <4>2
    <3>. QED  BY <3>1, <3>2
  <2>. QED  BY <1>4, <2>3 DEF RejectedOnlyWhenSpent
<1>. QED  BY <1>1, <1>11, <1>12, <1>13, <1>15, <1>18, <1>19, <1>20 DEF IInv

LEMMA InvStep == IInv /\ [Next]_vars => IInv'
<1>1. ASSUME IInv, UNCHANGED vars PROVE IInv'
  <2>1. TypeOK'
    BY <1>1, TypeCorrectStep DEF IInv
  <2>2. NothingAhead' /\ OnTimeExact' /\ CountsAreAdmitted' /\ LateBounded'
    BY <1>1 DEF IInv, NothingAhead, OnTimeExact, CountsAreAdmitted, LateBounded, Capped, vars
  <2>3. LateOnce' /\ OneNeverLate' /\ RejectedOnlyWhenSpent'
    BY <1>1 DEF IInv, LateOnce, OneNeverLate, RejectedOnlyWhenSpent, Past, vars
  <2>. QED  BY <2>1, <2>2, <2>3 DEF IInv
<1>. QED  BY <1>1, InvTick, InvBypass, InvSample, InvCount DEF Next

LEMMA Invariant == Spec => []IInv
<1>. QED  BY InvInit, InvStep, PTL DEF Spec
-----------------------------------------------------------------------------
\* At most one request per thread, less one, goes through beyond the cap of a
\* window, however the threads are delayed between the clock and the lock.
THEOREM Overshoot == Spec => []OvershootBounded
<1>1. IInv => OvershootBounded
  <2>. SUFFICES ASSUME IInv, NEW w \in Windows, NEW k \in Keys
                PROVE  admitted[w][k] <= cap + Cardinality(Threads) - 1
    BY DEF OvershootBounded
  <2>1. /\ late[w] \subseteq Threads /\ admitted[w][k] \in Nat /\ cap \in Nat
        /\ horizon \in Windows /\ horizon \in Int /\ w \in Int
    BY CapsAssumption DEF IInv, TypeOK, Windows
  <2>2. PICK t \in Threads : t \notin late[w]
    <3>1. CASE w < horizon
      BY <3>1 DEF IInv, OneNeverLate
    <3>2. CASE ~(w < horizon)
      BY <2>1, <3>2, ThreadsAssumption DEF IInv, OnTimeExact
    <3>. QED  BY <3>1, <3>2
  <2>3. /\ IsFiniteSet(Threads \ {t}) /\ Cardinality(Threads \ {t}) = Cardinality(Threads) - 1
        /\ Cardinality(Threads) \in Nat
    BY ThreadsAssumption, FS_RemoveElement, FS_CardinalityType
  <2>4. /\ Cardinality(late[w]) <= Cardinality(Threads \ {t})
        /\ Cardinality(late[w]) \in Nat
    BY <2>1, <2>2, <2>3, FS_Subset, FS_CardinalityType
  <2>5. admitted[w][k] <= cap + Cardinality(late[w])
    BY DEF IInv, LateBounded
  <2>. QED  BY <2>1, <2>3, <2>4, <2>5
<1>. QED  BY <1>1, Invariant, PTL

\* Called from a single thread, as the event loop does, the limiter lets no
\* client have more than cap requests of a window.
THEOREM ExactForOneThread ==
    ASSUME Cardinality(Threads) = 1
    PROVE  Spec => []CapPerWindow
<1>1. TypeOK /\ OvershootBounded => CapPerWindow
  BY CapsAssumption DEF TypeOK, OvershootBounded, CapPerWindow
<1>. QED  BY <1>1, Overshoot, TypeCorrect, PTL

\* For the window the clock is in, what was admitted is what was counted, up to
\* the cap, for any number of threads.
THEOREM CurrentWindow == Spec => []CurrentWindowExact
<1>1. IInv => CurrentWindowExact
  <2>. SUFFICES ASSUME IInv PROVE CurrentWindowExact
    OBVIOUS
  <2>1. Win(now) \in Windows /\ Win(now) >= horizon
    BY WinType DEF IInv, TypeOK, NothingAhead, Windows
  <2>. QED  BY <2>1 DEF IInv, OnTimeExact, CurrentWindowExact, Capped
<1>. QED  BY <1>1, Invariant, PTL

\* No request is rejected before cap requests of its client went through in the
\* same window, for any number of threads.
THEOREM RejectionsEarned == Spec => []RejectedOnlyWhenSpent
<1>1. IInv => RejectedOnlyWhenSpent
  BY DEF IInv
<1>. QED  BY <1>1, Invariant, PTL
-----------------------------------------------------------------------------
(* Collection and Retry-After: facts about one thread each. *)

\* What an idle thread was told to wait is what is left of its window.
RetryIsTheRest ==
    \A t \in Threads :
        ~verdict[t].allowed /\ pc[t] = "idle" =>
            verdict[t].retry_after = (Win(sample[t]) + 1) * Window - sample[t]

Kept == {w \in Windows : \E k \in Keys : counts[w][k] > 0}

\* Every window that is kept has an owner, the thread that counted in it last, and
\* no thread owns two: counting in a later window would have collected the first.
Owned ==
    \E owner \in [Kept -> Threads] :
        /\ IsInjective(owner)
        /\ \A w \in Kept : Win(sample[owner[w]]) >= w

\* Rounded up to whole seconds a positive remainder is waited out, and not a full
\* second more.
LEMMA HeaderTight ==
    ASSUME NEW r \in Nat, r > 0
    PROVE  /\ retryHeader(r) \in Nat
           /\ retryHeader(r) * TicksPerSecond >= r
           /\ (retryHeader(r) - 1) * TicksPerSecond < r
<1> DEFINE s == TicksPerSecond
           x == r + s - 1
<1>1. s \in Nat \ {0} /\ x \in Nat
  BY TicksAssumption
<1>2. x \div s \in Nat /\ x % s \in 0..(s - 1) /\ x = s * (x \div s) + (x % s)
  BY <1>1
<1>3. x \div s >= 1
  BY <1>1, <1>2
<1>4. retryHeader(r) = x \div s
  BY <1>1, <1>2, <1>3 DEF retryHeader
<1>5. (x \div s) * s = s * (x \div s) /\ (x \div s - 1) * s = s * (x \div s) - s
  BY <1>1, <1>2
<1>. HIDE DEF x
<1>6. (x \div s) * s >= r /\ (x \div s - 1) * s < r
  BY <1>1, <1>2, <1>5 DEF x
<1>. QED  BY <1>2, <1>4, <1>6

LEMMA RetryStep == TypeOK /\ RetryIsTheRest /\ [Next]_vars => RetryIsTheRest'
<1>. SUFFICES ASSUME TypeOK, RetryIsTheRest, [Next]_vars PROVE RetryIsTheRest'
  OBVIOUS
<1>1. CASE Tick \/ UNCHANGED vars
  BY <1>1 DEF Tick, vars, RetryIsTheRest
<1>2. ASSUME NEW t \in Threads, Bypass(t) PROVE RetryIsTheRest'
  <2>1. Allowed.allowed
    BY DEF Allowed
  <2>. QED  BY <1>2, <2>1 DEF Bypass, RetryIsTheRest, TypeOK
<1>3. ASSUME NEW t \in Threads, NEW k \in Keys, Sample(t, k) PROVE RetryIsTheRest'
  BY <1>3 DEF Sample, RetryIsTheRest, TypeOK
<1>4. ASSUME NEW t \in Threads, Count(t) PROVE RetryIsTheRest'
  <2> DEFINE current == counts[Win(sample[t])][key[t]] + 1
  <2>1. /\ verdict' = [verdict EXCEPT ![t] = outcome(current, sample[t])]
        /\ pc' = [pc EXCEPT ![t] = "idle"] /\ sample' = sample
    BY <1>4 DEF Count
  <2>2. ~outcome(current, sample[t]).allowed =>
            outcome(current, sample[t]).retry_after = (Win(sample[t]) + 1) * Window - sample[t]
    BY DEF outcome, Allowed
  <2>. HIDE DEF current
  <2>. QED  BY <2>1, <2>2 DEF RetryIsTheRest, TypeOK
<1>. QED  BY <1>1, <1>2, <1>3, <1>4 DEF Next

\* A client that obeys Retry-After comes back in a new window, whatever the window
\* length and the clock's resolution, and is kept out no longer than rounding asks.
THEOREM RetryAfterSuffices == Spec => []RetryAfterIsTight
<1>1. Init => RetryIsTheRest
  BY DEF Init, RetryIsTheRest, Allowed
<1>2. TypeOK /\ RetryIsTheRest => RetryAfterIsTight
  <2>. SUFFICES ASSUME TypeOK, RetryIsTheRest, NEW t \in Threads,
                       ~verdict[t].allowed, pc[t] = "idle"
                PROVE  LET seconds == retryHeader(verdict[t].retry_after)
                           end == (Win(sample[t]) + 1) * Window
                       IN  /\ sample[t] + seconds * TicksPerSecond >= end
                           /\ sample[t] + (seconds - 1) * TicksPerSecond < end
    BY DEF RetryAfterIsTight
  <2> DEFINE r == verdict[t].retry_after
             seconds == retryHeader(r)
             end == (Win(sample[t]) + 1) * Window
  <2>1. sample[t] \in Time /\ sample[t] \in Nat /\ Window \in Nat \ {0}
    BY WindowAssumption DEF TypeOK, Time
  <2>2. r = end - sample[t] /\ end - sample[t] \in 1..Window
    BY <2>1, TimeLeft DEF RetryIsTheRest
  <2>3. end \in Int
    <3>1. Win(sample[t]) \in Nat
      BY <2>1, WinType DEF Windows
    <3>. QED  BY <2>1, <3>1
  <2>. HIDE DEF end, r
  <2>4. r \in Nat /\ r > 0
    BY <2>1, <2>2
  <2>5. /\ seconds \in Nat /\ seconds * TicksPerSecond >= r
        /\ (seconds - 1) * TicksPerSecond < r
    BY <2>4, HeaderTight
  <2>6. seconds * TicksPerSecond \in Int /\ (seconds - 1) * TicksPerSecond \in Int
    BY <2>5, TicksAssumption
  <2>. HIDE DEF seconds
  <2>7. /\ sample[t] + seconds * TicksPerSecond >= end
        /\ sample[t] + (seconds - 1) * TicksPerSecond < end
    BY <2>1, <2>2, <2>3, <2>4, <2>5, <2>6
  <2>. QED  BY <2>7 DEF seconds, end, r
<1>. QED  BY <1>1, <1>2, RetryStep, TypeCorrect, PTL DEF Spec
-----------------------------------------------------------------------------
\* A step that creates no bucket and takes no sample back keeps the owners.
LEMMA OwnersKept ==
    ASSUME Owned, TypeOK, TypeOK', Kept' \subseteq Kept,
           \A u \in Threads : Win(sample'[u]) >= Win(sample[u])
    PROVE  Owned'
<1>1. PICK owner \in [Kept -> Threads] :
          IsInjective(owner) /\ \A w \in Kept : Win(sample[owner[w]]) >= w
  BY DEF Owned
<1> DEFINE kept == [w \in Kept' |-> owner[w]]
<1>2. kept \in [Kept' -> Threads] /\ IsInjective(kept)
  BY <1>1 DEF IsInjective
<1>3. \A w \in Kept' : Win(sample'[kept[w]]) >= w
  <2>. SUFFICES ASSUME NEW w \in Kept' PROVE Win(sample'[owner[w]]) >= w
    OBVIOUS
  <2>1. w \in Kept /\ owner[w] \in Threads /\ w \in Nat
    BY <1>1 DEF Kept, Windows
  <2>2. Win(sample[owner[w]]) \in Nat /\ Win(sample'[owner[w]]) \in Nat
    BY <2>1, WinType DEF TypeOK, Windows
  <2>. QED  BY <1>1, <2>1, <2>2
<1>. QED  BY <1>2, <1>3 DEF Owned

LEMMA OwnedStep == IInv /\ Owned /\ [Next]_vars => Owned'
<1>. SUFFICES ASSUME IInv, Owned, [Next]_vars PROVE Owned'
  OBVIOUS
<1>1. TypeOK /\ TypeOK'
  BY TypeCorrectStep DEF IInv
<1>2. \A u \in Threads : sample[u] \in Time /\ Win(sample[u]) \in Nat
  BY <1>1, WinType DEF TypeOK, Windows
<1>3. ASSUME UNCHANGED <<counts, sample>> PROVE Owned'
  BY <1>1, <1>2, <1>3, OwnersKept DEF Kept
<1>4. ASSUME NEW t \in Threads, NEW k \in Keys, Sample(t, k) PROVE Owned'
  <2>1. sample' = [sample EXCEPT ![t] = now] /\ counts' = counts
    BY <1>4 DEF Sample
  <2>2. Win(sample[t]) <= Win(now)
    BY <1>1, <1>2, WinMonotone DEF TypeOK, IInv, NothingAhead
  <2>3. \A u \in Threads : Win(sample'[u]) >= Win(sample[u])
    BY <1>1, <1>2, <2>1, <2>2 DEF TypeOK
  <2>. QED  BY <1>1, <2>1, <2>3, OwnersKept DEF Kept
<1>5. ASSUME NEW t \in Threads, Count(t) PROVE Owned'
  <2> DEFINE w == Win(sample[t])
  <2>1. PICK owner \in [Kept -> Threads] :
            IsInjective(owner) /\ \A v \in Kept : Win(sample[owner[v]]) >= v
    BY DEF Owned
  <2>2. sample' = sample
    BY <1>5 DEF Count
  <2>3. w \in Windows /\ \A v \in Windows : v \in Nat
    BY <1>1, WinType DEF TypeOK, Windows
  <2>4. \A v \in Kept' : v = w \/ (v \in Kept /\ v > w)
    <3>1. \A v \in Windows, j \in Keys :
              counts'[v][j] = IF v < w THEN 0
                              ELSE IF v = w /\ j = key[t] THEN counts[w][key[t]] + 1
                              ELSE counts[v][j]
      BY <1>1, <1>5, <2>3 DEF Count, gc, TypeOK
    <3>. QED  BY <2>3, <3>1 DEF Kept
  <2> DEFINE heir == [v \in Kept' |-> IF v = w THEN t ELSE owner[v]]
  <2>. HIDE DEF w
  <2>5. heir \in [Kept' -> Threads]
    BY <2>1, <2>4
  <2>6. \A v \in Kept' : v # w => owner[v] # t
    <3>. SUFFICES ASSUME NEW v \in Kept', v # w, owner[v] = t PROVE FALSE
      OBVIOUS
    <3>1. v \in Kept /\ v > w /\ v \in Nat /\ w \in Nat
      BY <2>3, <2>4 DEF Kept
    <3>2. w >= v
      BY <2>1, <3>1 DEF w
    <3>. QED  BY <3>1, <3>2
  <2>7. IsInjective(heir)
    BY <2>1, <2>4, <2>6 DEF IsInjective
  <2>8. \A v \in Kept' : Win(sample'[heir[v]]) >= v
    BY <2>1, <2>2, <2>3, <2>4 DEF w
  <2>. QED  BY <2>5, <2>7, <2>8 DEF Owned
<1>6. CASE Tick \/ UNCHANGED vars \/ \E t \in Threads : Bypass(t)
  BY <1>3, <1>6 DEF Tick, vars, Bypass
<1>. QED  BY <1>4, <1>5, <1>6 DEF Next

\* However late the threads are, the dictionary holds buckets of at most as many
\* windows as there are threads: memory does not grow with time.
THEOREM MemoryBounded == Spec => []WindowsKeptBounded
<1>1. Init => Owned
  <2>. SUFFICES ASSUME Init PROVE Owned
    OBVIOUS
  <2>1. Kept = {}
    BY DEF Init, Kept
  <2>2. PICK t \in Threads : TRUE
    BY ThreadsAssumption
  <2> DEFINE owner == [w \in Kept |-> t]
  <2>3. owner \in [Kept -> Threads] /\ IsInjective(owner)
        /\ \A w \in Kept : Win(sample[owner[w]]) >= w
    BY <2>1 DEF IsInjective
  <2>. QED  BY <2>3 DEF Owned
<1>2. Owned => WindowsKeptBounded
  <2>. SUFFICES ASSUME Owned PROVE Cardinality(Kept) <= Cardinality(Threads)
    BY DEF WindowsKeptBounded, Kept
  <2>1. PICK owner \in [Kept -> Threads] : IsInjective(owner)
    BY DEF Owned
  <2>2. owner \in Injection(Kept, Threads)
    BY <2>1 DEF Injection
  <2>. QED  BY <2>2, ThreadsAssumption, FS_Injection
<1>. QED  BY <1>1, <1>2, OwnedStep, Invariant, PTL DEF Spec

\* No step of any thread, however old the time it collects with, takes a count
\* away from the window the clock is in.
THEOREM CollectionSpares == Spec => CurrentBucketsKept
<1>1. IInv /\ [Next]_vars => [\A k \in Keys : counts'[Win(now)][k] >= counts[Win(now)][k]]_vars
  <2>. SUFFICES ASSUME IInv, Next, NEW k \in Keys
                PROVE  counts'[Win(now)][k] >= counts[Win(now)][k]
    OBVIOUS
  <2>1. /\ Win(now) \in Windows /\ counts[Win(now)][k] \in Nat
        /\ \A v \in Windows : v \in Nat
    BY WinType DEF IInv, TypeOK, Windows
  <2>2. ASSUME counts' = counts PROVE counts'[Win(now)][k] >= counts[Win(now)][k]
    BY <2>1, <2>2
  <2>3. ASSUME NEW t \in Threads, Count(t)
        PROVE  counts'[Win(now)][k] >= counts[Win(now)][k]
    <3> DEFINE w == Win(sample[t])
    <3>1. w \in Windows /\ w <= Win(now) /\ key[t] \in Keys
      BY WinMonotone DEF IInv, TypeOK, NothingAhead
    <3>2. counts'[Win(now)][k] = IF Win(now) = w /\ k = key[t]
                                 THEN counts[w][key[t]] + 1 ELSE counts[Win(now)][k]
      BY <2>1, <2>3, <3>1 DEF Count, gc, IInv, TypeOK
    <3>. HIDE DEF w
    <3>. QED  BY <2>1, <3>2
  <2>4. CASE Tick \/ \E t \in Threads : Bypass(t) \/ \E j \in Keys : Sample(t, j)
    BY <2>2, <2>4 DEF Tick, Bypass, Sample
  <2>. QED  BY <2>3, <2>4 DEF Next
<1>. QED  BY <1>1, Invariant, PTL DEF Spec, CurrentBucketsKept
=============================================================================
