---------------------------- MODULE RateLimiter ----------------------------
(***************************************************************************)
(* src/cfn_auditor/api/rate_limit.py: FixedWindowLimiter, called by any    *)
(* number of threads.                                                      *)
(*                                                                         *)
(* hit() has two atomic parts.  It reads the clock and derives the window  *)
(* with no lock held (Sample); then, under self._lock, it counts the       *)
(* request and collects old buckets, and decides on the local count        *)
(* (Count).  Any other thread may run between the two.  In the deployed    *)
(* service every call comes from the one event-loop thread: that is the    *)
(* instance with a single thread.                                          *)
(*                                                                         *)
(* Time is a number of ticks; a window is identified by its index          *)
(* now \div Window, so window_start is the index times Window.  A bucket    *)
(* with count 0 is a bucket that is not in the dictionary.                 *)
(***************************************************************************)
EXTENDS Integers, FiniteSets

CONSTANTS
          Threads,         \* callers of hit()
          Keys,            \* client keys
          Caps,            \* the values the configured cap may have
          Window,          \* window length, in ticks
          TicksPerSecond,  \* Retry-After is in whole seconds
          MaxTime,         \* bound on the clock
          MaxHits          \* bound on the requests of one client in one window

ASSUME ThreadsAssumption == IsFiniteSet(Threads) /\ Threads # {}
ASSUME CapsAssumption == Caps \subseteq Nat
ASSUME WindowAssumption == Window \in Nat \ {0}
ASSUME TicksAssumption == TicksPerSecond \in Nat \ {0}
ASSUME MaxTimeAssumption == MaxTime \in Nat

VARIABLES
    cap,      \* self._cap, read once at construction
    now,      \* the monotonic clock
    counts,   \* self._counts, [window index -> [key -> count]]
    pc,       \* "idle" or "sampled", per thread
    key,      \* hit()'s argument, per thread
    sample,   \* hit()'s local now, per thread
    verdict,  \* what the thread's last hit() returned
    admitted, \* history: requests allowed, per window and key
    horizon,  \* history: the newest cutoff any thread has collected with
    late      \* history: per window, the threads that counted a hit in it
              \* when the horizon had already passed it

vars == <<cap, now, counts, pc, key, sample, verdict, admitted, horizon, late>>

Time == 0..MaxTime
Win(time) == time \div Window
Windows == 0..Win(MaxTime)

enabled == cap > 0

Allowed == [allowed |-> TRUE, retry_after |-> 0]

Init ==
    /\ cap \in Caps
    /\ now = 0
    /\ counts = [w \in Windows |-> [k \in Keys |-> 0]]
    /\ pc = [t \in Threads |-> "idle"]
    /\ key \in [Threads -> Keys]
    /\ sample = [t \in Threads |-> 0]
    /\ verdict = [t \in Threads |-> Allowed]
    /\ admitted = [w \in Windows |-> [k \in Keys |-> 0]]
    /\ horizon = 0
    /\ late = [w \in Windows |-> {}]

Tick ==
    /\ now < MaxTime
    /\ now' = now + 1
    /\ UNCHANGED <<cap, counts, pc, key, sample, verdict, admitted, horizon, late>>

\* hit() with the limiter disabled: no clock, no lock, no count.
Bypass(t) ==
    /\ pc[t] = "idle"
    /\ ~enabled
    /\ verdict' = [verdict EXCEPT ![t] = Allowed]
    /\ UNCHANGED <<cap, now, counts, pc, key, sample, admitted, horizon, late>>

\* hit(k) up to the lock: now = clock(), window_start from it.
Sample(t, k) ==
    /\ pc[t] = "idle"
    /\ enabled
    /\ counts[Win(now)][k] < MaxHits
    /\ pc' = [pc EXCEPT ![t] = "sampled"]
    /\ key' = [key EXCEPT ![t] = k]
    /\ sample' = [sample EXCEPT ![t] = now]
    /\ UNCHANGED <<cap, now, counts, verdict, admitted, horizon, late>>

\* Mutated gc: the window of the caller is collected too.
gcInclusive(cnt, time) ==
    [w \in Windows |-> IF w <= Win(time) THEN [k \in Keys |-> 0] ELSE cnt[w]]

\* Mutated gc: nothing is ever collected.
gcNothing(cnt, time) == cnt

\* _gc_locked: drop every bucket older than the window of the caller's own now.
gc(cnt, time) ==
    [w \in Windows |-> IF w < Win(time) THEN [k \in Keys |-> 0] ELSE cnt[w]]

\* Mutated rejected: >= for >.
rejectedAtCap(current) == current >= cap

\* Mutated rejected: one more than the cap is let through.
rejectedLate(current) == current > cap + 1

rejected(current) == current > cap

\* The decision of hit() on a request counted as the current-th of its window.
outcome(current, time) ==
    IF rejected(current)
    THEN [allowed |-> FALSE, retry_after |-> (Win(time) + 1) * Window - time]
    ELSE Allowed

\* Mutated retryHeader: the fraction of a second is cut off.
retryHeaderFloor(r) == IF r \div TicksPerSecond < 1 THEN 1 ELSE r \div TicksPerSecond

\* dispatch: max(1, ceil(retry_after)), in whole seconds.
retryHeader(r) ==
    LET ceil == (r + TicksPerSecond - 1) \div TicksPerSecond
    IN  IF ceil < 1 THEN 1 ELSE ceil

\* The rest of hit(): count and collect under the lock, then compare.
Count(t) ==
    LET w == Win(sample[t])
        k == key[t]
        current == counts[w][k] + 1
        result == outcome(current, sample[t])
    IN  /\ pc[t] = "sampled"
        /\ counts' = gc([counts EXCEPT ![w][k] = current], sample[t])
        /\ verdict' = [verdict EXCEPT ![t] = result]
        /\ pc' = [pc EXCEPT ![t] = "idle"]
        /\ admitted' = [admitted EXCEPT ![w][k] = @ + (IF result.allowed THEN 1 ELSE 0)]
        /\ horizon' = IF w > horizon THEN w ELSE horizon
        /\ late' = [late EXCEPT ![w] = IF w < horizon THEN @ \cup {t} ELSE @]
        /\ UNCHANGED <<cap, now, key, sample>>

Next ==
    \/ Tick
    \/ \E t \in Threads :
          \/ Bypass(t)
          \/ \E k \in Keys : Sample(t, k)
          \/ Count(t)

Spec == Init /\ [][Next]_vars
-----------------------------------------------------------------------------
Verdicts == [allowed : BOOLEAN, retry_after : 0..Window]

TypeOK ==
    /\ cap \in Caps
    /\ now \in Time
    /\ counts \in [Windows -> [Keys -> Nat]]
    /\ pc \in [Threads -> {"idle", "sampled"}]
    /\ key \in [Threads -> Keys]
    /\ sample \in [Threads -> Time]
    /\ verdict \in [Threads -> Verdicts]
    /\ admitted \in [Windows -> [Keys -> Nat]]
    /\ horizon \in Windows
    /\ late \in [Windows -> SUBSET Threads]

\* rate_limit.py:12-13, "When count > cap we reject with HTTP 429", and the
\* setting's "Per-client request cap inside one window": no client has more
\* than cap requests of one window let through.
CapPerWindow ==
    enabled => \A w \in Windows, k \in Keys : admitted[w][k] <= cap

\* The price of reading the clock outside the lock: a thread that sampled a
\* window others have since collected starts its bucket again at 0.  It can do
\* so once, and never for a window nobody has left, so a window admits at most
\* one request per thread, less one, beyond the cap.
OvershootBounded ==
    enabled => \A w \in Windows, k \in Keys :
                  admitted[w][k] <= cap + Cardinality(Threads) - 1

\* While a window is the current one the limiter is exact for it: of the
\* requests counted, the first cap are admitted and no other, whatever the
\* threads do to the buckets of older windows.
CurrentWindowExact ==
    enabled => \A k \in Keys :
        LET counted == counts[Win(now)][k]
        IN  admitted[Win(now)][k] = IF counted <= cap THEN counted ELSE cap

\* A client is turned away only after cap of its requests went through in that
\* same window: neither another client's traffic nor a late collection can
\* cause a 429.
RejectedOnlyWhenSpent ==
    \A t \in Threads :
        ~verdict[t].allowed /\ pc[t] = "idle" =>
            admitted[Win(sample[t])][key[t]] >= cap

\* A client that waits as long as the Retry-After header says is out of the
\* window it was rejected in, and the header never asks for a full second more
\* than that takes.
RetryAfterIsTight ==
    \A t \in Threads :
        ~verdict[t].allowed /\ pc[t] = "idle" =>
            LET seconds == retryHeader(verdict[t].retry_after)
                end == (Win(sample[t]) + 1) * Window
            IN  /\ sample[t] + seconds * TicksPerSecond >= end
                /\ sample[t] + (seconds - 1) * TicksPerSecond < end

\* Lazy collection bounds the dictionary: however late the threads are, buckets
\* of at most one window per thread are kept at any time.
WindowsKeptBounded ==
    Cardinality({w \in Windows : \E k \in Keys : counts[w][k] > 0})
        <= Cardinality(Threads)

\* No step takes a count away from a bucket of the current window (the GC of a
\* thread that overslept uses its own, older cutoff; that of a thread in time
\* must stop at the window it is in).
CurrentBucketsKept ==
    [][ \A k \in Keys : counts'[Win(now)][k] >= counts[Win(now)][k] ]_vars
=============================================================================
