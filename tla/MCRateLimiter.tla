--------------------------- MODULE MCRateLimiter ---------------------------
(* Instances of RateLimiter for TLC: windows of three ticks with two ticks to *)
(* the second (so that Retry-After really rounds), the limiter disabled and  *)
(* with caps of one and two.                                                 *)
EXTENDS RateLimiter, TLC

CONSTANTS t1, t2, k1, k2

TwoThreads == {t1, t2}
TwoKeys == {k1, k2}
MCCaps == {0, 1, 2}

CallerSymmetry == Permutations(TwoThreads) \cup Permutations(TwoKeys)
=============================================================================
