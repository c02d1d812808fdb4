SPECIFICATION Spec
CONSTANTS
    t1 = t1
    t2 = t2
    k1 = k1
    k2 = k2
    Caps <- MCCaps
    Window = 3
    TicksPerSecond = 2
    MaxHits = 3
    Threads <- TwoThreads
    Keys <- TwoKeys
    MaxTime = 6
INVARIANTS
    OvershootBounded
    CurrentWindowExact
    RejectedOnlyWhenSpent
    RetryAfterIsTight
    WindowsKeptBounded
SYMMETRY CallerSymmetry
CHECK_DEADLOCK FALSE
