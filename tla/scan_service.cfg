SPECIFICATION Spec
CONSTANTS
    w1 = w1
    w2 = w2
    nobody = nobody
    bad = bad
    clean = clean
    risky = risky
    Workers <- MCWorkers
    NoWorker <- nobody
    PoolSize = 2
    Templates <- MCTemplates
    Parsing <- MCParsing
    Evaluation <- MCEvaluation
    MaxPosts = 2
    MaxClock = 1
    MaxSetback = 1
    MaxCrashes = 1
INVARIANTS
    NoHoldAndWait
    StatusTellsOutcome
    NewestFirst
PROPERTY
    ImplementsLedger
SYMMETRY WorkerSymmetry
