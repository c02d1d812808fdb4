SPECIFICATION FairSpec
CONSTANTS
    w1 = w1
    w2 = w2
    nobody = nobody
    bad = bad
    clean = clean
    risky = risky
    Workers <- MCWorkers
    NoWorker <- nobody
    PoolSize = 1
    Templates <- MCTemplates
    Parsing <- MCParsing
    Evaluation <- MCEvaluation
    MaxPosts = 1
    MaxClock = 0
    MaxSetback = 0
    MaxCrashes = 1
PROPERTY
    EveryRequestEnds
