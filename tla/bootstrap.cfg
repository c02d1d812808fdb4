SPECIFICATION BootSpec
CONSTANTS
    loop = loop
    w1 = w1
    w2 = w2
    Loop <- loop
    Workers <- MCWorkers
    Declarations <- MCDeclarations
    MaxApps = 3
    MaxBoots = 3
INVARIANTS
    OnePool
    SessionsSeeTables
    RulesAreAllThere
SYMMETRY WorkerSymmetry
CHECK_DEADLOCK FALSE
