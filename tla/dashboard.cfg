SPECIFICATION Spec
CONSTANTS
    u1 = u1
    u2 = u2
    mixed = mixed
    bad = bad
    Users <- MCUsers
    Templates <- MCTemplates
    Parsing <- MCParsing
    Found <- MCFound
    Earlier <- MCEarlier
    Limit = 2
    Refusals = {401}
    MaxClicks = 3
    MaxClock = 1
INVARIANTS
    TypeOK
    ResultsAreOneScan
    OneScanPerClick
    TrendIsTrue
SYMMETRY UserSymmetry
