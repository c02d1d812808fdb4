SPECIFICATION Spec
CONSTANTS
    w1 = w1
    w2 = w2
    Writers <- MCWriters
    MaxLimit = 2
    MaxClock = 1
    MaxScans = 4
INVARIANTS
    TypeOK
    NothingSkipped
    EachRepeatHidesAnArrival
SYMMETRY WriterSymmetry
