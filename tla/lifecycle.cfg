SPECIFICATION FairSpec
CONSTANTS
    r1 = r1
    r2 = r2
    None = None
    Requests <- Pair
    Inputs <- MixedInputs
    Configured <- OpenOrKey
    NonASCII = {"cle-non-ascii"}
    Caps = {0, 1}
    MaxWindow = 1
    MaxRestarts = 1
    MaxFaults = 1
INVARIANTS
    OneTruthfulLine
    IdsAreTheirOwn
    RefusedIsNotServed
    BudgetPerBoot
    NoCollateral429
PROPERTY
    EveryRequestAnswered
CHECK_DEADLOCK FALSE
