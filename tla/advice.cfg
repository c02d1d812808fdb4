SPECIFICATION Spec
CONSTANTS
    NoHeader = NoHeader
    NotUtf8 = NotUtf8
    Words <- MCWords
    lower <- MCLower
    Findings <- MCFindings
    Headers <- MCHeaders
    MaxStem = 3
    MaxTopK = 2
    Registered = {"R1", "R2"}
    Configurations <- MCConfigurations
    Contents <- MCContents
INVARIANTS
    TypeOK
    ItemPerFinding
    GroundedInOwnRule
    MisconfigurationNeverBreaks
PROPERTY
    NewFileDisplacesOnly
CHECK_DEADLOCK FALSE
