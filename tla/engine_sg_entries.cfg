SPECIFICATION DocumentSpec
CONSTANTS
    Contents <- MCContents
    Tags <- MCTags
    Dotted <- MCDotted
    Depth = 10
    Ids <- MCIds
    Bodies <- MCBodies
    MaxEntries = 3
INVARIANT
    OneFindingPerOpenEntry
CHECK_DEADLOCK FALSE
