SPECIFICATION DocumentSpec
CONSTANTS
    Contents <- MCContents
    Tags <- MCTags
    Dotted <- MCDotted
    Depth = 10
    Ids <- MCIds
    Bodies <- MCBodies
    MaxEntries = 3
INVARIANTS
    TypeOK
    IntrinsicsProveNothing
    FindingsAsDocumented
    LastVersionAudited
    ShortFormIsLongForm
PROPERTIES
    ImplementsAudit
    
CHECK_DEADLOCK FALSE
