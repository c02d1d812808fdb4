SPECIFICATION CallsSpec
CONSTANTS
    OtherKeys <- MCOtherKeys
    CountValues <- MCCountValues
INVARIANTS
    GateAndGradeAgree
PROPERTY
    MoreFindingsNeverHelp
