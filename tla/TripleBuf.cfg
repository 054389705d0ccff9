SPECIFICATION Spec
CONSTANTS
    Words <- MCWords
    MaxVersion = 4
INVARIANTS
    TypeOK
    NoTornRead
    NewestIsKept
    FlagExactUntilOverlap
PROPERTIES
    ReadsAdvanceUntilOverlap
