SPECIFICATION FairSpec
CONSTANTS
    Values = {v0, v1}
    Empty = v0
    MaxEdits = 3
    MaxTroubles = 1
INVARIANTS
    TypeOK
    EditsAreKept
    KnownVersion
PROPERTIES
    EditsGetSaved
CHECK_DEADLOCK FALSE
