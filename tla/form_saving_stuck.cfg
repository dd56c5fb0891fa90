SPECIFICATION Spec
CONSTANTS
    Values = {v0, v1}
    Empty = v0
    MaxEdits = 2
    MaxTroubles = 1
INVARIANT
    SavingIsTrue
CHECK_DEADLOCK FALSE
