SPECIFICATION FairSpec
CONSTANTS
    Hakemukset = {h1, h2}
    None = None
    MaxActions = 3
    MaxFaults = 1
INVARIANTS
    EditsAreKept
PROPERTIES
    IndicatorEnds
    SelectionEnds
CHECK_DEADLOCK FALSE
