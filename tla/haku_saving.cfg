SPECIFICATION FairSpec
CONSTANTS
    Hakus = {h1, h2}
    MaxEdits = 2
    MaxFaults = 1
    MaxSetBacks = 1
INVARIANTS
    ShownSavedIsSaved
PROPERTIES
    SavesInOrder
    EditsReachServer
CHECK_DEADLOCK FALSE
