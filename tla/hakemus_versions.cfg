SPECIFICATION Spec
CONSTANTS
    Threads = {t1, t2}
    MaxRequests = 3
    MaxDeaths = 2
SYMMETRY ThreadSymmetry
INVARIANTS
    TypeOK
    OneOpenVersion
    SavesFollowWhatTheySaw
    AnswersLostOnlyByStaleHandler
    StatusUndoneOnlyByStaleHandler
    RefusalStands
PROPERTIES
    ClosedIsFrozen
CHECK_DEADLOCK FALSE
