SPECIFICATION FairSpec
CONSTANTS
    p1 = p1
    p2 = p2
    a1 = a1
    a2 = a2
    Payments = {p1, p2}
    Applications = {a1, a2}
    AppOf <- TwoApplications
    InitialPayments = {p1, p2}
    Eras = {e1}
    Threads = {t1, t2}
    MaxStarts = 2
    MaxEdits = 0
    MaxCrashes = 1
INVARIANTS
    ProgressIsEarned
    CompletedMeansNotified
    CompletedMeansEveryMaksatusWentOut
    OneOpenRow
    DuplicatesOnlyAfterUnsureOutcome
PROPERTIES
    SentIsFinal
    SendingEnds
CHECK_DEADLOCK FALSE
