SPECIFICATION FairSpec
CONSTANTS
    Mails = {m1, m2}
    Extras = {m1}
    Loop = Loop
    Runs = {r1, r2}
    QueueSize = 1
    MaxFailures = 2
    MaxLosses = 1
    MaxCrashes = 1
INVARIANTS
    TypeOK
    ForgottenOnlyAfterLoss
    SuccessWasAccepted
    CopiesOnlyWhenUnsure
PROPERTIES
    StoredIsSent
CHECK_DEADLOCK FALSE
