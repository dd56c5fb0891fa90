SPECIFICATION Spec
CONSTANTS
    Mails = {m1, m2}
    Extras = {m1}
    Loop = Loop
    Runs = {r1}
    QueueSize = 1
    MaxFailures = 1
    MaxLosses = 0
    MaxCrashes = 0
INVARIANT
    AcceptedAsStored
CHECK_DEADLOCK FALSE
