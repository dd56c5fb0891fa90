SPECIFICATION FairSpec
CONSTANTS
    p1 = p1
    p2 = p2
    Payments = {p1}
    Key <- SingleKey
    MaxFiles = 2
    Fetches = {t1}
    MaxRows = 3
    MaxFaults = 1
INVARIANTS
    NoResponseLost
    PaidOncePerRun
PROPERTIES
    ResponsesAreHandled
CHECK_DEADLOCK FALSE
