SPECIFICATION FlowSpec
CONSTANTS
    p1 = p1
    a1 = a1
    Payments = {p1}
    Applications = {a1}
    AppOf <- SinglePayment
    InitialPayments = {p1}
    Eras = {e1}
    Threads = {s1}
    MaxStarts = 2
    MaxEdits = 1
    MaxCrashes = 1
    Key <- SingleKey
    MaxFiles = 1
    Fetches = {t1}
    MaxRows = 20
    MaxFaults = 1
INVARIANTS
    StuckOnlyWhileOutcomeUnknown
PROPERTIES
    PaidIsFinal
    SendingIsASender
CHECK_DEADLOCK FALSE
