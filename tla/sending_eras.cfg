SPECIFICATION Spec
CONSTANTS
    p1 = p1
    p2 = p2
    a1 = a1
    a2 = a2
    Payments = {p1}
    Applications = {a1}
    AppOf <- SinglePayment
    InitialPayments = {}
    Eras = {e1, e2}
    Threads = {t1, t2}
    MaxStarts = 2
    MaxEdits = 2
    MaxCrashes = 1
SYMMETRY ThreadSymmetry
INVARIANTS
    TypeOK
    SentWasDelivered
    SendingHasOneOwner
CHECK_DEADLOCK FALSE
