SPECIFICATION Spec
CONSTANTS
    p1 = p1
    p2 = p2
    Payments = {p1, p2}
    Key <- SharedKey
    MaxFiles = 1
    Fetches = {t1, t2}
    MaxRows = 2
    MaxFaults = 0
SYMMETRY FetchSymmetry
INVARIANTS
    PaidMeansInvoiced
PROPERTIES
    PaidStands
CHECK_DEADLOCK FALSE
