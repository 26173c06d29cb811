SPECIFICATION Spec
CONSTANTS
    s1 = s1
    s2 = s2
    s3 = s3
    s4 = s4
    p1 = p1
    p2 = p2
    p3 = p3
    c1 = c1
    Slot = {s1, s2, s3, s4}
    Send = {p1, p2, p3}
    Consolidation = {p3}
    Client = {c1}
    NoPayment = NoPayment
    Setup <- ReorgSetup
INVARIANTS
    ReminedRecorded
