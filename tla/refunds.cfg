SPECIFICATION FairSpec
CONSTANTS
    x1 = x1
    a1 = a1
    a2 = a2
    l1 = l1
    l2 = l2
    None = None
    Payments = {x1}
    Admins = {a1, a2}
    Listeners = {l1, l2}
    MaxFaults = 2
INVARIANTS TypeOK  StatusesAgree
PROPERTIES RefundIsRecorded
CHECK_DEADLOCK FALSE
