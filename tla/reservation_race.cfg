CONSTANTS
    h1 = h1
    h2 = h2
    c1 = c1
    c2 = c2
    c3 = c3
    w1 = w1
    w2 = w2
    None = None
    Handlers = {h1, h2}
    Checkouts = {c1, c2}
    Windows = {w1}
    WindowOf <- MCWindowOf
    Mode <- MCMixed
    Ttl = 1
    MaxClock = 2
SPECIFICATION FairSpec
INVARIANTS TypeOK WindowFollowsHold OneClaimPerWindow ConfirmedIsPaid ApprovalCanBeRepeated
PROPERTIES KeepsPromise PaymentMovesAsAllowed PaidVisitIsKept HoldsEnd PaidHoldConfirms
CHECK_DEADLOCK FALSE
