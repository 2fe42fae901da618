CONSTANTS
    h1 = h1
    h2 = h2
    c1 = c1
    c2 = c2
    c3 = c3
    w1 = w1
    w2 = w2
    None = None
    Handlers = {h1}
    Checkouts = {c1}
    Windows = {w1}
    WindowOf <- MCWindowOf
    Mode <- MCYooKassa
    Ttl = 1
    MaxClock = 1
SPECIFICATION FairSpec
PROPERTIES SuccessfulPaymentConfirms
CHECK_DEADLOCK FALSE
