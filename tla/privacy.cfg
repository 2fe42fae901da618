\* One client who asks twice, a worker and an administrator.
CONSTANTS
    c1 = c1   w1 = w1   h1 = h1
    Clients = {c1}
    MaxRequests = 2
    Workers = {w1}
    Handlers = {h1}
    MaxAttempts = 2
    MaxFaults = 2
    None = None
SPECIFICATION FairSpec
INVARIANTS TypeOK OneOpenRequest AnonymizedOnRequest 
PROPERTIES NothingSentAfterwards ApprovedSettles
CHECK_DEADLOCK FALSE
