\* One client, one request.
CONSTANTS
    c1 = c1   w1 = w1   h1 = h1
    Clients = {c1}
    MaxRequests = 1
    Workers = {w1}
    Handlers = {h1}
    MaxAttempts = 2
    MaxFaults = 1
    None = None
SPECIFICATION Spec
INVARIANTS StaffKeepTheirAccount
CHECK_DEADLOCK FALSE
