CONSTANTS
    None = None
    p1 = p1
    p2 = p2
    a1 = a1
    w1 = w1
    e1 = e1
    c1 = c1
    Workers = {p1, p2}
    Visits = {a1}
    Windows = {w1}
    Entries = {e1}
    Clients = {c1}
    VisitWindow <- MCVisitWindow
    VisitClient <- MCVisitClient
    EntryClient <- MCEntryClient
    Matches <- MCMatches
    Switchable = {"review"}
    MaxAttempts = 2
    BatchSize = 2
    MaxFaults = 1
SPECIFICATION Spec
INVARIANTS TypeOK ExtraCopyNeedsFault SentMeansDelivered LateSenderHasLostItsRow
 
SYMMETRY MCSymmetry
CHECK_DEADLOCK FALSE
