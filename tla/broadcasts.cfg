CONSTANTS
    None = None
    p1 = p1
    p2 = p2
    c1 = c1
    c2 = c2
    promo = promo
    Workers = {p1, p2}
    Broadcasts = {promo}
    Clients = {c1, c2}
    Toggling = {c1}
    SwitchFeature = TRUE
    MaxAttempts = 2
    BatchSize = 2
    MaxFaults = 1
SPECIFICATION FairSpec
INVARIANTS TypeOK EndedHasNoOpenRow OutcomeIsTrue ExtraCopyNeedsFault
PROPERTIES EndIsFinal RecipientsSettle
CHECK_DEADLOCK FALSE
