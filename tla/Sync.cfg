CONSTANTS
    Records = {r1, r2}
    Payloads = {p1, p2}
    Says <- OwnPayload
    Priority <- FirstIsUrgent
    Workers = {w1, w2}
    Handlers = {h1, h2}
    NoWorker = NoWorker
    CsrfExempt = TRUE
    Limit <- OneIsSmall
    MaxTrouble = 1
SPECIFICATION FairSpec
INVARIANTS
    TypeOK
    NothingLost
    
PROPERTIES
    PendingIsDecided
    ImplementsDelivery
CHECK_DEADLOCK FALSE
