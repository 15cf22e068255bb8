SPECIFICATION Spec
CONSTANTS
    c1 = c1  c2 = c2  r1 = r1  r2 = r2  small = small  e1 = e1
    NoExecution = NoExecution
    Classes = {small}
    ExecutionIds = {e1}
    Clients = {c1}
    RequestIds = {r1}
    Messages <- Cancelled
    Limit <- OneSlot
    OfferQuota = 0
    ExecutionQuota = 0
    MaxRecords = 3
    ReplayCapacity = 2
    OfferTTL = 1
    LeaseTTL = 1
    Retention = 0
    ReplayTTL = 1
    CommandHorizon = 2
    FutureSkew = 1
    MaxOffers = 1
    MaxServing = 2
    MaxTime = 0
    MaxFaults = 0
    ClockRegresses = FALSE
INVARIANTS CancelledIsStopped
