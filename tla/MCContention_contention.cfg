SPECIFICATION ScenarioSpec
CONSTANTS
    c1 = c1  c2 = c2  r1 = r1  r2 = r2  small = small  e1 = e1
    NoExecution = NoExecution
    Classes = {small}
    ExecutionIds = {e1}
    Clients = {c1, c2}
    RequestIds = {r1, r2}
    Messages <- AllCommands
    Limit <- TwoSlots
    OfferQuota = 1
    ExecutionQuota = 0
    MaxRecords = 4
    ReplayCapacity = 1
    OfferTTL = 1
    LeaseTTL = 1
    Retention = 0
    ReplayTTL = 1
    CommandHorizon = 1
    FutureSkew = 1
    MaxOffers = 3
    MaxServing = 2
    MaxTime = 2
    MaxFaults = 1
    ClockRegresses = FALSE
INVARIANTS  LaunchedOnce OneStopper FullInv ServedOnce QuotasRespected RecordsWithinBudget
PROPERTIES LeaseHonoured
