SPECIFICATION FairSpec
CONSTANTS
    e1 = e1
    e2 = e2
    Streams = {1}
    Events = {e1, e2}
    StreamOf <- AllInOne
    Matching = {e1, e2}
    Start = 1
    Transactional = FALSE
    Workers = {w1, w2}
    MaxAttempts = 2
    BatchSize = 1
    MaxInFlight = 1
    MaxConcurrency = 1
    PendingLimit = 1
    CancelLimit = 1
    MaxRepairs = 0
    MaxPauses = 1
    MaxFaults = 1
CHECK_DEADLOCK FALSE
PROPERTY EventsSettle
