SPECIFICATION Spec
CONSTANTS
    e1 = e1
    e2 = e2
    Streams = {1}
    Events = {e1, e2}
    StreamOf <- AllInOne
    Matching = {e1, e2}
    Start = 1
    Transactional = TRUE
    Workers = {w1, w2}
    MaxAttempts = 2
    BatchSize = 2
    MaxInFlight = 2
    MaxConcurrency = 2
    PendingLimit = 2
    CancelLimit = 1
    MaxRepairs = 1
    MaxPauses = 0
    MaxFaults = 0
SYMMETRY Alike
CHECK_DEADLOCK FALSE
INVARIANTS
    ExactlySubscribed EffectsInOrder EffectExactlyOnce CheckpointIsFrontier LimitsHold
PROPERTY TerminalIsFinal
