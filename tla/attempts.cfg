CONSTANTS
    Calls = {"p", "a", "q"}
    Ops = {"inner", "outer"}
    OpOf <- NestOp
    ParentOf <- NestParent
    Inline = {"q"}
    MaxActive = 2
    MaxAttempts = 2
    MaxRetries = 1
    NoCall = "none"
SPECIFICATION FairSpec
INVARIANTS
    CapacityIsLiveWork CommittedOutputIsDeterminate AttemptsAreCounted
PROPERTY NoWorkBelowAnEndedAttempt InterruptedAttemptEnds
