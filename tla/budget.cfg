SPECIFICATION Spec
CONSTANTS
    Scopes <- MCScopes
    Ancestors <- MCAncestors
    Limit <- MCLimit
    Threads <- MCThreads
    OpOf <- MCSharedOps
    ScopeOf <- MCScopeOf
    Estimates <- MCEstimates
    Usages <- MCUsages
    MaxFaults = 1
    LosesReplies = TRUE
INVARIANTS
    WithinLimits RecoveryReproducesLedger DispatchIsAccounted VerifiedCheckIsTheOutcome
PROPERTY OperationsAreDecidedOnce
