SPECIFICATION Spec
CONSTANTS
    r1 = r1
    r2 = r2
    w1 = w1
    w2 = w2
    Request <- TwoRequests
    Worker <- TwoWorkers
    Survives <- Survivors
    StaleAfter = 1
    RenewEvery = 1
    NumDocs = 1
    Kinds <- QueuedOrNot
    Selections <- PageSelections
    MaxAttempts = 2
    MaxRetries = 2
    MaxClaims = 3
INVARIANTS
    TypeOK
    ExclusiveHolder
    
PROPERTIES
    OnlyOverwritesBreakLeases
    OnlyOverwritesTakeArmed
    OnlyOverwritesSplitSteps
    OnlyOverwritesOfferEarly
    QueueSpec
SYMMETRY Sessions
