SPECIFICATION Spec
CONSTANTS
    r1 = r1
    r2 = r2
    w1 = w1
    w2 = w2
    Request <- TwoRequests
    Worker <- TwoWorkers
    Survives <- Survivors
    StaleAfter = 1
    RenewEvery = 1
    NumDocs = 1
    Kinds <- ParsedKinds
    Selections <- FrontendSelections
    MaxAttempts = 3
    MaxRetries = 2
    MaxClaims = 3
PROPERTIES
    ActiveJobsNotRerun
