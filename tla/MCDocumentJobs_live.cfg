SPECIFICATION FairSpec
CONSTANTS
    r1 = r1
    r2 = r2
    w1 = w1
    w2 = w2
    Request <- TwoRequests
    Worker <- TwoWorkers
    Survives <- Survivors
    StaleAfter = 1
    RenewEvery = 1
    NumDocs = 1
    Kinds <- StructuredOnly
    Selections <- FrontendSelections
    MaxAttempts = 3
    MaxRetries = 0
    MaxClaims = 6
PROPERTIES
    JobsSettle
