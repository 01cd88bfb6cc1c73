SPECIFICATION Spec
CONSTANTS
    r1 = r1
    r2 = r2
    w1 = w1
    w2 = w2
    Nobody = Nobody
    Request <- OneRequest
    Worker <- OneWorker
    NumDocs = 1
    MaxVersion = 2
INVARIANTS
    ProcessingMeansActive
