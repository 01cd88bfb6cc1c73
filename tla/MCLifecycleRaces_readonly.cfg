SPECIFICATION Spec
CONSTANTS
    r1 = r1
    r2 = r2
    w1 = w1
    w2 = w2
    Nobody = Nobody
    Request <- TwoRequests
    Worker <- TwoWorkers
    NumDocs = 2
    MaxVersion = 3
PROPERTIES
    ClosedMeansReadOnly
SYMMETRY Sessions
