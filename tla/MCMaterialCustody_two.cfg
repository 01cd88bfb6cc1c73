SPECIFICATION Spec
CONSTANTS
    c1 = c1
    c2 = c2
    o1 = o1
    o2 = o2
    ad = ad
    f1 = f1
    f2 = f2
    None = None
    Session <- TwoSessions
    Officer = {o1, o2}
    Admin = {ad}
    File = {f1, f2}
    Big = {f2}
    RequestKey = {"k"}
    Capacity = 1
    MaxUploads = 3
    MaxRequests = 1
    MaxVersion = 2
INVARIANTS
    TypeOK
    ObjectsNamed
    DocumentsHaveOriginals
    WithinCapacity
    AnswersAgree
    VersionsSerialise
PROPERTIES
    LedgerSpec
    OwnersUpload
SYMMETRY Sessions
CHECK_DEADLOCK FALSE
