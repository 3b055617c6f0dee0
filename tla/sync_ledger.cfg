SPECIFICATION Spec
CONSTANTS
    Accounts = {"a"}
    Tokens = {"t"}
    OddTokens = {}
    MaxSeq = 2
    Manifests = {{1}, {1,2}}
    Holdings = {{1}, {1,2}}
    ChunkSize = 1
    MaxWorkAttempts = 1
    Payloads = {p, q}
    p = p
    q = q
    MaxSourceChanges = 1
SYMMETRY PayloadSymmetry
INVARIANTS
    TypeOK
    SessionsStayScheduled
    GapsAreRetried
    AuditFollowsCoverage
    SelectedIsUnrivalled
