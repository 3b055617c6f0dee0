SPECIFICATION FairSpec
CONSTANTS
    Accounts = {"a"}
    Tokens = {"t"}
    OddTokens = {}
    MaxSeq = 2
    Manifests = {{1,2}}
    Holdings = {{1}, {2}, {1,2}}
    ChunkSize = 1
    MaxWorkAttempts = 1
    Payloads = {"p"}
    MaxSourceChanges = 1
PROPERTIES
    ArchivedUpToFirstAbsence
    AuditsRecur
