SPECIFICATION Spec
CONSTANTS
    Accounts = {"a"}
    Tokens = {"t"}
    OddTokens = {}
    MaxSeq = 3
    Manifests = {{1,2,3}}
    Holdings = {{}, {1}, {2}, {3}, {1,2}, {1,3}, {2,3}, {1,2,3}}
    ChunkSize = 2
    MaxWorkAttempts = 1
    Payloads = {"p"}
    MaxSourceChanges = 0
INVARIANTS
    ResolvedHidesNothing
