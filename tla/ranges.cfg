SPECIFICATION Spec
CONSTANTS
    MaxSeq = 4
    MaxRanges = 3
    ChunkSize = 2
INVARIANTS
    CoverageIsExact
    MissingIsExact
    FirstMissingIsFirst
    AuditStepsForward
