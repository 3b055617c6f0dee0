SPECIFICATION Spec
CONSTANTS
    Stale = 3
    MaxBackoff = 2
    MaxPolls = 2
    Commands = {c1, c2}
INVARIANTS
    TypeOK
    EvidenceIsOfThisLink
    ProjectionInStep
    NoSlotLeaks
PROPERTIES
    WritesFollowSubscription
    KeepsTrying
    UnloadEnds
CHECK_DEADLOCK FALSE
