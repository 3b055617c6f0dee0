SPECIFICATION Spec
CONSTANTS
    Sources = {"probe"}
    Modes = {"normal"}
    Interval = 2
    MaxQueueItems = 8
    WriteBatchSize = 2
    MaxTimerDelay = 0
    ClockStepsBack = TRUE
    MaxRuns = 2
    MaxObservations = 2
    LateObservations = 2
    MaxTime = 2
INVARIANTS
    RecoveryNeverRejected
CHECK_DEADLOCK FALSE
