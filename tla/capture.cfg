SPECIFICATION LoopSpec
CONSTANTS
    Sources = {"probe"}
    Modes = {"normal"}
    Interval = 1
    MaxQueueItems = 2
    WriteBatchSize = 2
    MaxTimerDelay = 1
    ClockStepsBack = FALSE
    MaxRuns = 2
    MaxObservations = 4
    LateObservations = 0
    MaxTime = 1
INVARIANTS
    TypeOK
    CleanRunAccounted
    CleanRunReconciles
    OneOpenRun
    LostTransitionsInWindow
PROPERTIES
    OverflowSparesTransitions
    QueueDrains
    StopReturnsOnceAnswered
    ImplementsLedger
CHECK_DEADLOCK FALSE
