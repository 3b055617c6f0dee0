SPECIFICATION Spec
CONSTANTS
    MaxLoads = 3
    MaxCrashes = 1
    Writes = {w1}
    Stop = Stop
    Bundles = {b1}
INVARIANTS
    OneWriter
    OnceReadyStaysOpenable
    ExitAnswersAll
    ManifestBlessesBundle
PROPERTIES
    BusyOnlyWhileOwned
    StopReturns
CHECK_DEADLOCK FALSE
