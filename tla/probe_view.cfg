SPECIFICATION Spec
CONSTANTS
    DirectWindow = 2
    ModeFresh = 2
    StatusFresh = 3
    InstantStale = 2
    Timeout = 3
    Period = 2
    MinNotify = 3
    Lag = 2
INVARIANT
    ShownIsRecent
PROPERTY
    DirectNeverUndone
