SPECIFICATION FairSpec
CONSTANTS
    N = 3
INVARIANTS
    TypeOK
    HandlersComplete
    ClosedOnce
    ListenerFindsWorkers
PROPERTY DeathNoticed
CHECK_DEADLOCK FALSE
