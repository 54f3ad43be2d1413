\* The log file is not set at first and may fail, waits end spuriously, and the
\* logger is destroyed at any moment.
SPECIFICATION FairSpec
CONSTANTS
    Writer = {w1, w2}
    MaxMsg = 2
    BufSize = 2
    Overflows = {0, 1, 2}
    Path = {p}
    NoPath = NoPath
    FileMayFail = TRUE
    SpuriousWake = TRUE
    MayExit = TRUE
INVARIANTS
    TypeOK
    Conserved
    NothingCutOff
    PerThreadOrder
    CompleteAtExit
PROPERTIES
    CurrentBounded
    ImplementsChannel
    EventuallyFlushed
CHECK_DEADLOCK FALSE
