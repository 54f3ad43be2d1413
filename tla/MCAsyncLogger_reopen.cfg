SPECIFICATION Spec
CONSTANTS
    Writer = {w1, w2}
    MaxMsg = 1
    BufSize = 2
    Overflows = {0, 1, 2}
    Path = {p}
    NoPath = NoPath
    FileMayFail = TRUE
    SpuriousWake = TRUE
    MayExit = FALSE
INVARIANT ReopenedAfterFailure
CHECK_DEADLOCK FALSE
