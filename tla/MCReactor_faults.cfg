\* accept, fcntl, epoll_ctl and epoll_wait may fail and the threads may be stopped.
SPECIFICATION FairSpec
CONSTANTS
    Client = {c1, c2}
    Worker = {w1}
    FD = {f1, f2}
    MaxFDS = 1
    MaxReq <- OneSendsTwo
    CallMayFail = TRUE
    ThreadMayEnd = TRUE
    None = None
INVARIANTS
    MapMatchesKernel
PROPERTIES
    ImplementsService
    BacklogDrained
    InputServed
CHECK_DEADLOCK FALSE
