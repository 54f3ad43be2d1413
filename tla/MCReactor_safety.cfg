SPECIFICATION Spec
CONSTANTS
    Client = {c1, c2, c3}
    Worker = {w1, w2}
    FD = {f1, f2, f3}
    MaxFDS = 1
    MaxReq <- OneEach
    CallMayFail = FALSE
    ThreadMayEnd = FALSE
    None = None
SYMMETRY Symmetry
INVARIANTS
    TypeOK
    HandledEventHasWorker
    WithinCapacity
    MapMatchesKernel
    EdgeKept
    DescriptorsOwned
    NoStrayClose
    RoundRobin
CHECK_DEADLOCK FALSE
