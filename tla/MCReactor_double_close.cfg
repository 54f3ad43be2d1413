SPECIFICATION Spec
CONSTANTS
    Client = {c1, c2}
    Worker = {w1}
    FD = {f1, f2}
    MaxFDS = 2
    MaxReq <- OneEach
    CallMayFail = TRUE
    ThreadMayEnd = FALSE
    None = None
SYMMETRY Symmetry
INVARIANT NoStrayClose
CHECK_DEADLOCK FALSE
