\* One connection with a lock timeout and one without, which is the default of
\* RedisConnection.
SPECIFICATION FairSpec
CONSTANTS
    Conn = {c1, c2}
    Thread = {t1, t2, t3}
    MaxConn = 2
    MaxRef = 2
    RefMod = 4
    Timed = {c1}
    MaxOps = 1
    Null = Null
INVARIANTS
    TypeOK
    RefCounts
    WithinMaxRef
    LockInside
    ReplyIsOwn
PROPERTIES
    NullOnlyIfBusy
    OperationsEnd
CHECK_DEADLOCK FALSE
