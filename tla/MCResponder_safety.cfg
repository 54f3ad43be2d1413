\* Files of up to two blocks; those with fewer are cached.
SPECIFICATION Spec
CONSTANTS
    Worker = {w1, w2}
    Uri = {index}
    Page404 = p404
    Page500 = p500
    MaxLen = 2
    MaxVal = 2
    MaxEdits = 1
    Null = Null
SYMMETRY Symmetry
INVARIANTS
    TypeOK
    CacheIntact
    AnswerFits
    LengthKept
CHECK_DEADLOCK FALSE
