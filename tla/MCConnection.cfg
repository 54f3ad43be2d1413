SPECIFICATION FairSpec
CONSTANTS
    BFSIZE = 3
    PartialSend = FALSE
    Char <- MCChar
    Scripts <- MCScripts
    AnswerLens = {3, 4}
INVARIANTS
    TypeOK
    TakenWasSent
    SentIsPrefix
PROPERTIES
    HandlerEnds
CHECK_DEADLOCK FALSE
