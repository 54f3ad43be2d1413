SPECIFICATION Spec
CONSTANTS
    BFSIZE = 3
    PartialSend = TRUE
    Char <- MCChar
    Scripts <- MCScripts
    AnswerLens = {4}
INVARIANTS
    SentIsPrefix
CHECK_DEADLOCK FALSE
