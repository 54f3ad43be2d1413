SPECIFICATION Spec
CONSTANTS
    BFSIZE = 3
    PartialSend = FALSE
    Char <- MCChar
    Scripts <- MCScripts
    AnswerLens = {4}
INVARIANTS
    ServerSurvives
CHECK_DEADLOCK FALSE
