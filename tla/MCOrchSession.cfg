\* Two commands, answered in time or given up before the reply comes.
SPECIFICATION Spec
CONSTANTS
    Calls = {a, b}
    NoCall = NoCall
    MaxTimeouts = 2
INVARIANTS
    TypeOK
    AnswersInStep
PROPERTIES
    SessionEndsForCause
    ReaderEndsWithSession
    UpdateIsAnswered
    OrchForgetsSession
CHECK_DEADLOCK FALSE
