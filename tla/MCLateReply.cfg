\* One caller gives up just before the reply comes.
SPECIFICATION Spec
CONSTANTS
    Calls = {a}
    NoCall = NoCall
    MaxTimeouts = 1
INVARIANTS
    AnswerIsItsOwn
CHECK_DEADLOCK FALSE
