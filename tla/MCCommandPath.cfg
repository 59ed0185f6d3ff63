\* Two pages, two sessions on each link: a command and its retry, or two
\* commands, with a session of either link replaced in between.
SPECIFICATION Spec
CONSTANTS
    Commands = {a, b}
    None = None
    MaxUpper = 2
    MaxLower = 2
INVARIANTS
    TypeOK
    SessionOrder
PROPERTIES
    KeepsPromise
CHECK_DEADLOCK FALSE
