\* nodeConn: the master's table towards one slave.
SPECIFICATION Spec
CONSTANTS
    Requests = {r1, r2}
    NoId = NoId
    MaxReplies = 2
    MaxInbox = 2
    DropOnWriteError = TRUE
INVARIANTS
    TypeOK
    ReaderNeverBlocks
    PendingHasWaiter
PROPERTIES
    EveryCallReturns
    ImplementsPromise
CHECK_DEADLOCK FALSE
