CONSTANTS
    c1 = c1
    c2 = c2
    k1 = k1
    k2 = k2
    NoConn = NoConn
    Calls = {c1}
    Conns = {k1, k2}
    InitialConns = {k1}
    Partition = {c1}
    BoundTo <- NoBound
    Urgent = {}
    Redo = {}
    Expirable = {c1}
    Cancellable = {c1}
    MayStop = TRUE
    PendingCap = 1
    MaxAttempts = 2
SPECIFICATION Spec
CHECK_DEADLOCK FALSE
INVARIANTS AtMostOnceUnlessRedo OkMeansExecuted IoMeansNotSent OrphansAreLateSends
PROPERTY ImplementsRemoteCall
