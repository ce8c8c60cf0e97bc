SPECIFICATION FairSpec
CONSTANTS
    c1 = c1
    c2 = c2
    c3 = c3
    Callers = {c1, c2, c3}
    TTL = 2
    Timeout = 1
    MaxTime = 4
    MaxVersion = 2
    NoCaller = NoCaller
    Error = Error
INVARIANTS TypeOK MonotoneReads
PROPERTIES BoundedStaleness NoLostWaiter
CHECK_DEADLOCK FALSE
