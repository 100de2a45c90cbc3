SPECIFICATION Spec
CONSTANTS
    Callers = {c1, c2}
    Editions <- TwoEditions
    Underlyings = {"nifty", "sbin"}
    Ttl = 1
    RefreshSeconds = 2
    MaxTime = 2
INVARIANTS
    DownloadsAreShared
    ContractsResolve
PROPERTIES
    CallsEnd
CHECK_DEADLOCK FALSE
