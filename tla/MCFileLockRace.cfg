SPECIFICATION LockSpec
CONSTANTS
    Clients = {p1, p2, p3}
    Host <- OneHost
    CrashInLock = TRUE
    SlowCreate = FALSE
    NoLock = NoLock
INVARIANT MutualExclusion
CHECK_DEADLOCK FALSE
