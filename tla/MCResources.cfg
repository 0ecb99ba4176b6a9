SPECIFICATION ResourcesSpec
CONSTANTS
    Clients = {p1, p2}
    Host <- OneHost
    CrashInLock = TRUE
    SlowCreate = FALSE
    NoLock = NoLock
    Managers = {m1, m2, m3}
    Platforms = {TRUE, FALSE}
    NoManager = NoManager
    MaxWrites = 3
    Pools = {"reads", "pages"}
    Readers = {"c1", "c2", "c3"}
    PoolOf <- Asks
    Lanes = {1, 2, 3}
    LaneOf <- Own
    GlobalMax = 2
    MaxQueued = 1
    MaxStops = 2
    NoRead = NoRead
INVARIANTS
    ResourcesTypeOK
    MutualExclusion OneManagerByPipe
    NewestKept StopSaves LanesAccounted
PROPERTIES
    DeadOwnersGiveWay BoardSettles ReadCallsSettle
CHECK_DEADLOCK FALSE
