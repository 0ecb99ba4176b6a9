SPECIFICATION FenceSpec
CONSTANTS
    Contenders = {p1, p2}
    First = p1
    Topologies <- OwnMachines
    WorkerMayStall = FALSE
    NoOwner = NoOwner
INVARIANT SoleDeliverer
CHECK_DEADLOCK FALSE
