SPECIFICATION FencingSpec
CONSTANTS
    c1 = c1  c2 = c2  p1 = p1  p2 = p2  p3 = p3
    Execs = {c1, c2}
    Procs = {p1, p2}
    ProcOf <- TwoCalls
    HostOf <- TwoHosts
    DigestOf <- Payloads
    HasRecover = TRUE
    RecoverUncertain = TRUE
    Retryable = TRUE
    IOMayFail = TRUE
    BeatMayFail = TRUE
    NoExec = NoExec
    Contenders = {p1, p2, p3}
    First = p1
    Topologies <- Machines
    WorkerMayStall = TRUE
    NoOwner = NoOwner
    Sends = {"a", "b"}
    Requests <- Pairs
    MaxRestarts = 2
    Nobody = Nobody
    Unknown = Unknown
INVARIANTS
    FencingTypeOK AnswersAgree SoleDelivererOnOneMachine OnePostingInTime
PROPERTIES
    ReplacementUntouched CompletedIsFinal LeaseIsOwn
    RecentReplyBlocks EveryCallReturns
CHECK_DEADLOCK FALSE
