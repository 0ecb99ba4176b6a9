SPECIFICATION Spec
CONSTANTS
    c1 = c1  c2 = c2  c3 = c3  c4 = c4  p1 = p1  p2 = p2
    Execs = {c1, c2}
    Procs = {p1, p2}
    ProcOf <- TwoCalls
    HostOf <- TwoHosts
    DigestOf <- Payloads
    HasRecover = TRUE
    RecoverUncertain = FALSE
    Retryable = FALSE
    IOMayFail = FALSE
    BeatMayFail = FALSE
    NoExec = NoExec
INVARIANTS DeliveringIsFenced
CHECK_DEADLOCK FALSE
