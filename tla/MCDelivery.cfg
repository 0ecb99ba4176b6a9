SPECIFICATION DeliverySpec
CONSTANTS
    c1 = c1  c2 = c2  c3 = c3  c4 = c4  p1 = p1  p2 = p2
    Execs = {c1, c2, c3, c4}
    Procs = {p1, p2}
    ProcOf <- TwoAndTwo
    HostOf <- OneHost
    DigestOf <- Payloads
    HasRecover = TRUE
    RecoverUncertain = FALSE
    Retryable = FALSE
    IOMayFail = TRUE
    BeatMayFail = FALSE
    NoExec = NoExec
    Deliveries = {"ask", "a", "b", "c"}
    ReplyTo <- AskAndReplies
    Tracked = {"ask", "a"}
    WritesFail = TRUE
    MaxEvents = 2
    Nothing = Nothing
    Creators = {t1, t2, t3}
    Replacement = TRUE
    NoTask = NoTask
SYMMETRY Alike
INVARIANTS
    RecordsTypeOK
    AtMostOnce SoleExecutor SendingIsWorkedOn
    RecordsAgree OneReplyArrives
    OneTaskInTurn
PROPERTIES
    KeepsContract
    AnsweredIsFinal
CHECK_DEADLOCK FALSE
