SPECIFICATION RequestsSpec
CONSTANTS
    Deliveries = {"ask", "a", "b", "c"}
    ReplyTo <- AskAndReplies
    Tracked = {"ask", "a"}
    WritesFail = FALSE
    MaxEvents = 2
    Nothing = Nothing
INVARIANT NextReminderScheduled
CHECK_DEADLOCK FALSE
