SPECIFICATION SendSpec
CONSTANTS
    Sends = {"a", "b"}
    Requests <- ReplyAndFollowUp
    MaxRestarts = 0
    Nobody = Nobody
    Unknown = Unknown
PROPERTY RepeatGetsResult
CHECK_DEADLOCK FALSE
