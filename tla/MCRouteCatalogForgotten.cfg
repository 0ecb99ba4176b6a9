CONSTANTS
  LastFile = 1
  Ids = {"a", "b"}
  Digests = {"p"}
  Entries <- MCEntries
  None = None
  Torn = Torn
  Operations <- StartOperations
  MaxPending = 3
  MaxAttempts = 1
  MaxRestarts = 0
SPECIFICATION Spec
CHECK_DEADLOCK FALSE
INVARIANT NobodyForgotten
