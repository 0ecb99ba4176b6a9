CONSTANTS
  LastFile = 2
  Ids = {"a", "b"}
  Digests = {"p", "q"}
  Entries <- MCEntries
  None = None
  Torn = Torn
  Operations <- MCOperations
  MaxPending = 2
  MaxAttempts = 3
  MaxRestarts = 1
SPECIFICATION Spec
INVARIANTS
    RouteTypeOK NoStrayChild OneVerdict
PROPERTIES
    KeepsCatalog EveryCallIsAnswered
CHECK_DEADLOCK FALSE
