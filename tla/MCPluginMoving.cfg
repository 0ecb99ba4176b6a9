CONSTANTS
  Plugins = {"p", "q", "r"}
  Revisions <- MovingRevisions
  Profiles <- MovingProfiles
  Required = {"d"}
  MaxCalls = 3
  MaxFailures = 1
  NoOp = NoOp
SPECIFICATION KernelSpec
CHECK_DEADLOCK FALSE
INVARIANT NothingLeft
