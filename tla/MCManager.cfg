SPECIFICATION ManagerSpec
CONSTANTS
    Reqs = {r1, r2, r3}
    Children = {1, 2}
    MaxQueue = 1
    None = None
    Plugins = {"p", "q", "r"}
    Revisions <- StableRevisions
    Profiles <- StableProfiles
    Required = {"d"}
    MaxCalls = 3
    MaxFailures = 1
    NoOp = NoOp
INVARIANTS
    ManagerTypeOK
    OneWriter NoRequestLost StoppedOwnsNothing
    GenerationIsWhole
PROPERTIES
    NoLateCommit EveryCallEnds
    FailureIsContained
CHECK_DEADLOCK FALSE
