SPECIFICATION Spec
CONSTANTS
    Id = {"j1", "j2", "j3"}
    Asks <- MCAsks
    System = "system"
    NoKey = "none"
    Outcome = {"succeeded"}
    PerOwner = 1
    Total = 1
    MaxDone = 1
    Runner = "runner"
    MaxProgress = 0
    MaxFaults = 1
    MaxRestart = 0
INVARIANTS
    KeysAndBounds
    NoRetryLost
CHECK_DEADLOCK FALSE
