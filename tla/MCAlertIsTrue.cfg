SPECIFICATION Spec
CONSTANTS
    Id = {"j1"}
    Asks <- MCAsks
    System = "system"
    NoKey = "none"
    Outcome = {"succeeded"}
    PerOwner = 1
    Total = 1
    MaxDone = 1
    Runner = "runner"
    MaxProgress = 0
    MaxFaults = 1
    MaxRestart = 0
INVARIANTS
    AlertIsTrue
CHECK_DEADLOCK FALSE
