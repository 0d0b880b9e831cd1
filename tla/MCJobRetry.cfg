SPECIFICATION FairSpec
CONSTANTS
    Id = {"j1", "j4"}
    Asks <- MCAsks
    System = "system"
    NoKey = "none"
    Outcome = {"succeeded"}
    PerOwner = 1
    Total = 1
    MaxDone = 0
    Runner = "runner"
    MaxProgress = 1
    MaxFaults = 1
    MaxRestart = 1
PROPERTIES
    ImplementsBoard
    EndsStored
CHECK_DEADLOCK FALSE
