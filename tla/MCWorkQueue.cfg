SPECIFICATION FairSpec
CONSTANTS
    Inst = {"v1", "v2"}
    Limit = 1
    MaxGen = 2
    MaxSeq = 2
    MaxCrash = 1
INVARIANTS
    WorkKept
    NoLostWake
PROPERTIES
    EveryChangeRun
CHECK_DEADLOCK FALSE
