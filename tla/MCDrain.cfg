SPECIFICATION DrainFairSpec
CONSTANTS
    Saver = {"s1", "s2"}
    Doc = {"d1"}
    Absent = "absent"
    Unknown = "unknown"
    Free = "free"
    Taken = "taken"
    MaxRev = 2
    MaxEdits = 1
    MaxFaults = 2
INVARIANTS
    SettingsAgree
    StoreClosedAlone
PROPERTIES
    NoLostUpdate
    DrainSettles
CHECK_DEADLOCK FALSE
