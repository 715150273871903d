SPECIFICATION FairSpec
CONSTANTS
    Limit = 2
    MaxUpdates = 2
    MaxDrains = 2
    MaxFaults = 1
CHECK_DEADLOCK FALSE
INVARIANTS NoUpdateLost DrainDry
PROPERTIES AllAdmitted
