SPECIFICATION Spec
CONSTANTS
    ReuseLogs = FALSE
    PowerFails = TRUE
    Faults = {}
    MaxWrites = 2
    MaxEdits = 4
    MaxFiles = 8
    MaxCrashes = 1
    MaxFaults = 0
    MaxIterators = 0
INVARIANTS SyncCoversEarlier
CHECK_DEADLOCK FALSE
