SPECIFICATION Spec
CONSTANTS
    MaxImages = 2
    MaxBoot = 4
    MaxAttempts = 1
    MaxTime = 4
    OSTree = TRUE
    Faults = {"power"}
INVARIANT SnapshotComplete
CHECK_DEADLOCK FALSE
