SPECIFICATION Spec
CONSTANTS
    MaxImages = 1
    MaxBoot = 5
    MaxAttempts = 1
    MaxTime = 5
    OSTree = TRUE
    Faults = {"remove", "power"}
PROPERTY PruneKeepsMostRecent
CHECK_DEADLOCK FALSE
