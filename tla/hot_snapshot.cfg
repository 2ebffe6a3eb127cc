SPECIFICATION Spec
CONSTANTS
    MaxImages = 3
    MaxBoot = 4
    MaxAttempts = 1
    MaxTime = 4
    OSTree = TRUE
    Faults = {"eager", "kill"}
INVARIANT ColdSnapshot
CHECK_DEADLOCK FALSE
