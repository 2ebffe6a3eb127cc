SPECIFICATION Spec
CONSTANTS
    MaxImages = 2
    MaxBoot = 4
    MaxAttempts = 1
    MaxTime = 5
    OSTree = TRUE
    Faults <- RemovalFaults
INVARIANTS
    HonestRecords
    ColdRestore
CHECK_DEADLOCK FALSE
