SPECIFICATION FairSpec
CONSTANTS
    MaxImages = 3
    MaxBoot = 5
    MaxAttempts = 2
    MaxTime = 5
    OSTree = TRUE
    Faults <- FailingBoots
INVARIANTS
    SnapshotComplete
    RolledBackDataIsClean
    RollInv
PROPERTIES
    
    RestoreRequestConsumed
CHECK_DEADLOCK FALSE
