SPECIFICATION Spec
CONSTANTS
    MaxImages = 3
    MaxBoot = 4
    MaxAttempts = 1
    MaxTime = 4
    OSTree = TRUE
    Faults <- AllButRemove
INVARIANTS
    SnapshotHoldsItsBoot
    
    AnchorInv
PROPERTY PruneKeepsMostRecent
CHECK_DEADLOCK FALSE
