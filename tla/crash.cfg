SPECIFICATION Spec
CONSTANTS
    MaxImages = 3
    MaxBoot = 5
    MaxAttempts = 2
    MaxTime = 5
    OSTree = TRUE
    Faults <- Crashes
INVARIANTS
    TypeOK
    ReconcileOnWholeTrees
    DataSnapshotComplete
    ColdSnapshot
    MarkerGoneBeforeReconcile
    DataInv
PROPERTIES
    StorePromiseKept
CHECK_DEADLOCK FALSE
