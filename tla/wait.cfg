SPECIFICATION FairSpec
CONSTANTS
    Checks = {node, apiserver, controllerManager, scheduler}
    MaxFlips = 2
INVARIANTS
    TypeOK
    NilMeansEachSeen
    SendNeverBlocks
PROPERTIES
    Returns
    GoroutinesEnd
CHECK_DEADLOCK FALSE
