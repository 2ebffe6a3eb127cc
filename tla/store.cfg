SPECIFICATION Spec
CONSTANTS
    MaxDeps = 2
    MaxBoot = 2
    MaxWrites = 1
    MaxTime = 2
    MaxTroubles = 2
INVARIANTS TypeOK StrayIsReclaimable
 
