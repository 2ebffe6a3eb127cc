SPECIFICATION FairSpec
CONSTANTS
    ConfigFiles <- MCConfigFiles
    UsedFiles <- MCUsedFiles
    MaxClusters = 2
    MaxCommands = 3
    MaxBoots = 2
    MaxTroubles = 1
INVARIANTS
    TypeOK
    ResetLeavesFreshNode
    KnownDataIsGuarded
    OneCluster
    
    RoundTrip
    LoadsWhatIsUsable
PROPERTIES
    UnforcedKeepsClusters
    FailedResetsEnd
CHECK_DEADLOCK FALSE
