SPECIFICATION FairSpec
CONSTANTS
    Node <- Paths
    Shapes <- Settings
    Faults <- AllFaults
INVARIANTS
    TypeOK
    LaunchedOnce
    RetiresInOrder
    ThreeGenerations
    InventoryComplete
    NoSelfInflictedHold
PROPERTIES
    FamilyCompletes
    StopReachesAll
CHECK_DEADLOCK FALSE
