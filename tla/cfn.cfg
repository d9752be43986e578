SPECIFICATION FairSpec
CONSTANTS
    None = None
    LastGen = 2
    MaxLive = 2
    Pins <- MCPins
    Release <- MCRelease
    MaxGeneration <- MCMax
    Required = 2
    Moves <- MCMoves
    FaultKinds <- MCFaults
    MaxUpsets = 1
INVARIANTS
    LiveCeiling
    OneRequestPerGeneration
    MarkerCoversStack
    LeftByFaultsOnly
    NoSelfInflictedHold
PROPERTIES
    HandoffIsApproved
    DeletesOnlyPredecessors
    ChainCompletes
CHECK_DEADLOCK FALSE
