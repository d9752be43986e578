SPECIFICATION FairSpec
CONSTANTS
    None = None
    LastGen = 2
    Pins <- MCOnePin
    MaxGeneration <- MCMax2
    MaxLive = 3
    Copies = {1}
    Moves = {}
    FaultKinds <- MCNoInstanceFault
    MaxUpsets = 1
INVARIANTS
    OneLaunchPerGeneration
    MarkerCoversLaunch
    RetirementRecordTrue
    NoSelfInflictedHold
PROPERTIES
    RetireOnlyAccepted
    ImplementsLineage
    ChainCompletes
CHECK_DEADLOCK FALSE
