SPECIFICATION FairSpec
CONSTANTS
    None = None
    LastGen = 1
    Pins <- MCOnePin
    MaxGeneration <- MCMax1
    MaxLive = 3
    Copies = {1}
    Moves = {"start", "stop", "hold", "clear"}
    FaultKinds <- MCNoInstanceFault
    MaxUpsets = 2
PROPERTIES
    ChainCompletes
CHECK_DEADLOCK FALSE
