SPECIFICATION FairSpec
CONSTANTS
    None = None
    LastGen = 2
    Pins <- MCOnePin
    MaxGeneration <- MCMax2
    MaxLive = 2
    Copies = {1}
    Moves = {}
    FaultKinds = {}
    MaxUpsets = 0
PROPERTIES
    ChainCompletes
CHECK_DEADLOCK FALSE
