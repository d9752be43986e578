SPECIFICATION Spec
CONSTANTS
    None = None
    LastGen = 1
    MaxLive = 3
    Pins <- MCOnePin
    Release <- MCOneRelease
    MaxGeneration <- MCOne
    Required = 2
    Moves = {"stop"}
    FaultKinds = {}
    MaxUpsets = 1
INVARIANTS
    FencingDefers
CHECK_DEADLOCK FALSE
