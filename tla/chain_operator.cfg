SPECIFICATION Spec
CONSTANTS
    None = None
    LastGen = 2
    Pins <- MCTwoPins
    MaxGeneration <- MCMax12
    MaxLive = 2
    Copies = {1}
    Moves = {"edit", "stop", "hold", "clear"}
    FaultKinds = {"instance"}
    MaxUpsets = 2
INVARIANTS
    LiveCeiling
    TerminalOwnerAlone
PROPERTIES
    HandoffAfterRetirement
CHECK_DEADLOCK FALSE
