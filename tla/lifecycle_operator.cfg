SPECIFICATION Spec
CONSTANTS
    MaxCycle = 2
    MaxToken = 4
    MaxMoves = 2
    MaxTries = 2
    Moves <- MCAllMoves
    FaultKinds = {}
    MaxFaults = 0
INVARIANTS
    TypeOK
    ResetLeavesNothing
    BusyGateTrue
PROPERTIES
    NothingNewAfterInventory
    ImplementsCycle
CHECK_DEADLOCK FALSE
