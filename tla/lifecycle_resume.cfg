SPECIFICATION Spec
CONSTANTS
    MaxCycle = 1
    MaxToken = 4
    MaxMoves = 3
    MaxTries = 2
    Moves <- MCLaunchingStops
    FaultKinds = {}
    MaxFaults = 0
INVARIANTS
    InventoryRetained
CHECK_DEADLOCK FALSE
