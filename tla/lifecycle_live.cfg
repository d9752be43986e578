SPECIFICATION FairSpec
CONSTANTS
    MaxCycle = 1
    MaxToken = 4
    MaxMoves = 2
    MaxTries = 2
    Moves <- MCHolding
    FaultKinds <- MCTimeAndStacks
    MaxFaults = 1
PROPERTIES
    CleanupSettles
    StartSettles
CHECK_DEADLOCK FALSE
