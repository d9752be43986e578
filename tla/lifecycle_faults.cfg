SPECIFICATION Spec
CONSTANTS
    MaxCycle = 1
    MaxToken = 4
    MaxMoves = 2
    MaxTries = 2
    Moves <- MCStartCleanup
    FaultKinds <- MCAllFaults
    MaxFaults = 1
INVARIANTS
    OneBootstrapPerCycle
    MarkerCoversUnrecorded
    RetryArmed
CHECK_DEADLOCK FALSE
