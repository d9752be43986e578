SPECIFICATION Spec
CONSTANTS
    Poll = 1
    MaxAge = 4
    MaxTime = 9
    MaxUpsets = 2
INVARIANTS
    StopInTime
    NoFalseStop
PROPERTIES
    StopSurvives
CHECK_DEADLOCK FALSE
