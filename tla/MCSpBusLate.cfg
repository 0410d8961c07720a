SPECIFICATION Spec
CONSTANTS
    NumItems = 2
    MaxNoise = 1
INVARIANTS
    ReadyMeansOwnValue
CHECK_DEADLOCK FALSE
