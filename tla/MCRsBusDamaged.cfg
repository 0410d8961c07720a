SPECIFICATION Safety
CONSTANTS
    NumItems = 2
    Config <- Configs
    StartSequenceLength = 2
    MaxNoise = 1
INVARIANTS
    ReadyMeansUndamaged
CHECK_DEADLOCK FALSE
