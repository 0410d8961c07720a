SPECIFICATION Spec
CONSTANTS
    NumItems = 2
    Config <- Configs
    StartSequenceLength = 2
    MaxNoise = 1
INVARIANTS
    TypeOK
    DeviceTypeKnown
    LateAnswerStaysInSession
PROPERTIES
    ImplementsPollSession
    RecoversIfConfigured
CHECK_DEADLOCK FALSE
