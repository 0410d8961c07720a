SPECIFICATION Spec
CONSTANTS
    NumItems = 3
    MaxNoise = 1
INVARIANTS
    TypeOK
    PunctualMeansOwnValue
    LateAnswerStaysInSession
PROPERTIES
    ImplementsPollSession
    RecoversOnSoundBus
CHECK_DEADLOCK FALSE
