SPECIFICATION Spec
CONSTANTS
    Client = {c1}
    NoClient = NoClient
    LineSize = 3
    RawSize = 3
    MaxBacklog = 1
    MaxBytes = 4
INVARIANTS
    TypeOK
    LineAsTyped
    NoConnectionForgotten
PROPERTIES
    EveryLineAnswered
CHECK_DEADLOCK FALSE
