SPECIFICATION Spec
CONSTANTS
    NumRegs = 3
    Word = {0, 1, 3}
    ReadLimit = 3
    WriteLimit = 2
    m1 = m1
    m2 = m2
    Master = {m1, m2}
    NoMaster = NoMaster
    Setting <- Settings
    MaxBacklog = 1
INVARIANTS
    TypeOK
    OwnAnswer
    NoConnectionForgotten
PROPERTIES
    ImplementsRegisterService
    EveryRequestAnswered
CHECK_DEADLOCK FALSE
