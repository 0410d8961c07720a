SPECIFICATION Spec
CONSTANTS
    Setup <- Meters
    Items = 2
    StartSequenceLength = 2
    BufferSize = 40
    MaxPending = 2
INVARIANTS
    AcceptedIsOwn
    SessionPerConnection
PROPERTY
    KeepsAnswering
CHECK_DEADLOCK FALSE
