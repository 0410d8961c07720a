SPECIFICATION Safety
CONSTANTS
    Gate = {g1, g2}
    Server = {modbus}
    MaxFd = 5
INVARIANTS
    OwnDescriptor
    LostByFailedConnects
CHECK_DEADLOCK FALSE
