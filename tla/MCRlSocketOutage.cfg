SPECIFICATION Spec
CONSTANTS
    Gate = {g1}
    Server = {}
    MaxFd = 3
PROPERTIES
    OutlivesOutages
CHECK_DEADLOCK FALSE
