SPECIFICATION Safety
CONSTANTS
    maxNumGates = 2
    maxNumDevices = 2
    maxNumParams = 3
    UIntSize = 1048576
    NoFile = NoFile
    Start <- Starts
INVARIANTS
    ReadAsWritten
    StartsAsWritten
CHECK_DEADLOCK FALSE
