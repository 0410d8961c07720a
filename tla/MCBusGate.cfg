SPECIFICATION FairOrderSpec
CONSTANTS
    N = 3
    Kind <- MCKind
    NumItems <- MCNumItems
    StartSequenceLength = 1
INVARIANTS
    TypeOK
    MutualExclusion
    LockMatchesSession
    NothingLeftBehind
PROPERTIES
    OvertakenOnce
    ImplementsLinkLock
    EveryGateKeepsPolling
CHECK_DEADLOCK FALSE
