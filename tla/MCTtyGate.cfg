SPECIFICATION Spec
CONSTANTS
    Size = 2
    Word = 4
    Client = {c1, c2, c3}
    NoClient = NoClient
    MaxAsked = 1
    Punctual = TRUE
    BufSize = 1
    Bus = {{2}, {3}}
    MaxWaiting = 3
INVARIANTS
    TypeOK
    EachLinkOnce
    HandleWhileInUse
    OwnAnswerOnly
PROPERTIES
    EveryWalkEnds
    EveryRequestTaken
    EveryClientAccepted
CHECK_DEADLOCK FALSE
