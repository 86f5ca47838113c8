SPECIFICATION FairSpec
CONSTANTS
    Producers = {p1}
    Consumers = {c1}
    Message = {m1}
    NULL = NULL
    BUFFER_SIZE = 2
    MaxPlaces = 3
    MaxPasses = 2
INVARIANTS
    TypeOK
    TokenAccounting
    SafeAccess
PROPERTIES
    MessagesFlow
    QuitEnds
