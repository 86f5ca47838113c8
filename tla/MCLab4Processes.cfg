SPECIFICATION FairSpec
CONSTANTS
    Producers = {p1, p2}
    Consumers = {c1}
    BUFFER_SIZE = 2
    MaxFailures = 1
    NOPID = NOPID
INVARIANTS
    TypeOK
    TokenAccounting
    SafeAccess
    MutexLostOnlyByQuit
PROPERTIES
    StrangersOnlyByMinusOne
    MessagesFlow
    QuitEnds
