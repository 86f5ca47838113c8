SPECIFICATION FairSpec
CONSTANTS
    Producers = {p1}
    Consumers = {c1}
    Message = {m1}
    NULL = NULL
    Main = Main
    INITIAL_SIZE_BUFFER = 2
    MaxPlaces = 3
PROPERTIES
    MessagesFlow
    QuitEnds
