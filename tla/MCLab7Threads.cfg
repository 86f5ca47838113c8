SPECIFICATION Spec
CONSTANTS
    Producers = {p1, p2}
    Consumers = {c1, c2}
    Message = {m1}
    NULL = NULL
    Main = Main
    INITIAL_SIZE_BUFFER = 1
    MaxPlaces = 2
SYMMETRY Symmetry
INVARIANTS
    TypeOK
    NullOnlyAfterQuit
    MenuBlocksOnlyOnItself
PROPERTIES
    WakeupLostOnlyByDelete
