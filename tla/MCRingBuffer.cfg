SPECIFICATION Spec
CONSTANTS
    Node = {n1, n2, n3, n4}
    Message = {m1, m2}
    Zeroed = Zeroed
    NULL = NULL
    BUFFER_SIZE = 2
    MaxPlaces = 4
    CounterMod = 3
    Garbage <- MCGarbage
SYMMETRY Symmetry
INVARIANTS
    TypeOK
    RingShape
PROPERTIES
    ImplementsFifo
    TotalsTrackContents
