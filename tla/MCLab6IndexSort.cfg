SPECIFICATION FairSpec
CONSTANTS
    threads = 2
    BLOCKS = 8
    CNT = 2
    repeats = 2
    UNIT = 2
    TimeMarks <- MCTimeMarks
    NULL = NULL
INVARIANTS
    TypeOK
    ResultOrdered
    RaceOnlyThroughReset
PROPERTIES
    ResizedAlone
    Terminates
