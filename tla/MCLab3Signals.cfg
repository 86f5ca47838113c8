SPECIFICATION FairSpec
CONSTANTS
    MaxChildren = 2
    COUNT_OF_REPEATS <- MCRepeats
    ARR_SIZE = 1
INVARIANTS
    TypeOK
    EveryChildListed
PROPERTIES
    ShowsAgain
    AllowedAfterP
    QuitDeletesAll
