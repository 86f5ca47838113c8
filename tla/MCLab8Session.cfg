SPECIFICATION FairSpec
CONSTANTS
    Dirs = {home, other}
    Home = home
    Echoed <- MCEchoed
    NULL = NULL
    MaxSplits = 1
    MaxChanges = 1
CHECK_DEADLOCK FALSE
INVARIANTS
    TypeOK
    InStepUnlessSplit
    CacheFollowsCd
PROPERTIES
    EveryWaitEnds
    QuitEnds
