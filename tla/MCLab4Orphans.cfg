SPECIFICATION FairSpec
CONSTANTS
    Producers = {p1}
    Consumers = {c1}
    BUFFER_SIZE = 2
    MaxFailures = 0
    NOPID = NOPID
PROPERTIES
    AllChildrenDeleted
