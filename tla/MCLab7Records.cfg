SPECIFICATION Spec
CONSTANTS
    Editor = {e1, e2}
    Value = {v1, v2}
    Junk = Junk
    NULL = NULL
    COUNT_RECORDS = 2
SYMMETRY Symmetry
INVARIANTS
    TypeOK
    WaitsWithoutLocks
PROPERTIES
    RefusalIsJustified
