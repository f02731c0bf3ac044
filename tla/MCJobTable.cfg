SPECIFICATION TableSpec
CONSTANTS
    Jobs = {j1, j2, j3, j4, j5}
    NULL = NULL
    INITIAL_JOB_TABLE_CAPACITY = 2
INVARIANTS
    TableTypeOK
    IdIsPosition
    NoDanglingSlot
PROPERTIES
    ImplementsJobNumbers
