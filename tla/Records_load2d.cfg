CONSTANTS
    Programs <- MCLoadPrograms
    Mb = 7
    CacheLineSize = 1
    OperandSpace = 65536
SPECIFICATION Spec
INVARIANT CopiesConserve
CHECK_DEADLOCK FALSE
