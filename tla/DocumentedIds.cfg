SPECIFICATION TableSpec
CHECK_DEADLOCK FALSE
CONSTANTS
    Keys = {k1, k2}
    Names = {n1, n2}
    Null = Null
INVARIANT
    DocumentedIdFound
