CONSTANTS
    Rpcs = {r1, r2}
    Paths = {p1}
    MergeIds = {i1, i2}
    IoSizes <- MCIoSizes
    UniqueIds = TRUE
SPECIFICATION Spec
INVARIANT ExclusiveCreate
CHECK_DEADLOCK FALSE
