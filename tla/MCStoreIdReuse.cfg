CONSTANTS
    Rpcs = {r1, r2, r3}
    Paths = {p1}
    MergeIds = {i1, i2}
    IoSizes <- MCIoSizes
    UniqueIds = FALSE
SPECIFICATION Spec
INVARIANT DisjointAppends
CHECK_DEADLOCK FALSE
