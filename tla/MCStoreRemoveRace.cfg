CONSTANTS
    Rpcs = {r1, r2, r3, r4}
    Paths = {p1}
    MergeIds = {i1, i2}
    IoSizes <- MCIoSizes
    UniqueIds = TRUE
SPECIFICATION Spec
PROPERTY NoDataRemovalUnderMetadata
CHECK_DEADLOCK FALSE
