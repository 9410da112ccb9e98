CONSTANTS
    Rpcs = {r1, r2, r3, r4}
    Paths = {p1}
    MergeIds = {i1, i2, i3}
    IoSizes <- MCIoSizes
    UniqueIds = TRUE
SPECIFICATION Spec
INVARIANTS
    StoreInv
    AppendInv
    AppendGetsItsOffset
    DisjointAppends
    AckedSizeVisible
PROPERTY KeptUnlessReplaced
CHECK_DEADLOCK FALSE
SYMMETRY MCSymmetry
