CONSTANTS
    MergeIds = {"i1", "i2"}
    IoSizes <- MCIoSizes
    MaxSize = 2
    MaxOps = 3
SPECIFICATION MCSpec
INVARIANTS
    RoundTrip
    CallsArrive
    ListingsArrive
PROPERTIES
    ImplementsMergedKey
