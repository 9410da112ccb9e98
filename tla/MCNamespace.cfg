CONSTANTS
    c1 = c1
    c2 = c2
    Old = {2, 3}
    Growth <- Joining
    Hostname <- Hostnames
    Meta = {"f"}
    Chunks = {"k1", "k2"}
    FileOf <- OneFile
    HashRange = 3
    Operators = {"op"}
    Faults = {"lookup", "post", "rpc", "send", "reply", "open", "remove"}
    MaxFaults = 1
SPECIFICATION MCSpec
SYMMETRY ClientSymmetry
INVARIANTS
    StrictHierarchy
    RemovedLeavesNoData
    LookupsComplete
    NothingLost
    MigrationComplete
    OneMigrationAtATime
PROPERTIES
    RefinesNames
CHECK_DEADLOCK FALSE
