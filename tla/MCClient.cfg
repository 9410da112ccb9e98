CONSTANTS
    Threads = {t1, t2}
    NoThread = nobody
    Replicas = 1
    UseCache = TRUE
    Threshold = 1
    MaxSize = 3
    MaxCalls = 4
    MaxRemoves = 0
    Failures = {"post", "lost", "error"}
    MaxFailures = 1
SPECIFICATION MCSpec
INVARIANTS
    SizesAccounted
    FlushedOrUnderWay
    SizesMatchWrites
    DentriesCurrent
    DescriptorsNameTheirFile
    PositionIsExact
    DescriptorsApart
    PathsLeadThere
SYMMETRY MCSymmetry
CHECK_DEADLOCK FALSE
