CONSTANTS
    Hosts <- ThreeHosts
    ChunkSize = 2
    Clients = {c1, c2}
    Ranges <- TwoRanges
    Lengths = {0, 1, 2}
    Replicas = 1
    MaxOps = 2
    Faults = {"task", "answer", "post"}
    MaxFaults = 1
SPECIFICATION MCSpec
SYMMETRY ClientSymmetry
INVARIANTS
    BytesInPlace
    LastWriteStored
    SizeCoversData
    TruncateToZeroEmpties
    AckedOnACopy
    PiecesInPlace
    DataIsLatest
    NoFalseSuccess
PROPERTIES
    TruncateKeepsHead
CHECK_DEADLOCK FALSE
