CONSTANTS
    Old = {2, 3}
    Growth <- Joining
    Hostname <- Hostnames
    Meta = {"f"}
    Chunks = {"c"}
    FileOf <- OneFile
    HashRange = 3
    Operators = {}
    Faults = {"lookup", "post", "rpc", "send"}
    MaxFaults = 1
SPECIFICATION MCSpec
PROPERTIES
    CallsReturn
    StartsEnd
CHECK_DEADLOCK FALSE
