CONSTANTS
    Daemons = {1, 2}
    Layouts <- SomeLayouts
    Arguments = {"good"}
    Cleaning <- NoCleaning
    Faults = {"step", "line", "kill"}
    MaxStarts = 2
    MaxFaults = 1
SPECIFICATION MCSpec
INVARIANTS
    ListedDaemonsServe
    DaemonsComplete
    PidFileNamesServer
    ClientsConfigured
