CONSTANTS
    k1 = k1
    k2 = k2
    Keys = {k1, k2}
    Kinds = {"put", "delete", "alter", "index"}
    StartRows = 1
    MaxOps = 3
    MaxUnits = 6
    MaxGens = 3
    MaxFaults = 1
    MaxFrozen = 1
    MaxPins = 1
    MaxJobs = 2
SPECIFICATION Spec
INVARIANTS ReadsMatchLog CrashSafe HeldFilesExist KeyIndexResolves CountersMatch NamesFresh
SYMMETRY Symmetry
CHECK_DEADLOCK FALSE
