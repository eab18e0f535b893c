SPECIFICATION CrashStatesSpec
CONSTANTS
    f1 = f1
    d1 = d1
    Files = {f1}
    Dirs = {d1}
    MaxOffset = 1
    MaxOps = 4
    MaxPairs = 2
    MaxCalls = 2
\* The traces end at MaxOps.
CHECK_DEADLOCK FALSE
INVARIANTS
    CrashStatesAreValid
    AddedDepsExact
PROPERTY ImplementsDisk
