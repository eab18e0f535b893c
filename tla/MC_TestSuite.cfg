SPECIFICATION Spec
CONSTANTS
    f1 = f1
    f2 = f2
    d1 = d1
    Files = {f1, f2}
    Dirs = {d1}
    MaxOffset = 1
    MaxOps = 4
SYMMETRY Symmetry
CHECK_DEADLOCK FALSE
INVARIANTS
    DepsExact
    DropListIsLargest
    KeepListIsSmallest
