CONSTANTS
    f1 = f1
    f2 = f2
    root = root
    a = a
    b = b
    Files = {f1, f2}
    Dirs = {root}
    StdoutInode = stdout
    Traces <- MCTraces
    Splits <- MCSplits
    Slots = {0, 1}
    MaxMicro = 5
    MaxCalls = 4
SPECIFICATION Spec
INVARIANTS SuiteIsCurrent LegalReplay
\* A specification ends.
CHECK_DEADLOCK FALSE
