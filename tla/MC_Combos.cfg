SPECIFICATION CombosFairSpec
CONSTANTS
    f1 = f1
    d1 = d1
    Files = {f1}
    Dirs = {d1}
    MaxOffset = 0
    MaxOps = 4
    Limits = {0, 2}
    CallBudgets = {4, 100}
CHECK_DEADLOCK FALSE
INVARIANTS
    CombosValid
    CombosComplete
    CountExact
PROPERTY SearchEnds
