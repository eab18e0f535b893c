CONSTANTS
    t1 = t1
    t2 = t2
    Threads = {t1, t2}
    Files = {f}
    Pages = {1, 2}
    PageSize = 2
    FileSize = 3
    MaxRegions = 3
    Programs <- AllPrograms
SPECIFICATION Spec
SYMMETRY Symmetry
INVARIANTS AssertionsHold TrackersAgree FilesAgree WrittenThere SyncedInTime
\* Programs end at the bounds.
CHECK_DEADLOCK FALSE
