CONSTANTS
    Files = {f1, f2}
    Root = root
    Dirs = {root, d1}
    Names = {a, b}
    NoInode = none
    StdoutInode = stdout
    MaxSize = 2
    MaxLines = 4
    DumpOffsets = {1, 3}
    Truncs = {"grow"}
    Renames = {"file"}
    Syncs = {"file", "dir", "range"}
    Splits <- MCSplits
SPECIFICATION CrashSpec
INVARIANTS SyncedFileSurvives SyncedDirectorySurvives
\* The traces end at MaxLines.
CHECK_DEADLOCK FALSE
