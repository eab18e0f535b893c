CONSTANTS
    Files = {f1, f2}
    Root = root
    Dirs = {root, d1}
    Names = {a, b}
    NoInode = none
    MaxSize = 3
    MaxLines = 5
    DumpOffsets = {1}
    Truncs = {"grow", "shrink"}
    Renames = {"file"}
    Syncs = {"file", "dir", "range"}
    Splits <- MCSplits
SPECIFICATION VerifySpec
INVARIANTS ReplaysAgree RenamePassesThrough
\* The traces end at MaxLines.
CHECK_DEADLOCK FALSE
