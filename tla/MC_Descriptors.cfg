SPECIFICATION Spec
CONSTANTS
    Names = {a, b}
    Inodes = {1, 2}
    Threads = {1, 2}
    Fds = {1, 2, 3}
    StdFds = {1}
    Outside = "outside"
    MaxSize = 3
    MaxCounts = 2
    Programs <- AllPrograms
SYMMETRY Alike
INVARIANTS FilesRebuilt DescriptorsAgree Converts
\* The programs end at their calls.
CHECK_DEADLOCK FALSE
