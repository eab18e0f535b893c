SPECIFICATION TraceeReadsSpec
CONSTANTS
    WordSize = 2
    PageSize = 8
    ChunkSize = 4
    MaxPath = 7
    Calls <- MCCalls
    Threads = {1, 2}
    Programs = {"sh", "git"}
    Libraries = {"libc"}
    LastPage = 3
    MaxDepth = 3
    MaxCalls = 3
    Workloads <- MCWorkloads
\* The calls end at MaxCalls, and a read is one step.
CHECK_DEADLOCK FALSE
INVARIANTS StringsFound StringsShown
INVARIANTS CachesCurrent
PROPERTIES AddressesRight StacksEnd
