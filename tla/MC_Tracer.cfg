CONSTANTS
    Pids <- SmallPids
    Scenarios <- AllScenarios
    FirstSize = 1
SPECIFICATION Spec
INVARIANTS InSync TableIsCurrent ResultsPaired ConvAligned DetachedRun
PROPERTIES ImplementsTable Finishes
\* strace exits in the end.
CHECK_DEADLOCK FALSE
