CONSTANTS
    Workers = {w1, w2}
    MaxReplays = 3
    MaxRuns = 2
    CheckerMayFail = TRUE
SPECIFICATION FairSpec
INVARIANTS UnfinishedExact ChecksOwnState RunReported
PROPERTY AnsweredUnlessDead
\* The process may exit, and nobody has to give another command.
CHECK_DEADLOCK FALSE
