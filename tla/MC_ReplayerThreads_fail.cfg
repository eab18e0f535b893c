CONSTANTS
    Workers = {w1, w2}
    MaxReplays = 2
    MaxRuns = 2
    CheckerMayFail = TRUE
SPECIFICATION FairSpec
PROPERTY RunprintAnswered
\* The process may exit, and nobody has to give another command.
CHECK_DEADLOCK FALSE
