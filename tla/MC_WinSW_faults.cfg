CONSTANTS
    p1 = p1
    p2 = p2
    Callers <- MCCallers1
    MaxOps = 4
    MaxExecErrors = 1
    MaxWinSWFailures = 1
    MaxBuildFailures = 1
    MaxCannotStart = 1
SPECIFICATION Spec
INVARIANT TypeOK
PROPERTY StartSuccessMeansRunning
CHECK_DEADLOCK FALSE
