CONSTANTS
    p1 = p1
    p2 = p2
    Callers <- MCCallers1
    MaxOps = 3
    MaxExecErrors = 0
    MaxWinSWFailures = 0
    MaxBuildFailures = 1
    MaxCannotStart = 0
SPECIFICATION Spec
INVARIANT InstalledHasValidFile
CHECK_DEADLOCK FALSE
