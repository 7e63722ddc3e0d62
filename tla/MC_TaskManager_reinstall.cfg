CONSTANTS
    Tasks <- MCTasks
    RunAfter <- MCRunAfter
    TaskKind <- MCKindsReinstall
    MaxCrashes = 0
    MaxApiFailures = 0
SPECIFICATION Spec
INVARIANT FailureMeansCommandFailed
