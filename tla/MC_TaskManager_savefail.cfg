CONSTANTS
    Tasks <- MCTasks
    RunAfter <- MCRunAfter
    TaskKind <- MCKindsCommands
    MaxCrashes = 0
    MaxApiFailures = 1
SPECIFICATION Spec
INVARIANT NoOrphanWorking
