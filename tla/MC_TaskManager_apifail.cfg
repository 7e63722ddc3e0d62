CONSTANTS
    Tasks <- MCTasks
    RunAfter <- MCRunAfter
    TaskKind <- MCKindsCommands
    MaxCrashes = 1
    MaxApiFailures = 1
SPECIFICATION Spec
INVARIANT LiveCommandKeepsTask
