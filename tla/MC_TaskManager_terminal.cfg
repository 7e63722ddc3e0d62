CONSTANTS
    Tasks <- MCTasks
    RunAfter <- MCRunAfter
    TaskKind <- MCKindsCommands
    MaxCrashes = 0
    MaxApiFailures = 0
SPECIFICATION Spec
PROPERTY TerminalStatusStable
