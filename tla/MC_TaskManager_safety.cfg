CONSTANTS
    Tasks <- MCTasks5
    RunAfter <- MCRunAfter5
    TaskKind <- MCKindsAll
    MaxCrashes = 1
    MaxApiFailures = 0
SPECIFICATION Spec
INVARIANTS
    TypeOK
    WorkingHasCommand
    SuccessMeansCommandSucceeded
    NoOrphanWorking
PROPERTIES
    DependencyHonored
