CONSTANTS
    Tasks <- MCTasks4
    RunAfter <- MCRunAfter4
    TaskKind <- MCKindsLive
    MaxCrashes = 1
    MaxApiFailures = 0
SPECIFICATION FairSpec
PROPERTIES
    AllTasksSettle
