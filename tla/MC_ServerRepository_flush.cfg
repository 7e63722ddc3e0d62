CONSTANTS
    s1 = s1
    s2 = s2
    Servers <- MCServers2
    MaxWrites = 2
    MaxApiFailures = 1
    BulkCallFromNum = 1
    BulkSize = 2
SPECIFICATION Spec
INVARIANT TypeOK
