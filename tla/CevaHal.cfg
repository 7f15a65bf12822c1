CONSTANTS
    WaitLimit = 1
    MaxTime = 4
    MaxWrites = 2
    MaxFaults = 1
SPECIFICATION Spec
INVARIANTS TypeOK
PROPERTIES StampsInOrder PacketsAreRead
