SPECIFICATION FairSpec
CONSTANTS
    StreamIds = {0, 1, 2}
    MaxStreams = 2
    Memory = {sliceA, sliceB}
    Home <- MCHome
    GcCapacity = 1
    MaxCommands = 4
    sliceA = sliceA
    sliceB = sliceB
INVARIANTS TypeOK SyncedIsOrdered RecordedIsKept
PROPERTIES SendReturns
CHECK_DEADLOCK FALSE
