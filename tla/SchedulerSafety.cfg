SPECIFICATION Spec
CONSTANTS
    StreamIds = {0, 1, 2, 3}
    MaxStreams = 3
    MaxTasks = 3
    Strategies = {"Interleave", "Sequential"}
    Buffers = {bufA, bufB, bufC}
    Owner <- MCOwner
    ArgLists <- MCArgLists
    Bound = 4
    bufA = bufA
    bufB = bufB
    bufC = bufC
INVARIANTS TypeOK NoTaskLost ArgumentsReady
CHECK_DEADLOCK FALSE
