SPECIFICATION FairSpec
CONSTANTS
    Streams = {s1, s2}
    InitialWorkers = 1
    UnitCounts = {1, 2}
    MaxCalls <- TwoAndOne
    s1 = s1
    s2 = s2
    NoStream = NoStream
INVARIANTS TypeOK StreamOrder OneBarrierLaunch WriteIsAlone
PROPERTIES EverythingRuns
CHECK_DEADLOCK FALSE
