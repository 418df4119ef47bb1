SPECIFICATION FairSpec
CONSTANTS
    Clients = {c1}
    Closers = {k1, k2}
    Runner = runner
    MaxTask = 2
    MaxCalls = 2
    IdleBudget = 1
    Kinds = {"submit", "blocking", "flush"}
    Wraps = FALSE
    IndexModulus = 8
PROPERTIES CallsReturn FlushedTasksRun ShutdownReturns
CHECK_DEADLOCK FALSE
