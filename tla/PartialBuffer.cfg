SPECIFICATION FairSpec
CONSTANTS
    Clients = {c1}
    Closers = {}
    Runner = runner
    MaxTask = 3
    MaxCalls = 2
    IdleBudget = 2
    Kinds = {"submit"}
    Wraps = FALSE
    IndexModulus = 8
PROPERTIES PartialBufferProgresses
CHECK_DEADLOCK FALSE
