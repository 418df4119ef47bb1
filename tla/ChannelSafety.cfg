SPECIFICATION Spec
CONSTANTS
    Clients = {c1, c2}
    Closers = {k1}
    Runner = runner
    MaxTask = 2
    MaxCalls = 2
    IdleBudget = 0
    Kinds = {"submit", "blocking"}
    Wraps = FALSE
    IndexModulus = 8
CONSTRAINT SomeCallLeft
SYMMETRY Symmetry
INVARIANTS TypeOK NoTornFetch NoOverwrite NoStaleRun DrainedBeforeExit BorrowedStackAlive
PROPERTIES ImplementsTaskQueue
CHECK_DEADLOCK FALSE
