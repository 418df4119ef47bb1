SPECIFICATION Spec
CONSTANTS
    Callers = {c1, c2}
    Exiters = {e1}
    Runners = {up, down}
    Upstream <- MCUpstream
    Keys = {fusion, other, compute}
    RunnerOf <- MCRunnerOf
    Downstream <- MCDownstream
    NestedKeys = {other}
    MaxCalls = 2
    up = up
    down = down
    fusion = fusion
    other = other
    compute = compute
    NoKey = NoKey
    NoProc = NoProc
SYMMETRY Symmetry
INVARIANTS TypeOK InitializedOnce HandlesAreBacked DownstreamAvailable RunnersJoined
CHECK_DEADLOCK FALSE
