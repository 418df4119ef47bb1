SPECIFICATION FairSpec
CONSTANTS
    Callers = {c1, c2}
    Exiters = {}
    Runners = {up, down}
    Upstream <- MCUpstream
    Keys = {fusion, other, compute}
    RunnerOf <- MCRunnerOf
    Downstream <- MCDownstream
    NestedKeys = {compute}
    MaxCalls = 2
    up = up
    down = down
    fusion = fusion
    other = other
    compute = compute
    NoKey = NoKey
    NoProc = NoProc
PROPERTIES InitReturns
CHECK_DEADLOCK FALSE
