SPECIFICATION FairSpec
CONSTANTS
    Callers = {c1}
    Exiters = {e1, e2}
    Runners = {up, down}
    Upstream <- MCUpstream
    Keys = {fusion, compute}
    RunnerOf <- MCRunnerOf
    Downstream <- MCDownstream
    NestedKeys = {}
    MaxCalls = 2
    up = up
    down = down
    fusion = fusion
    other = other
    compute = compute
    NoKey = NoKey
    NoProc = NoProc
PROPERTIES InitReturns ExitReturns
CHECK_DEADLOCK FALSE
