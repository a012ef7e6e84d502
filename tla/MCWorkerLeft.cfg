SPECIFICATION Spec
CONSTANTS
    Agent = {builder}
    Usages <- MCUsages
    Dearest <- MCDearest
    Delays = {0}
    Longest = 0
    CallSeconds = 2
    Grace = 1
    CloseSeconds = 1
    CallLimit <- MCCallLimit
    ProblemLimit <- MCProblemLimit
    MaxCalls = 2
INVARIANTS
    EveryWorkerIsClosed
CHECK_DEADLOCK FALSE
