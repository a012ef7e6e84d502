SPECIFICATION Spec
CONSTANTS
    Agent = {builder, fixer}
    Usages <- MCUsages
    Dearest <- MCDearest
    Delays = {0, 1, 3}
    Longest = 3
    CallSeconds = 2
    Grace = 1
    CloseSeconds = 1
    CallLimit <- MCCallLimit
    ProblemLimit <- MCProblemLimit
    MaxCalls = 2
INVARIANTS
    TypeOK
    BudgetsHold
    UsageIsAccounted
    RequestsAreAccepted
    OnlyUnsentLeftOpen
SYMMETRY MCSymmetry
CHECK_DEADLOCK FALSE
