SPECIFICATION FairSpec
CONSTANTS
    MaxCalls = 3
    QueueSize = 2
INVARIANTS
    TypeOK
    AnswersOwnQuestion
    UsageIsCounted
    ClosedMeansEnded
PROPERTIES
    CloseEndsThreads
    CallsComeBack
    KeepsContract
CHECK_DEADLOCK FALSE
