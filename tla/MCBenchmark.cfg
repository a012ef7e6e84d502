SPECIFICATION FairSpec
CONSTANTS
    Unknown = Unknown
    NumProblems = 2
    MaxMishaps = 2
    Batches <- MCBatches
INVARIANTS
    LeftoversAreAbandoned
    CellsAreOwn
    TotalsAreSums
    ProbeIsARoundTrip
PROPERTIES
    ReportIsOut
CHECK_DEADLOCK FALSE
