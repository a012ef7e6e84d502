SPECIFICATION Spec
CONSTANTS
    Client <- MCClient
    Container <- MCContainer
    Alike <- MCAlike
    Manifest <- MCManifest
    None = None
    Leftovers <- MCLeftovers
    MaxMishaps = 1
    Worker <- MCWorker
    Main = Main
    w1 = w1
    w2 = w2
    Old = Old
    Names <- MCNames
    NumJobs = 3
    MaxRevs = 1
    MaxInterrupts = 1
INVARIANTS
    TypeOK
    LeasesAreExclusive
    AcquireNeverWaits
    VerdictsAreOwn
    ShutdownIsClean
SYMMETRY MCSymmetry
CHECK_DEADLOCK FALSE
