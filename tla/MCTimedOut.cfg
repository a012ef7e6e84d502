SPECIFICATION Spec
CONSTANTS
    Client <- MCClient
    Container <- MCContainer
    Alike <- MCAlike
    Manifest <- MCManifest
    None = None
    Leftovers <- NoLeftovers
    MaxMishaps = 1
    Worker <- MCWorker
    Main = Main
    w1 = w1
    w2 = w2
    Old = Old
    Names <- MCNames
    NumJobs = 1
    MaxRevs = 2
    MaxInterrupts = 0
INVARIANTS
    VerdictsAreOnlyOwn
CHECK_DEADLOCK FALSE
