SPECIFICATION FairSpec
CONSTANTS
    Client <- MCClient
    Container <- MCContainer
    Alike <- MCAlike
    Manifest <- MCManifest
    None = None
    Leftovers <- MCLeftovers
    MaxMishaps = 0
    Worker <- MCWorker
    Main = Main
    w1 = w1
    w2 = w2
    Old = Old
    Names <- MCNames
    NumJobs = 3
    MaxRevs = 1
    MaxInterrupts = 1
PROPERTIES
    BatchEnds
CHECK_DEADLOCK FALSE
