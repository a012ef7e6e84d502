SPECIFICATION Spec
CONSTANTS
    Client <- MCClient
    Container <- PrefixContainer
    Alike <- PrefixAlike
    Manifest <- MCManifest
    None = None
    Leftovers <- PrefixLeftovers
    MaxMishaps = 0
    Worker <- MCWorker
    Main = Main
    w1 = w1
    w2 = w2
    Old = Old
    Names <- PrefixNames
    NumJobs = 2
    MaxRevs = 1
    MaxInterrupts = 0
INVARIANTS
    StartedIsRunning
CHECK_DEADLOCK FALSE
