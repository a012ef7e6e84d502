SPECIFICATION Spec
CONSTANTS
    Path <- NestedPath
    RootPom = "pom.xml"
    PomPath = {"pom.xml", "module/pom.xml"}
    DomainPath = {}
    Content <- MCContent
    Empty = ""
    Name = {"", "app", "new"}
    NoName = ""
    Absent = Absent
    None = None
    MaxIterations = 3
    EnablePreReview = TRUE
    InitialManifests <- NestedInitial
    ReviewerDeltas <- NestedReviewer
    FixerDeltas <- NestedFixer
    Mentions <- NestedMentions
INVARIANTS
    IncrementalOnlyIfPomUnchanged
CHECK_DEADLOCK FALSE
