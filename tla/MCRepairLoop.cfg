SPECIFICATION FairSpec
CONSTANTS
    Path <- MCPath
    RootPom = "pom.xml"
    PomPath = {"pom.xml"}
    DomainPath = {"domain/A.java"}
    Content <- MCContent
    Empty = ""
    Name = {"", "app", "new"}
    NoName = ""
    Absent = Absent
    None = None
    MaxIterations = 3
    EnablePreReview = TRUE
    InitialManifests <- MCInitial
    ReviewerDeltas <- MCReviewer
    FixerDeltas <- MCFixer
    Mentions <- MCMentions
INVARIANTS
    TypeOK
    ReturnsWhatWasJudged
    VerdictsFallOnTheirFix
    OneValidationPerFix
    BudgetAndRouting
    FeedbackOnlyAfterNoOp
    ErrorPhasesAreTheFailures
    IncrementalOnlyIfPomUnchanged
    UnnamedFilesSurvive
PROPERTIES
    DecidedStaysDecided
    Terminates
    ImplementsPolicy
CHECK_DEADLOCK FALSE
