SPECIFICATION Spec
CONSTANTS
    Phase = {"compilation", "test"}
    Feedback = {"f", "g"}
    MaxFeedback = 2
    MaxAttempts = 1
INVARIANTS
    IntentIsComplete
    RecordsSurvive
    ResultIsHonest
CHECK_DEADLOCK FALSE
