CONSTANTS
    Workers = {w1, w2}
    MaxAttempts = 2
    MaxClaims = 2
    Prompt = FALSE
SPECIFICATION FairSpec
INVARIANTS
    CreateOnce
    OneActiveJob
    StatusMatchesFlow
PROPERTIES
    SubmissionIsAnswered
CHECK_DEADLOCK FALSE
