SPECIFICATION FairSpec
CONSTANTS
    Requests = {r1, r2}
    Runs = {}
    OldCreds = old
    NoCreds = none
    PutAttempts = 2
    MaxDeletes = 1
    Faults = TRUE
CHECK_DEADLOCK FALSE
INVARIANTS
    VerifiedIsProven
    FailureVerdictIsTold
    OneVerificationAtATime
    VerdictIsAboutStoredCreds
PROPERTIES
    SubmissionIsJudged
