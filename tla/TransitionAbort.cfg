\* An abort may be killed, and be followed by the verb.
SPECIFICATION Spec
CONSTANTS
    MaxStarts = 0
    MaxCrashes = 2
    MaxAborts = 1
    ResumeAfterAbort = TRUE
    CrashBeforeRecord = FALSE
    RenderedOnly = FALSE
CHECK_DEADLOCK FALSE
INVARIANTS
    DatabaseCrossed
