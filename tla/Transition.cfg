\* An interrupted abort is run again, not the verb.
SPECIFICATION Spec
CONSTANTS
    MaxStarts = 3
    MaxCrashes = 2
    MaxAborts = 2
    ResumeAfterAbort = FALSE
    CrashBeforeRecord = FALSE
    RenderedOnly = FALSE
CHECK_DEADLOCK FALSE
INVARIANTS
    TransitionSound
    OldNodeShutOut
    ServedIsFenced
PROPERTIES
    Completes
