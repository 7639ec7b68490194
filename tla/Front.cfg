\* Requests end before the runtime does; more refusals than the queue holds.
SPECIFICATION FrontSpec
CONSTANTS
    Denial <- MCDenial
    NoDenial = NoDenial
    Absent = Absent
    Capacity = 1
    LateRefusals = FALSE
    Scenes <- MCScenes
CHECK_DEADLOCK FALSE
INVARIANTS
    DenialsSound
    Adjudicated
    CredentialsKept
    LimitHolds
PROPERTIES
    EachSettled
