\* One client, two requests; a channel that holds one event.
SPECIFICATION StreamSpec
CONSTANTS
    r1 = r1
    r2 = r2
    i1 = i1
    Request <- MCRequest
    Identity <- MCIdentity
    IdentityOf <- MCIdentityOf
    MaxConcurrentStreams = 1
    ChannelCapacity = 1
SYMMETRY Symmetry
CHECK_DEADLOCK FALSE
INVARIANTS
    StreamSound
    NobodySleeps
PROPERTIES
    AdmittedAsHeld
