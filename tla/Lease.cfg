\* The mint finishes within the TTL (a bump and a read take far less than
\* ten seconds); everything after it may outlive the lease.
SPECIFICATION LeaseSpec
CONSTANTS
    h1 = h1
    h2 = h2
    h3 = h3
    r1 = r1
    Holder <- MCHolder
    Row <- MCRow
    Nobody = Nobody
    MaxBumps = 3
    MaxInflight = 2
    SlowMint = FALSE
SYMMETRY Symmetry
CHECK_DEADLOCK TRUE
INVARIANTS
    LeaseSound
PROPERTIES
    TokenGivenOnce
    ImplementsRegister
