SPECIFICATION Spec
CONSTANTS
    d1 = d1
    d2 = d2
    x1 = x1
    x2 = x2
    k1 = k1
    k2 = k2
    Delivery <- MCDelivery
    Digest <- MCDigest
    Worker <- MCWorker
    Job <- MCJob
    NoDigest = NoDigest
    NoJob = NoJob
    MaxRev = 2
    WorkerAttempts = 3
    SweepAttempts = 2
    MaxToken <- MCMaxToken
    LateDeliveries = FALSE
SYMMETRY Symmetry
INVARIANTS
    IntakeSound
    WorkSound
PROPERTIES
    NothingLost
