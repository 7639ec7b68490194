\* A seal never overtakes an append that read the head before the sealed
\* records were appended: the hot window is far longer than an append takes.
SPECIFICATION Spec
CONSTANTS
    c1 = c1
    c2 = c2
    c3 = c3
    g = g
    i1 = i1
    i2 = i2
    i3 = i3
    x = x
    y = y
    s1 = s1
    s2 = s2
    Call <- MCCall
    Wants <- MCWants
    Id <- MCId
    Content <- MCContent
    Sealer <- MCSealer
    GenesisParent = GenesisParent
    GenesisDecision <- MCGenesisDecision
    HotWindow = 1
    SegmentSize = 1
    MaxTries = 2
    MaxInflight = 2
    StaleAppends = FALSE
SYMMETRY Symmetry
CHECK_DEADLOCK FALSE
INVARIANTS
    LedgerSound
    NothingDeletedUnarchived
PROPERTIES
    ImplementsChain
