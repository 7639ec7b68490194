SPECIFICATION Spec
CONSTANTS
    n1 = n1  n2 = n2  r = r
    c1 = c1  c2 = c2  c3 = c3  c4 = c4  c5 = c5  c6 = c6
    g = g  x = x  y = y  z = z  w = w
    a = a  b = b  m0 = m0  m1 = m1  m2 = m2  e1 = e1  e2 = e2
    Node = {n1, n2, r}
    Repairer = {r}
    Call = {c1, c2, c3, c4, c5, c6}
    Wants <- MCWants
    Id = {g, x, y, z, w}
    Content = {a, b, m0, m1, m2, e1, e2}
    Manifest = {m1, m2}
    Epoch = {e1, e2}
    Genesis <- MCGenesis
    HotWindow = 2
    SegmentSize = 2
    MaxTries = 2
    MaxLog = 5
    Scenes <- MCScenes
CHECK_DEADLOCK FALSE
INVARIANTS
    IdentitySound
    RecoverFinds
    TailIsNewest
PROPERTIES
    RowsAreKept
