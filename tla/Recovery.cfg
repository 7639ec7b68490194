SPECIFICATION RecoverySpec
CONSTANTS
    d1 = d1  d2 = d2  old = old  new = new  newer = newer  branch = branch  edited = edited
    slim = slim
    h1 = h1  h2 = h2  h3 = h3  h4 = h4  h5 = h5
    sa = sa  sb = sb  sc = sc  sk = sk  sx = sx  ar1 = ar1  ar2 = ar2  k1 = k1  k2 = k2
    Binary = {old, new, newer, branch, edited, slim}
    Sets <- MCSets
    Needs <- MCNeeds
    Rank <- MCRank
    Ceiling <- MCCeiling
    Fits = {h1, h2, h3, h4}
    Step = {d1, d2}
    NoOne = NoOne
    NoSum = NoSum
    None = None
    Unreadable = Unreadable
    Archive = {ar1, ar2}
    Window = 1
    Scenes <- MCScenes
CHECK_DEADLOCK FALSE
INVARIANTS
    DeploySound
    ServesWhatWasRestored
    ArchiveSound
PROPERTIES
    RauthyIsKept
