SPECIFICATION FairSpec
CONSTANTS
    Node <- MCNode
    First = n1
    Scope <- MCScope
    Base <- MCBase
    Declared <- MCDeclared
    None = None
    Scenes <- MCScenes
    n1 = n1
    n2 = n2
    openid = openid
    read = read
    write = write
INVARIANTS
    CustodySound
    DocumentsKept
    PasskeySound
PROPERTY
    Composes
CHECK_DEADLOCK FALSE
