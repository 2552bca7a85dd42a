SPECIFICATION FairSpec
CONSTANTS
    Handlers = {h1, h2}
    Writers = {w1}
    None = None
    Allow = {"write"}
    Depth = 1
    Kinds = {"command"}
    MaxFrames = 2
    MaxWrites = 1
CHECK_DEADLOCK FALSE
INVARIANTS
    TypeOK
    OwnSession
PROPERTIES
    InOrder
    TakeoverEnds
