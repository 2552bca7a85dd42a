SPECIFICATION FairSpec
CONSTANTS
    Handlers = {h1, h2}
    Writers = {}
    None = None
    Allow = {"overlap", "slow", "late"}
    Depth = 1
    Kinds = {"event", "command"}
    MaxFrames = 1
    MaxWrites = 0
CHECK_DEADLOCK FALSE
INVARIANTS
    ProcessedOnce
PROPERTIES
    DisconnectSeen
