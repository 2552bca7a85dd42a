SPECIFICATION Spec
CONSTANTS
    Handlers = {h1, h2}
    Writers = {}
    None = None
    Allow = {"slow"}
    Depth = 1
    Kinds = {"event", "command"}
    MaxFrames = 2
    MaxWrites = 0
CHECK_DEADLOCK FALSE
INVARIANT
    OwnConnection
