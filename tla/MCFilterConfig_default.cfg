SPECIFICATION Spec
CONSTANTS
    Apps = {a1}
    Empty = Empty
    None = None
    g1 = g1
    Groups = {g1}
    Watchers = {config, presets}
    ConfigWatcher = config
    Kinds = {"block"}
    Starts <- MCFollow
    Defaults <- MCValid
    MaxCommands = 2
    MaxEdits = 1
    MaxTouches = 1
    MaxFailures = 0
CHECK_DEADLOCK FALSE
INVARIANT
    DefaultsInherited
