SPECIFICATION Spec
CONSTANTS
    Apps = {a1}
    Empty = Empty
    None = None
    g1 = g1
    Groups = {g1}
    Watchers = {config, presets}
    ConfigWatcher = config
    Kinds = {"disable", "enable", "preset", "clear", "block", "unblock"}
    Starts <- MCStarts
    Defaults <- MCDefaults
    MaxCommands = 2
    MaxEdits = 1
    MaxTouches = 1
    MaxFailures = 1
CHECK_DEADLOCK FALSE
INVARIANTS
    TypeOK
    SettledAgrees
    CommandKept
    EditKept
