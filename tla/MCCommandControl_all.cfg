SPECIFICATION Spec
CONSTANTS
    e1 = e1
    e2 = e2
    e3 = e3
    e4 = e4
    u1 = u1
    u2 = u2
    x = x
    y = y
    Commands = {e1, e2, e3, e4}
    Users = {u1, u2}
    User <- MCUser
    Ids = {x, y}
    Needs <- MCNeeds
    Limit = 1
    MaxPeriods = 1
CHECK_DEADLOCK FALSE
INVARIANTS
    TypeOK
    CountExactUnlessOvertaken
    BlockExact
PROPERTY
    EveryCommandEnds
