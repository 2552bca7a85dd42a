SPECIFICATION Spec
CONSTANTS
    Apps = {a1, a2}
    Ids = {b1, b2}
    None = None
    Depth = 1
    MaxRedials = 1
    MaxEvents = 1
    MaxChanges = 2
SYMMETRY Symmetry
CHECK_DEADLOCK FALSE
INVARIANTS
    TypeOK
    EveryAppListed
    ForwardedOnce
    OldIdOnlyIfOvertaken
    NoticeIffAway
