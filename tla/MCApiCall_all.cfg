SPECIFICATION FairSpec
CONSTANTS
    Plain = {c1}
    Friends = {}
    Invites = {i1}
    None = None
    MaxCalls = 2
    MaxDuplicates = 1
    MaxSessions = 2
    QueueSize = 1
CHECK_DEADLOCK FALSE
INVARIANTS
    TypeOK
    WaitersSound
PROPERTIES
    AnswersItsCall
    EveryCallReturns
