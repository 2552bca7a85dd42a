SPECIFICATION Spec
CONSTANTS
    Workers = {w1, w2}
    c1 = c1
    c2 = c2
    Clients <- MCClients
    Data <- MCData
    None = None
    Restored = {1}
    CacheNum = 1
    MaxVersion = 2
    MaxRounds = 1
    MaxSlow = 2
    MaxEvents = 3
SYMMETRY Symmetry
CHECK_DEADLOCK FALSE
INVARIANTS
    TypeOK
    ComputesFresh
    CachedOrEvicted
    OwnUnlessShared
    NoRequestStuck
