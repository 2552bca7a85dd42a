SPECIFICATION Spec
CONSTANTS
    Handlers = {h1, h2, h3}
    u1 = u1
    u2 = u2
    k1 = k1
    k2 = k2
    Chunked = {u1}
    Whole = {u2}
    Total = 2
    Keys = {k1, k2}
    Rows <- MCRows
    None = None
    Broken = Broken
    MaxDeliveries = 2
    MaxFailures = 2
    MaxCrashes = 1
SYMMETRY Symmetry
INVARIANTS
    TypeOK
    TakenOncePerDelivery
    RowsKept
CHECK_DEADLOCK FALSE
