SPECIFICATION BatchSpec
CONSTANTS
    b1 = b1
    b2 = b2
    t1 = t1
    t2 = t2
    Batch = {b1, b2}
    Task = {t1, t2}
    None = None
    MayFail = {b1, b2}
    MaxLives = 2
SYMMETRY Symmetric
INVARIANTS
    NoEarlyComplete
    SemaphoreOfLife
    LeftBehindOnlyLate
PROPERTIES
    OnSubmitSource
CHECK_DEADLOCK FALSE
