SPECIFICATION Spec
CONSTANTS
    a = a
    b = b
    c = c
    Task = {a, b, c}
    Thread = {p1, p2, p3}
    NoTask = NoTask
    BitCount = 4
    ChunkSize = 1
    Inputs <- FanIn
    Resume <- NoResume
    MaxRounds = 0
    MayThrow = {a}
    MayFail = {b}
    MayCancel = {b, c}
    MayBeReady = {a}
    PoolMayFail = TRUE
SYMMETRY Symmetric
INVARIANTS
    OneOwner
    EveryWaitHasSource
    CanceledForReason
    NoLateEntry
PROPERTIES
    StartAfterInputs
    FinishedForGood
