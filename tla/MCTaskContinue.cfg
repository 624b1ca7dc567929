SPECIFICATION FairSpec
CONSTANTS
    a = a
    b = b
    c = c
    Task = {a, b, c}
    Thread = {p1, p2}
    NoTask = NoTask
    BitCount = 2
    ChunkSize = 2
    Inputs <- FirstA
    Resume <- ThenB
    MaxRounds = 2
    MayThrow = {c}
    MayFail = {}
    MayCancel = {b, c}
    MayBeReady = {}
    PoolMayFail = FALSE
INVARIANTS
    TypeOK
PROPERTIES
    StartAfterInputs
    RunAfterRunOfInputs
    EveryTaskFinishes
    CancellationSticks
