SPECIFICATION Spec
CONSTANTS
    a = a
    b = b
    c = c
    Task = {a, b, c}
    Thread = {p1, p2}
    NoTask = NoTask
    BitCount = 4
    ChunkSize = 2
    Inputs <- FanIn
    Resume <- NoResume
    MaxRounds = 0
    MayThrow = {}
    MayFail = {}
    MayCancel = {a}
    MayBeReady = {}
    PoolMayFail = FALSE
SYMMETRY Symmetric
PROPERTIES
    StrongDependencyCancels
