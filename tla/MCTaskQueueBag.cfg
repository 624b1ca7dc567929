SPECIFICATION Spec
CONSTANTS
    t1 = t1
    t2 = t2
    t3 = t3
    p1 = p1
    p2 = p2
    Task = {t1, t2, t3}
    Thread = {p1, p2}
    NoTask = NoTask
    MaxChunks = 1
    TasksPerChunk = 2
    MaxDepth = 1
    Seed <- TwoSeeds
    Submits <- SubmitOther
INVARIANTS
    NoGap
    OnePlace
PROPERTIES
    ImplementsBag
