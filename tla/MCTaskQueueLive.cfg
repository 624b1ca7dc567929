SPECIFICATION PatientSpec
CONSTANTS
    t1 = t1
    t2 = t2
    t3 = t3
    p1 = p1
    p2 = p2
    Task = {t1, t2}
    Thread = {p1, p2}
    NoTask = NoTask
    MaxChunks = 2
    TasksPerChunk = 2
    MaxDepth = 0
    Seed <- OneSeed
    Submits <- SubmitOther
PROPERTIES
    EveryTaskLeaves
    EveryAddReturns
