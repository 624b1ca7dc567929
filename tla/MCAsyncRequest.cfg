SPECIFICATION FairSpec
CONSTANTS
    r1 = r1
    r2 = r2
    t1 = t1
    t2 = t2
    Request = {r1, r2}
    Task = {t1, t2}
    Weak = {t1}
    Io = Io
    None = None
    MaxDeps = 2
    SqSize = 2
    MayRefuse = FALSE
    MaxLives = 2
INVARIANTS
    AliveInKernel
    
    
PROPERTIES
    RequestSource
CHECK_DEADLOCK FALSE
