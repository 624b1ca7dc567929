SPECIFICATION FairSpec
CONSTANTS
    b1 = b1
    b2 = b2
    r1 = r1
    Batch = {b1, b2}
    Task = {}
    Reader = {r1}
    None = None
    Main = Main
    EndTask = EndTask
    MayFail = {b2}
    MaxLives = 1
    IdxCount = 2
    MaxFrames = 2
    LastFrame = 3
    Modes = {"Deferred", "Immediately"}
    Skip = "before EndFrame"
INVARIANTS
    RtsTypeOK
    OrderOnGpu
    ReadBackAfterGpu
    FrameMemoryIsFree
    
PROPERTIES
    
    EveryBatchCompletes
    ReachesEnd
CHECK_DEADLOCK FALSE
