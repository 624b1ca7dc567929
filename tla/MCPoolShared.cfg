SPECIFICATION Spec
CONSTANTS
    p1 = p1
    p2 = p2
    p3 = p3
    Thread = {p1, p2, p3}
    None = None
    MaxChunks = 2
    HighLvlCount = 1
    LowLvlCount = 2
SYMMETRY Symmetric
INVARIANTS
    FullIsExact
    BitsTellHeld
    OverflowIsReal

    
