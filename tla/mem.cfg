CONSTANTS
    Threads = {t1}
    InitSize = 2
    MaxN = 3
    MaxCap = 8
    MaxResets = 2
    UseLock = TRUE
    Width = 8
    Nobody = Nobody
    Total = 16
    RecSize = 2
    Bits = 2
    Lens = {1, 2, 3}
    MaxLoads = 2
    PageLen = 13
    NodeLen = 4
    Unit = 1
    MaxRun = 5
    MaxPages = 3
    BlockType <- MCBlockType
    DefaultBlock = 32
    DefaultCount = 2
    WordSizes = {3, 8}
    ReqLens = {3, 12, 20}
    MaxHeld = 3
    MaxBufs = 3
    Ptrs = {p1, p2, p3}
    RefObjs = {o1, o2}
    NullObj = NullObj
SPECIFICATION MCSpec
CHECK_DEADLOCK FALSE
INVARIANTS MemTypeOK ObjectsHeld Apart  
PROPERTY FirstFits
