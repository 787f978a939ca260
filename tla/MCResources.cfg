SPECIFICATION ResourcesSpec
CONSTANTS
    Path = {p}
    NUL = nul
    Inode = {1, 2}
    Fd = {3, 4}
    MaxHandles = 2
    MaxSize = 2
    MaxViews = 1
    MaxLocks = 2
    Programs <- AllPrograms
    Alphabet <- MCAlphabet
    Pattern = {{1, 3}, {1, 2, 3}}
    MaxSearches = 2
    Limit = 6
    Sizes = {1, 2}
    Levels = {1, 2}
    Stage = {s1, s2}
    MaxHeld = 2
    ObjPrograms <- AllObjPrograms
    Image = {0, 1}
    Region = 2
    Tex = {x1, x2}
    Pool = {d1, d2}
    Default = d0
    MaxSwapchain = 3
    FramePrograms <- AllFramePrograms
INVARIANTS
    LocksAreHeld
    HandleKeepsItsFile
    SearchIsComplete
    ObjectsAreKept
    DrawsFindTheirData
PROPERTIES
    ContentIsKept
CHECK_DEADLOCK FALSE
