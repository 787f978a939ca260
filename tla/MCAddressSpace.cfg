SPECIFICATION SpaceSpec
VIEW SpaceView
CONSTANTS
    HEAP_BASE = 16
    THREAD_STACK_BASE = 80
    Sizes = {0, 16, 17, 40}
    VaStart = 1
    VaFloor = 2
    VaEnd = 7
    PageCounts = {0, 1, 2}
    Tidy = TRUE
    Thread = {t1, t2}
    Dll = {"a", "b", "c", "e", "k"}
    Program = "p"
    Imports <- MCImports
    Preferred <- MCPreferred
    Reserved <- MCReserved
    Handled = {"k"}
    HasNoFile = {"k"}
    HasEntry = {"a", "b", "c", "e"}
    Elsewhere = {"e"}
    FirstBase = 2
    MaxAddress = 12
    MaxDepth = 4
    Servers = {"c"}
    MaxActivations = 2
    MaxQueries = 2
    MAX_HANDLERS = 6
    StubDll = {"k", "r"}
    StubFunc = {"f", "g"}
    GuestCodes <- MCGuestCodes
    RealExports <- MCRealExports
    Trampolines = {6, 7}
    InitThread = {1, 2}
    Table <- MCTable
    Callers = {{1}, {1, 2}}
    Waiting = {{}, {1, 2}}
INVARIANTS
    NoOverlap
    PagesAreKept
    InitializersInOrder
    ReferencesBalance
PROPERTIES
    LibrariesAreReady
    NothingIsLost
    StubsBelongToTheirDll
CHECK_DEADLOCK FALSE
SYMMETRY ThreadSymmetry
