SPECIFICATION FairSpec
CONSTANTS
    s1 = s1
    NThreads = 3
    Handle = {0, 1, 2}
    MaxHandles = 2
    MaxTime = 0
    MaxCount = 2
    MaxTimers = 0
    Socket = {s1}
    Programs <- MCWaiting
INVARIANTS
    NoMissedSignal
    BlockedInItsCall
PROPERTIES
    MutexNotStolen
CHECK_DEADLOCK FALSE
