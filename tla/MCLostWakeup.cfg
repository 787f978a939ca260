SPECIFICATION FairSpec
CONSTANTS
    s1 = s1
    NThreads = 2
    Handle = {0, 1, 2}
    MaxHandles = 2
    MaxTime = 0
    MaxCount = 2
    MaxTimers = 0
    Socket = {s1}
    Programs <- MCNetOnly
INVARIANTS
    NoMissedSignal
CHECK_DEADLOCK FALSE
