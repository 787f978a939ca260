SPECIFICATION FairSpec
CONSTANTS
    s1 = s1
    NThreads = 2
    Handle = {0, 1, 2}
    MaxHandles = 2
    MaxTime = 2
    MaxCount = 2
    MaxTimers = 0
    Socket = {}
    Programs <- MCStaleOnly
PROPERTIES
    TimeoutIsOwn
CHECK_DEADLOCK FALSE
