SPECIFICATION FairSpec
CONSTANTS
    s1 = s1
    NThreads = 2
    Handle = {0, 1, 2}
    MaxHandles = 2
    MaxTime = 3
    MaxCount = 2
    MaxTimers = 1
    Socket = {s1}
    Programs <- MCTimed
INVARIANTS
    SignalsReach
PROPERTIES
    ConnectIsNotLost
    TimedWaitEnds
    TimerWakes
CHECK_DEADLOCK FALSE
