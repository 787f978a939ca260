SPECIFICATION FairSpec
CONSTANTS
    h1 = h1
    NThreads = 3
    Handle = {h1}
    MaxTime = 1
    MaxFrames = 2
    Sleeps = {0, 1}
    CallKinds = {"guarded"}
    DieInCall = FALSE
INVARIANTS
    ContextsMatch
PROPERTIES
    RunnableThreadRuns
CHECK_DEADLOCK FALSE
