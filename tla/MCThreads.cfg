SPECIFICATION ThreadsSpec
CONSTANTS
    t1 = t1
    t2 = t2
    t3 = t3
    Thread = {t1, t2, t3}
    NoOwner = NoOwner
    MaxDepth = 2
    MaxSems = 2
    MayDie = {t3}
    Caller = {t1, t2}
    Handle = {1}
    Yield = 1
    Timeouts = {0, 2, 99}
    MaxData = 1
    Programs <- AllPrograms
    InetHandle = {1, 2, 3}
    MaxAnswers = 2
    MaxBody = 2
INVARIANTS
    OwnerIsRecorded
    FieldsAreExact
    ReadsOneAnswer
PROPERTIES
    HandoffIsTaken
    ImplementsLock
    BlockingCallsEnd
CHECK_DEADLOCK FALSE
