SPECIFICATION ServicesSpec
CONSTANTS
    SoundSizes = {3, 4}
    Period = 2
    MaxSounds = 2
    SoundPrograms <- SoundDuplicates
    Coordinate = {0, 1}
    Button = {"left", "right"}
    Device = {d1, d2}
    InputEvent = {e1}
    MaxInputQueue = 2
    RegThread = {rt1, rt2}
    RegKey = {rk1, rk2}
    RegName = {rn1}
    RegData <- MCRegData
    MaxKeyHandles = 2
    MaxRuns = 2
    Section = {s1, s2}
    IniKey = {k1, k2, k3}
    IniValue = {v1}
    CommentKey = {k3}
    AutoSteps <- MCAutoSteps
    Needle <- MCNeedle
    Letter = {"a", "b"}
    Premove = 1
    Hold = 1
    Gap = 1
    Delay = 2
    Retry = 1
    Repeat = 2
    Turns = {1, 2}
    MaxFile = 3
    MaxFrames = 3
    MaxRaises = 2
    Interval = 2
    Limit = 4
    StepCounts = {0, 9}
    Breakpoint = {b1, b2}
    MaxCommands = 2
    Edit = {"edit"}
    Box = {"box"}
    Character = {"x"}
    MaxTitle = 1
    MaxClicks = 2
    Lengths = {0, 2}
INVARIANTS
    PlayCursorInBuffer
    InputIsCounted
    MemoryIsOnDisk
    TextIsNoticed
    FinallyRuns
    BreakpointsAgree
PROPERTIES
    OtherEntriesKept
    DispatchEnds
    PauseIsObeyed
CHECK_DEADLOCK FALSE
