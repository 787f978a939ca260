SPECIFICATION Spec
CONSTANTS
    Template <- MCTemplate
    MaxHwnd = 4
    MaxActs = 4
    MaxEvents = 1
    MaxDepth = 3
INVARIANTS
    MessagesInOrder
PROPERTIES
    NothingLost
    DialogEnds
CHECK_DEADLOCK FALSE
