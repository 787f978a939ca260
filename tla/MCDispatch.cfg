SPECIFICATION Spec
CONSTANTS
    Template <- MCTemplate
    MaxHwnd = 3
    MaxActs = 4
    MaxEvents = 1
    MaxDepth = 4
INVARIANTS
    ReturnsToItsCaller
CHECK_DEADLOCK FALSE
