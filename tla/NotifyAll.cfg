SPECIFICATION Spec
CONSTANTS
    MaxBoots = 2
    MaxLaunches = 3
    HookFaults = TRUE
INVARIANTS
    ShownWasWritten
    ShownOnce
    HookedReadsOwn
    StaleNeedsOvertaking
PROPERTIES
    EventuallyShown
CHECK_DEADLOCK FALSE
