SPECIFICATION Spec
CONSTANTS
    Files <- Short
    BufferSize = 3
    ReadFaults = FALSE
    MaxItems = 2
    Meaning <- MCMeaning
PROPERTIES
    CallsReturn
CHECK_DEADLOCK FALSE
