SPECIFICATION Spec
CONSTANTS
    Files <- MCFiles
    BufferSize = 28
    ReadFaults = TRUE
    MaxItems = 2
    Meaning <- MCMeaning
INVARIANTS
    LinesAreTheFile
    PositionAccounted
    FittingLinesStayInside
    ScannedAsWritten
PROPERTIES
    FittingFilesAreRead
CHECK_DEADLOCK FALSE
