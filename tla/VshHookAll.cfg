SPECIFICATION Spec
CONSTANTS
    ByteSize <- MCByteSize
    BranchOp = 6
    OffsetBits = 6
    Trap = 1040
    Chunk = 20
    Signature <- MCSignature
    Offset = 4
    Images <- MCImages
    Size = 36
    Base <- MCBase
    Orig <- MCOrig
    Placements <- MCPlacements
    Kernels <- MCKernels
INVARIANTS
    TypeOK
    ScanFindsFirst
    NobodyTraps
PROPERTIES
    CallsComplete
CHECK_DEADLOCK FALSE
