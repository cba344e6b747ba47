SPECIFICATION DetourSpec
CONSTANTS
    d1 = d1
    d2 = d2
    d3 = d3
    lib = lib
    other = other
    Detours = {d1, d2, d3}
    ByFnid = {d3}
    Callback <- MCCallback
    Functions <- MCFunctions
    Image <- MCImage
    Table <- MCTable
    Names <- MCNames
    Trampolines = 100
    Capacity = 60
    Bits <- MCBits
    Conditions = {"eq", "count"}
    Kernels <- MCKernels
    MaxHooks = 3
    MaxFailures = 1
INVARIANTS
    DetourTypeOK
    EntryReachesTop
    OriginalIsReached
    BufferHolds
    SafeWithoutHen
SYMMETRY Twins
CHECK_DEADLOCK FALSE
