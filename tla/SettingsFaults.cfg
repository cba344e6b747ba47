SPECIFICATION Spec
CONSTANTS
    h1 = h1
    h2 = h2
    h3 = h3
    Hash <- MCHash
    ReadFaults = TRUE
    WriteFaults = TRUE
    CloseFaults = TRUE
    Crashes = TRUE
INVARIANTS
    UniqueHashes
    ReadersAgree
    ReportedIsStored
PROPERTIES
    ImplementsMap
