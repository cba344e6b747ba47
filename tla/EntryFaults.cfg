SPECIFICATION EntrySpec
CONSTANTS
    Text <- MCText
    Lines <- MCLines
    ByteSize = 2
    AddressSpace = 12
    Cell <- MCCell
    MaxParams = 4
    MaxArgs = 3
    MaxArgBuf = 2
    InitialArgs <- MCInitialArgs
    MaxLost = 1
CONSTRAINT OneKind
PROPERTIES
    WrittenAsListed
    ArgumentsAsListed
CHECK_DEADLOCK FALSE
