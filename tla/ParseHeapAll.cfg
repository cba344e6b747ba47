SPECIFICATION Spec
CONSTANTS
    Modes = {"all", "low", "metadata"}
    Fields = {"title", "name", "app_bin"}
    Credits <- MCCredits
    Room = 1
    MinParams = 2
    MaxParams = 2
    VersionLists <- MCVersionLists
    MaxLines = 6
    MaxDisorder = 1
    MaxFailures = 1
CONSTRAINT OneTrouble
INVARIANTS
    TypeOK
    OwnedOnce
    LossHasCause
    FaultNeedsCause
CHECK_DEADLOCK FALSE
