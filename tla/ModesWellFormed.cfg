SPECIFICATION WellFormedSpec
CONSTANTS
    Null = Null
    t1 = t1
    t2 = t2
    text = text
    eboot = eboot
    v1 = v1
    v2 = v2
    StringValue <- MCStringValue
    AppVersion <- MCAppVersion
    GameVersion = v1
    MatchingBins <- MCMatchingBins
    Line <- MCLines
    WantedTitle = t1
    MaxAppVers = 2
    MaxPatches = 2
    MaxEntries = 3
INVARIANTS
    NumbersIncrease
    FetchedIsListed
    AppAndGameAgree
    EntriesOfOnePatch
CHECK_DEADLOCK FALSE
