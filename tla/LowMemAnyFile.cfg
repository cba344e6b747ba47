SPECIFICATION Spec
CONSTANTS
    Null = Null
    t1 = t1
    t2 = t2
    eboot = eboot
    other = other
    v1 = v1
    v2 = v2
    StringValue <- MCStringValue
    AppVersion <- MCAppVersion
    GameVersion = v1
    MatchingBins <- MCMatchingBins
    Line <- MCFreeLines
    SettingsFiles <- MCSettings
    MallocMayFail = TRUE
    MaxPatches = 1
    MaxCount = 2
INVARIANTS
    AppliedIsEnabled
    MissedHasCause
    AppliedIsNotified
    ExtraNeedsUnmatched
CHECK_DEADLOCK FALSE
