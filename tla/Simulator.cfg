CONSTANTS
    none = none
    v = v
    Value <- MCValue
    NoHard = none
    N = 2
    Until = 2
    PairCount = 2
    SoloCount = 1
    CrashCount = 1
    SaveDraws <- MCSaveDraws
    Runs <- MCRuns
    TickInterval = 1
    MinDelay = 1
    MaxDelay = 1
    Duration = 2
    MaxEntries = 1
    MaxIndex = 1
SPECIFICATION Spec
INVARIANTS OneTickStream Recovered
PROPERTIES OpensAreTransitions StorageDurable RunEnds
CHECK_DEADLOCK FALSE
