CONSTANTS
    l1 = l1
    l2 = l2
    x = x
    y = y
    z = z
    u = u
    v = v
    r1 = r1
    r2 = r2
    r3 = r3
    r4 = r4
    Loaders <- MCLoaders
    Sources <- MCPatternSources
    Structuring <- MCStructuring
    Fan <- MCFan
    RapidMovement <- MCRapidMovement
    Laundering <- MCLaundering
    DayLength = 1
    BATCH_SIZE = 1
    Registry <- MCRegistry
    Requests <- MCRequests
    Known <- MCKnown
    MaxScans <- MCPatternScans
    MaxCalls <- MCPatternCalls
    MaxRuns = 2
SPECIFICATION FairSharedSpec
INVARIANT OneDetectionPerPattern
CHECK_DEADLOCK FALSE
