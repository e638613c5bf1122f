CONSTANTS
    Engines = {e1, e2}
    t1 = t1
    t2 = t2
    t3 = t3
    Transactions <- MCTransactions
    Stored <- MCStored
    REGISTRY <- MCRegistry
    Matches <- MCMatches
    BATCH_SIZE = 2
    MaxRuns = 3
SPECIFICATION FairSpec
INVARIANTS
    TypeOK
    AlertsCountedOnce
    ReportedRulesAreCovered
PROPERTIES
    RunsEnd
CHECK_DEADLOCK FALSE
