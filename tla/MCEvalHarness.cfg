CONSTANTS
    a1 = a1
    a2 = a2
    a3 = a3
    Alerts <- MCAlerts
    Strata <- MCStrata
    Laundering <- MCLaundering
    TargetSizes <- MCTargetSizes
    Limits <- MCLimits
    Applied <- MCApplied
    MAX_RETRIES_PER_ALERT = 1
    MaxEvals = 2
    MaxChanges = 1
SPECIFICATION FairSpec
INVARIANTS
    TypeOK
    OneRecordPerAlert
    SnapshotsMatchSample
    ScoresMatchSample
    CheckpointsOnlyGrow
    RestoredWhenLeftAlone
PROPERTIES
    EvalEnds
CHECK_DEADLOCK FALSE
