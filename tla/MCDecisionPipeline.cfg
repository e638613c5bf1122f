CONSTANTS
    Messages <- MCMessages
    Records <- MCRecords
    REGISTRY <- MCRegistry
SPECIFICATION Spec
INVARIANTS
    TypeOK
    EvaluationsAreComplete
    FinalStatusFollowsPolicy
CHECK_DEADLOCK FALSE
