CONSTANTS
    Tools <- MCTools
    Clients <- MCClients
    PoolSize = 2
    MAX_ITERATIONS = 3
    MaxCallsPerTurn = 2
SPECIFICATION FairSpec
INVARIANTS
    TypeOK
    RequestsWellFormed
    RecordsMatchAudit
    OnlyWholeTurnsExecuted
    KeysAreAllTried
PROPERTIES
    SessionEnds
CHECK_DEADLOCK FALSE
