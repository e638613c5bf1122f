CONSTANTS
    w1 = w1
    w2 = w2
    a1 = a1
    t1 = t1
    Workers <- MCWorkers
    Alerts <- MCAlerts
    Tools <- MCTools
    Proposals <- MCProposals
    Severity <- MCSeverity
    Rulings <- MCRulings
    MaxRuns = 2
    MaxCalls = 1
    MaxReviews = 1
SPECIFICATION Spec
INVARIANT HighSeverityStaysOpen
CHECK_DEADLOCK FALSE
