CONSTANTS
    Workers = {w1, w2}
    Threshold = 1
    Faults = {"db", "redis", "crash"}
    LocksHold = TRUE
    MaxFaults = 1
    MaxRuns = 2
    MaxReviews = 2
    None = None
SPECIFICATION FairSpec
INVARIANTS TypeOK
PROPERTIES DecisionsStand DateIsReconciled
CHECK_DEADLOCK FALSE
