CONSTANTS
    None = None
    Workers = {w1, w2}
    Kinds = {"sync", "close", "b12", "cps", "refund"}
    Unmapped = {"received", "invalid"}
    Faults = {"redis", "crash"}
    MaxFaults = 1
    MaxEdits = 2
SPECIFICATION FairSpec
INVARIANTS TypeOK
PROPERTIES IllegalHasCause CacheConverges FollowsChannel
CHECK_DEADLOCK FALSE
