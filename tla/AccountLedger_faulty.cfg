CONSTANTS
    None = None
    Workers = {w1, w2}
    Ops = {"register", "credit", "settle", "promise", "set_aside", "give_back", "deduct", "reverse", "payout"}
    Faults = {"db", "redis", "crash"}
    MaxFaults = 2
    MaxOps = 5
SPECIFICATION FairSpec
INVARIANTS TypeOK FlowsExplainBalances
PROPERTIES SecondRowHasCause CacheConverges
CHECK_DEADLOCK FALSE
