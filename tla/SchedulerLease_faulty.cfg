CONSTANTS
    Workers = {w1, w2}
    None = None
    Gone = Gone
    Leader = leader
    Tasks = {t1}
    LeaderTTL = 5
    TaskTTL = 2
    MaxRun = 1
    Faults = TRUE
    Crashes = TRUE
SPECIFICATION FairSpec
INVARIANTS TypeOK OneScheduler OneRunPerTask
PROPERTIES LeasesDrain
