SPECIFICATION FairSpec
CONSTANTS
    None = None
    MaxTime = 2  WindowLen = 1  MaxWindows = 2  Lookback = 1  MaxRetry = 2
    Threshold = 3  MaxFaults = 3
    Procs = {"job", "sync", "retry"}
    Faults = {"channel", "others", "store", "redis", "crash", "expiry", "page"}
INVARIANTS TypeOK LossHasCause
PROPERTIES OrdersArrive
