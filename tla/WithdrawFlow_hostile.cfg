CONSTANTS
    Users = {u1}
    Applies = {a1}
    Workers = {w1, w2}
    None = None
    Amounts = {2}
    Fees = {1}
    Credits = {3}
    MaxCredit = 3
    MinAmount = 2
    DailyLimit = 4
    LeaseHolds = FALSE
    AdminOps = {"b13_approve", "b13_reject", "b13_transfer"}
    Faults = {"expire", "cache", "create", "adjust"}
    Crashes = TRUE
SPECIFICATION RetrySpec
INVARIANTS Conservation
PROPERTIES PendingIsDecided
