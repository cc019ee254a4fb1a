CONSTANTS
    Users = {u1}
    Applies = {a1, a2}
    Workers = {w1, w2}
    None = None
    Amounts = {1, 2, 3}
    Fees = {1}
    Credits = {3}
    MaxCredit = 6
    MinAmount = 2
    DailyLimit = 4
    LeaseHolds = TRUE
    AdminOps = {}
    Faults = {}
    Crashes = FALSE
SPECIFICATION Spec
INVARIANTS QuiescentExact
