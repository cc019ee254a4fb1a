CONSTANTS
    Users = {u1}
    Applies = {a1, a2}
    Workers = {w1, w2}
    None = None
    Amounts = {1, 2, 3}
    Fees = {1}
    Credits = {3}
    MaxCredit = 6
    MinAmount = 2
    DailyLimit = 5
    LeaseHolds = TRUE
    AdminOps = {}
    Faults = {"expire", "cache", "sum", "deduct", "create", "status", "adjust"}
    Crashes = TRUE
SYMMETRY Symmetry
SPECIFICATION Spec
INVARIANTS TypeOK OpenIsHeld MovedOnce OutcomeMatchesMoney DailyLimitRespected
PROPERTIES OutcomeIsFinal LedgerSpec
