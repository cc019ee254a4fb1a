CONSTANTS
    Users = {u1}
    Orders = {o1, o2}
    Workers = {w1, w2}
    None = None
    Owner <- OneOwner
    Commissions = {1, 2}
    Withdrawals = {1}
    Callers = {"settle_b07", "settle_b05_7"}
    TaskLocksHold = TRUE
    Crashes = FALSE
    MaxFlows = 2
SPECIFICATION Spec
SYMMETRY Symmetry
INVARIANTS CreditedOnce
CHECK_DEADLOCK FALSE
