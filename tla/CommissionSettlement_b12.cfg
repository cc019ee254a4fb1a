CONSTANTS
    Users = {u1}
    Orders = {o1, o2}
    Workers = {w1, w2}
    None = None
    Owner <- OneOwner
    Commissions = {1, 2}
    Withdrawals = {1}
    Callers = {"freeze_one", "unfreeze_b12", "mark_paid", "refund_b07"}
    TaskLocksHold = TRUE
    Crashes = TRUE
    MaxFlows = 2
SPECIFICATION Spec
SYMMETRY Symmetry
INVARIANTS Balanced FlowsMatchAccount
PROPERTIES PromiseSpec
CHECK_DEADLOCK FALSE
