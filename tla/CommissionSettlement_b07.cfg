CONSTANTS
    Users = {u1}
    Orders = {o1}
    Workers = {w1, w2}
    None = None
    Owner <- OneOwner
    Commissions = {1, 2}
    Withdrawals = {1}
    Callers = {"settle_b07", "settle_one", "refund_b07", "refund_one", "reverse_one"}
    TaskLocksHold = TRUE
    Crashes = FALSE
    MaxFlows = 2
SPECIFICATION FairSpec
INVARIANTS TypeOK
PROPERTIES SecondCreditHasCause SecondDeductionHasCause SettledIsPaid RefundIsDeducted
CHECK_DEADLOCK FALSE
