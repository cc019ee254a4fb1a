CONSTANTS
    Users = {u1}
    Orders = {o1}
    Workers = {w1, w2}
    None = None
    Owner <- OneOwner
    Commissions = {1}
    Withdrawals = {2}
    Callers = {"freeze_one", "unfreeze_one", "reverse_b07_1", "reverse_one"}
    TaskLocksHold = TRUE
    Crashes = FALSE
    MaxFlows = 1
    Others = 1
    MaxRetry = 1
    MaxCrashes = 1
SPECIFICATION RSpec
INVARIANTS RTypeOK OnlyCreditedDeducted DoneIsClawedBack
PROPERTIES RefundIsReversed
CHECK_DEADLOCK FALSE
