-------------------------- MODULE CommissionPromise --------------------------
(***************************************************************************)
(* What settlement promises about an order's commission, whatever jobs and *)
(* endpoints move it: it is promised (frozen) at most once, earned         *)
(* (available) at most once, and taken back at most once and only after it *)
(* was earned.  CommissionSettlement implements this module when its       *)
(* callers exclude one another; the violation runs show who does not.      *)
(***************************************************************************)
EXTENDS Integers

CONSTANTS
    Users, Orders,
    Owner,         \* the user each order's commission belongs to
    Commissions,   \* amounts the rule engine may compute
    Withdrawals    \* amounts withdrawals move through the same account

VARIABLES
    stage,         \* how far each order's commission has come
    account        \* the balances of each user

vars == <<stage, account>>

Nothing     == [at |-> "none", amount |-> 0]
ZeroAccount == [available |-> 0, frozen |-> 0, total |-> 0, held |-> 0, out |-> 0]

Init ==
    /\ stage = [o \in Orders |-> Nothing]
    /\ account = [u \in Users |-> ZeroAccount]

-----------------------------------------------------------------------------
(* freeze_atomic: channel has not paid yet, the money waits in frozen. *)
Promise(o, n) ==
    /\ n > 0 /\ stage[o] = Nothing
    /\ stage' = [stage EXCEPT ![o] = [at |-> "promised", amount |-> n]]
    /\ account' = [account EXCEPT ![Owner[o]].frozen = @ + n, ![Owner[o]].total = @ + n]

(* settle_order_commission_atomic: paid straight into available. *)
Earn(o, n) ==
    /\ n > 0 /\ stage[o] = Nothing
    /\ stage' = [stage EXCEPT ![o] = [at |-> "earned", amount |-> n]]
    /\ account' = [account EXCEPT ![Owner[o]].available = @ + n,
                                  ![Owner[o]].total = @ + n]

(* unfreeze_atomic: the channel has paid. *)
Release(o) ==
    LET n == stage[o].amount IN
    /\ stage[o].at = "promised"
    /\ account[Owner[o]].frozen >= n
    /\ stage' = [stage EXCEPT ![o].at = "earned"]
    /\ account' = [account EXCEPT ![Owner[o]].frozen = @ - n,
                                  ![Owner[o]].available = @ + n]

(* deduct_on_refund_atomic: refused when the user has already spent it. *)
ClawBack(o) ==
    LET n == stage[o].amount IN
    /\ stage[o].at = "earned"
    /\ account[Owner[o]].available >= n
    /\ stage' = [stage EXCEPT ![o].at = "clawed"]
    /\ account' = [account EXCEPT ![Owner[o]].available = @ - n,
                                  ![Owner[o]].total = @ - n]

(* Withdrawals of the same account: adjust_balance from WithdrawFlow. *)
WithdrawHold(u, n) ==
    /\ account[u].available >= n
    /\ account' = [account EXCEPT ![u].available = @ - n, ![u].frozen = @ + n,
                                  ![u].held = @ + n]
    /\ UNCHANGED stage

WithdrawReturn(u, n) ==
    /\ account[u].held >= n /\ account[u].frozen >= n
    /\ account' = [account EXCEPT ![u].available = @ + n, ![u].frozen = @ - n,
                                  ![u].held = @ - n]
    /\ UNCHANGED stage

WithdrawPay(u, n) ==
    /\ account[u].held >= n /\ account[u].frozen >= n
    /\ account' = [account EXCEPT ![u].out = @ + n, ![u].frozen = @ - n,
                                  ![u].held = @ - n]
    /\ UNCHANGED stage

Withdraw(u) ==
    \E n \in Withdrawals : WithdrawHold(u, n) \/ WithdrawReturn(u, n) \/ WithdrawPay(u, n)

Next ==
    \/ \E o \in Orders, n \in Commissions : Promise(o, n) \/ Earn(o, n)
    \/ \E o \in Orders : Release(o) \/ ClawBack(o)
    \/ \E u \in Users : Withdraw(u)

Spec == Init /\ [][Next]_vars

=============================================================================
