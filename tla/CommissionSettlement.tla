------------------------ MODULE CommissionSettlement ------------------------
(***************************************************************************)
(* How an order's commission reaches the user's account and leaves it      *)
(* again: B07 settlement and refund deduction, B12 freeze and unfreeze,    *)
(* and the deduction of B07-1 / B05-6, each called by scheduled tasks and  *)
(* by admin endpoints that do not share a lock.                            *)
(*                                                                         *)
(* Every handler first reads (one InnoDB snapshot, and ORM objects that    *)
(* are not refreshed: expire_on_commit=False) and then writes in one       *)
(* transaction under FOR UPDATE of the account row; job[w] keeps what      *)
(* worker w has read in between.  A scheduled task reads when it lists its *)
(* page of orders, an endpoint when it is called.                          *)
(***************************************************************************)
EXTENDS Integers, Sequences, FiniteSetsExt, Functions

CONSTANTS
    Users, Orders, Workers, None,
    Owner,         \* the user each order belongs to
    Commissions,   \* amounts the rule engine may compute
    Withdrawals,   \* amounts withdrawals move through the same account
    Callers,       \* the scheduled tasks and endpoints in use
    TaskLocksHold, \* a task never outlives its scheduler:{task} lock
    Crashes,       \* worker processes may die between two transactions
    MaxFlows       \* bound on the ORDER flows of one order

(* Scheduled tasks, and the operation each one performs on its page. *)
Tasks == {"settle_b07", "settle_b05_7", "refund_b07", "reverse_b07_1",
          "freeze_b12", "unfreeze_b12"}
(* Admin endpoints, on an order chosen by the operator. *)
Endpoints == {"settle_one", "refund_one", "reverse_one",
              "freeze_one", "unfreeze_one", "mark_paid"}

OpOf ==
    [c \in Tasks \cup Endpoints |->
        CASE c \in {"settle_b07", "settle_b05_7", "settle_one"} -> "settle"
          [] c \in {"refund_b07", "refund_one"}                 -> "refund"
          [] c \in {"reverse_b07_1", "reverse_one"}             -> "reverse"
          [] c \in {"freeze_b12", "freeze_one"}                 -> "freeze"
          [] c \in {"unfreeze_b12", "unfreeze_one"}             -> "unfreeze"
          [] c = "mark_paid"                                    -> "paid"]

ASSUME ConstantsAssumption ==
    /\ None \notin Workers \cup Orders \cup Tasks \cup Endpoints
    /\ IsFiniteSet(Orders) /\ Owner \in [Orders -> Users]
    /\ Commissions \subseteq Nat /\ Withdrawals \subseteq Nat
    /\ Callers \subseteq Tasks \cup Endpoints
    /\ TaskLocksHold \in BOOLEAN /\ Crashes \in BOOLEAN /\ MaxFlows \in Nat

VARIABLES
    order,        \* orders rows: status and user_commission
    orderFlows,   \* commission_flow rows of type ORDER, oldest first
    deductFlows,  \* amounts of the commission_flow rows of type DEDUCT
    settlement,   \* settlement_record rows of each order
    account,      \* user_commission_account rows
    job           \* what each worker is executing and what it has read

vars == <<order, orderFlows, deductFlows, settlement, account, job>>

-----------------------------------------------------------------------------
OrderStatuses == {"PENDING", "SETTLABLE", "SETTLED", "REFUNDED"}
SettlementStatuses == {"SETTLABLE", "SETTLED", "PAID"}

(* Where the commission of an order stands, for the abstract promise.      *)
Stage ==
    [o \in Orders |->
        IF orderFlows[o] = <<>> THEN [at |-> "none", amount |-> 0]
        ELSE [at |-> IF deductFlows[o] # <<>> THEN "clawed"
                     ELSE IF orderFlows[o][1].status = "SUCCESS" THEN "earned"
                     ELSE IF orderFlows[o][1].status = "PENDING" THEN "promised"
                     ELSE "void",
              amount |-> orderFlows[o][1].amount]]

Promised == INSTANCE CommissionPromise WITH stage <- Stage

NoRead == [available |-> 0, total |-> 0]
Idle   == [pc |-> "idle", caller |-> None, order |-> None, amount |-> 0,
           seen |-> "NONE", read |-> NoRead]

Init ==
    /\ order \in [Orders -> [status : {"PENDING"}, commission : Commissions]]
    /\ orderFlows = [o \in Orders |-> <<>>]
    /\ deductFlows = [o \in Orders |-> <<>>]
    /\ settlement = [o \in Orders |-> <<>>]
    /\ account = [u \in Users |-> Promised!ZeroAccount]
    /\ job = [w \in Workers |-> Idle]

Goto(w, pc) == job' = [job EXCEPT ![w].pc = pc]

(* The handler returns or raises: its locks are released. *)
Finish(w) == job' = [job EXCEPT ![w] = Idle]
Start(w, c, o, pc, amount, seen) ==
    job' = [job EXCEPT ![w] = [pc |-> pc, caller |-> c, order |-> o,
                               amount |-> amount, seen |-> seen, read |-> NoRead]]

(* _run_with_lock: one instance of each scheduled task at a time. *)
CanStart(w, c, op) ==
    /\ job[w] = Idle
    /\ c \in Callers /\ OpOf[c] = op
    /\ (c \in Tasks /\ TaskLocksHold) => \A v \in Workers : job[v].caller # c

(* settlement_op:{order}:{action}, held from _acquire_op_lock to the end. *)
OpLocked(op, o) ==
    \E v \in Workers : /\ job[v].pc = "write" /\ job[v].order = o
                       /\ OpOf[job[v].caller] = op

(* At a write step of an operation: the worker's job, ready to commit. *)
AtWrite(w, op) == job[w].pc = "write" /\ OpOf[job[w].caller] = op

HasSuccess(o) == \E i \in DOMAIN orderFlows[o] : orderFlows[o][i].status = "SUCCESS"

-----------------------------------------------------------------------------
(* batch_update_status writes whatever status was pulled, also one the     *)
(* order has left already (OrderStatus models who writes and when).        *)
OrderSync(o, s) ==
    /\ s # order[o].status
    /\ order' = [order EXCEPT ![o].status = s]
    /\ UNCHANGED <<orderFlows, deductFlows, settlement, account, job>>

(* Withdrawals of the same account (external to this module). *)
Withdraw(u) ==
    /\ UNCHANGED <<order, orderFlows, deductFlows, settlement, job>>
    /\ Promised!Withdraw(u)

(* MUTANT of SettleBegin: the idempotence check is gone. *)
SettleUnchecked(w, c, o) ==
    /\ CanStart(w, c, "settle")
    /\ order[o].status = "SETTLED" /\ Len(orderFlows[o]) < MaxFlows
    /\ \E n \in Commissions : Start(w, c, o, "write", n, "NONE")
    /\ UNCHANGED <<order, orderFlows, deductFlows, settlement, account>>

(* batch_settle_orders / settle_single_order up to the credit: the order is *)
(* SETTLED, and an existing ORDER flow stops the task always, the endpoint *)
(* only when the first one is SUCCESS.                                     *)
SettleBegin(w, c, o) ==
    /\ CanStart(w, c, "settle")
    /\ order[o].status = "SETTLED"
    /\ Len(orderFlows[o]) < MaxFlows
    /\ orderFlows[o] # <<>> => c \in Endpoints /\ orderFlows[o][1].status # "SUCCESS"
    /\ \E n \in Commissions :
          Start(w, c, o, IF n = order[o].commission THEN "write" ELSE "calibrate",
                n, "NONE")
    /\ UNCHANGED <<order, orderFlows, deductFlows, settlement, account>>

(* MUTANT of SettleCalibrate: the order is left to the next round, which   *)
(* may compute yet another commission.                                     *)
CalibrateAndLeave(w) ==
    /\ job[w].pc = "calibrate"
    /\ order' = [order EXCEPT ![job[w].order].commission = job[w].amount]
    /\ Finish(w)
    /\ UNCHANGED <<orderFlows, deductFlows, settlement, account>>

(* The recomputed commission is written back to the order first. *)
SettleCalibrate(w) ==
    /\ job[w].pc = "calibrate"
    /\ order' = [order EXCEPT ![job[w].order].commission = job[w].amount]
    /\ Goto(w, "write")
    /\ UNCHANGED <<orderFlows, deductFlows, settlement, account>>

(* settle_order_commission_atomic; an amount that is not positive raises. *)
SettleWrite(w) ==
    LET j == job[w]
        u == Owner[j.order]
    IN
    /\ AtWrite(w, "settle")
    /\ IF j.amount > 0
       THEN /\ orderFlows' = [orderFlows EXCEPT ![j.order] =
                                 Append(@, [status |-> "SUCCESS", amount |-> j.amount])]
            /\ account' = [account EXCEPT ![u].available = @ + j.amount,
                                          ![u].total = @ + j.amount]
       ELSE UNCHANGED <<orderFlows, account>>
    /\ Finish(w)
    /\ UNCHANGED <<order, deductFlows, settlement>>

-----------------------------------------------------------------------------
(* MUTANT of RefundBegin: an existing DEDUCT flow does not stop it. *)
RefundUnchecked(w, c, o) ==
    /\ CanStart(w, c, "refund")
    /\ order[o].status = "REFUNDED" /\ HasSuccess(o) /\ Len(deductFlows[o]) < MaxFlows
    /\ Start(w, c, o, "write", orderFlows[o][1].amount, orderFlows[o][1].status)
    /\ UNCHANGED <<order, orderFlows, deductFlows, settlement, account>>

(* MUTANT of RefundBegin: the task lists the flows still on their way. *)
RefundPendingOnly(w, c, o) ==
    /\ CanStart(w, c, "refund")
    /\ order[o].status = "REFUNDED" /\ orderFlows[o] # <<>> /\ deductFlows[o] = <<>>
    /\ orderFlows[o][1].status = "PENDING"
    /\ Start(w, c, o, "write", orderFlows[o][1].amount, orderFlows[o][1].status)
    /\ UNCHANGED <<order, orderFlows, deductFlows, settlement, account>>

(* process_refund_deductions / process_single_refund up to the deduction.  *)
(* The task lists orders with a SUCCESS flow; the endpoint takes any order *)
(* with an ORDER flow, whatever that flow's status.                        *)
RefundBegin(w, c, o) ==
    /\ CanStart(w, c, "refund")
    /\ order[o].status = "REFUNDED"
    /\ orderFlows[o] # <<>> /\ deductFlows[o] = <<>>
    /\ c \in Tasks => HasSuccess(o)
    /\ Start(w, c, o, "write", orderFlows[o][1].amount, orderFlows[o][1].status)
    /\ UNCHANGED <<order, orderFlows, deductFlows, settlement, account>>

(* MUTANT of DeductValid: a flow that is already FAILED passes. *)
DeductFailedToo(o) ==
    order[o].status = "REFUNDED" /\ orderFlows[o] # <<>> /\ deductFlows[o] = <<>>

(* pre_validate_deduct: what lets a refunded order be deducted. *)
DeductValid(o) ==
    /\ order[o].status = "REFUNDED"
    /\ orderFlows[o] # <<>> /\ deductFlows[o] = <<>>
    /\ orderFlows[o][1].status \in {"PENDING", "SUCCESS"}

(* execute_refund_deduction: the validation, which commits its log ... *)
ReverseBegin(w, c, o) ==
    /\ CanStart(w, c, "reverse")
    /\ DeductValid(o)
    /\ Start(w, c, o, "load", 0, "NONE")
    /\ UNCHANGED <<order, orderFlows, deductFlows, settlement, account>>

(* ... then reads the flows again, and the account, whose ORM object it    *)
(* keeps: the FOR UPDATE query of the deduction does not refresh it.       *)
ReverseLoad(w) ==
    LET o == job[w].order
        a == account[Owner[o]]
    IN
    /\ job[w].pc = "load"
    /\ IF deductFlows[o] = <<>>
       THEN job' = [job EXCEPT ![w].pc = "write",
                               ![w].amount = orderFlows[o][1].amount,
                               ![w].seen = orderFlows[o][1].status,
                               ![w].read = [available |-> a.available, total |-> a.total]]
       ELSE Finish(w)
    /\ UNCHANGED <<order, orderFlows, deductFlows, settlement, account>>

(* MUTANT of DeductWrite: the overdraft check is dropped. *)
DeductOverdraws(w, op) ==
    LET j == job[w]
        u == Owner[j.order]
    IN
    /\ AtWrite(w, op)
    /\ deductFlows' = [deductFlows EXCEPT ![j.order] = Append(@, j.amount)]
    /\ account' = [account EXCEPT ![u].available = @ - j.amount, ![u].total = @ - j.amount]
    /\ Finish(w)
    /\ UNCHANGED <<order, orderFlows, settlement>>

(* deduct_on_refund_atomic: a flow seen PENDING is marked FAILED; any other *)
(* one is deducted from the available balance unless that is too small.    *)
DeductWrite(w, op) ==
    LET j    == job[w]
        u    == Owner[j.order]
        base == IF op = "reverse" THEN j.read
                ELSE [available |-> account[u].available, total |-> account[u].total]
    IN
    /\ AtWrite(w, op)
    /\ \/ /\ j.seen = "PENDING"
          /\ orderFlows' = [orderFlows EXCEPT ![j.order][1].status = "FAILED"]
          /\ UNCHANGED <<deductFlows, account>>
       \/ /\ j.seen # "PENDING" /\ base.available >= j.amount
          /\ deductFlows' = [deductFlows EXCEPT ![j.order] = Append(@, j.amount)]
          /\ account' = [account EXCEPT ![u].available = base.available - j.amount,
                                        ![u].total = base.total - j.amount]
          /\ UNCHANGED orderFlows
       \/ /\ j.seen # "PENDING" /\ base.available < j.amount
          /\ UNCHANGED <<orderFlows, deductFlows, account>>
    /\ Finish(w)
    /\ UNCHANGED <<order, settlement>>

-----------------------------------------------------------------------------
(* MUTANT of FreezeBegin: the endpoint reads without the operation lock. *)
FreezeUnlocked(w, c, o) ==
    /\ CanStart(w, c, "freeze")
    /\ order[o].status = "SETTLABLE" /\ settlement[o] = <<>>
    /\ Len(orderFlows[o]) < MaxFlows
    /\ Start(w, c, o, "write", order[o].commission, "NONE")
    /\ UNCHANGED <<order, orderFlows, deductFlows, settlement, account>>

(* B12 freeze_on_settlable.  The task has read the order when it listed it *)
(* and only then takes the operation lock; the endpoint reads under it.    *)
FreezeBegin(w, c, o) ==
    /\ CanStart(w, c, "freeze")
    /\ c \in Endpoints => ~OpLocked("freeze", o)
    /\ order[o].status = "SETTLABLE" /\ settlement[o] = <<>>
    /\ Len(orderFlows[o]) < MaxFlows
    /\ Start(w, c, o, IF c \in Tasks THEN "lock" ELSE "write",
             order[o].commission, "NONE")
    /\ UNCHANGED <<order, orderFlows, deductFlows, settlement, account>>

(* _acquire_op_lock of a task, after it has read; a busy lock raises. *)
OpLock(w) ==
    /\ job[w].pc = "lock"
    /\ IF OpLocked(OpOf[job[w].caller], job[w].order) THEN Finish(w) ELSE Goto(w, "write")
    /\ UNCHANGED <<order, orderFlows, deductFlows, settlement, account>>

(* freeze_atomic *)
FreezeWrite(w) ==
    LET j == job[w]
        u == Owner[j.order]
    IN
    /\ AtWrite(w, "freeze")
    /\ IF j.amount > 0
       THEN /\ settlement' = [settlement EXCEPT ![j.order] =
                  Append(@, [status |-> "SETTLABLE", amount |-> j.amount,
                             flow |-> Len(orderFlows[j.order]) + 1])]
            /\ orderFlows' = [orderFlows EXCEPT ![j.order] =
                  Append(@, [status |-> "PENDING", amount |-> j.amount])]
            /\ account' = [account EXCEPT ![u].frozen = @ + j.amount,
                                          ![u].total = @ + j.amount]
       ELSE UNCHANGED <<settlement, orderFlows, account>>
    /\ Finish(w)
    /\ UNCHANGED <<order, deductFlows>>

(* MUTANT of UnfreezeBegin: the state machine check is dropped. *)
UnfreezeAnyState(w, c, o) ==
    /\ CanStart(w, c, "unfreeze")
    /\ c \in Endpoints => ~OpLocked("unfreeze", o)
    /\ order[o].status = "SETTLED" /\ Len(settlement[o]) = 1
    /\ Start(w, c, o, IF c \in Tasks THEN "lock" ELSE "write",
             settlement[o][1].amount, "NONE")
    /\ UNCHANGED <<order, orderFlows, deductFlows, settlement, account>>

(* B12 unfreeze_on_settled: the settlement must be the order's only one    *)
(* (scalar_one_or_none) and SETTLABLE, the order SETTLED.                  *)
UnfreezeBegin(w, c, o) ==
    /\ CanStart(w, c, "unfreeze")
    /\ c \in Endpoints => ~OpLocked("unfreeze", o)
    /\ order[o].status = "SETTLED"
    /\ Len(settlement[o]) = 1 /\ settlement[o][1].status = "SETTLABLE"
    /\ Start(w, c, o, IF c \in Tasks THEN "lock" ELSE "write",
             settlement[o][1].amount, "NONE")
    /\ UNCHANGED <<order, orderFlows, deductFlows, settlement, account>>

(* MUTANT of UnfreezeWrite: the amount is credited and stays frozen. *)
UnfreezeKeepsFrozen(w) ==
    LET j == job[w] IN
    /\ AtWrite(w, "unfreeze")
    /\ account' = [account EXCEPT ![Owner[j.order]].available = @ + j.amount]
    /\ orderFlows' = [orderFlows EXCEPT
                         ![j.order][settlement[j.order][1].flow].status = "SUCCESS"]
    /\ settlement' = [settlement EXCEPT ![j.order][1].status = "SETTLED"]
    /\ Finish(w)
    /\ UNCHANGED <<order, deductFlows>>

(* unfreeze_atomic: neither the flow's nor the settlement's status is read *)
(* again under the row lock; only frozen >= amount is.                     *)
UnfreezeWrite(w) ==
    LET j == job[w]
        u == Owner[j.order]
    IN
    /\ AtWrite(w, "unfreeze")
    /\ IF account[u].frozen >= j.amount
       THEN /\ account' = [account EXCEPT ![u].frozen = @ - j.amount,
                                          ![u].available = @ + j.amount]
            /\ orderFlows' = [orderFlows EXCEPT
                                 ![j.order][settlement[j.order][1].flow].status = "SUCCESS"]
            /\ settlement' = [settlement EXCEPT ![j.order][1].status = "SETTLED"]
       ELSE UNCHANGED <<account, orderFlows, settlement>>
    /\ Finish(w)
    /\ UNCHANGED <<order, deductFlows>>

(* mark_paid of the order's first settlement: SETTLED -> PAID, read and     *)
(* written without a lock.                                                 *)
PaidBegin(w, c, o) ==
    /\ CanStart(w, c, "paid")
    /\ settlement[o] # <<>> /\ settlement[o][1].status = "SETTLED"
    /\ Start(w, c, o, "write", 0, "NONE")
    /\ UNCHANGED <<order, orderFlows, deductFlows, settlement, account>>

PaidWrite(w) ==
    /\ AtWrite(w, "paid")
    /\ settlement' = [settlement EXCEPT ![job[w].order][1].status = "PAID"]
    /\ Finish(w)
    /\ UNCHANGED <<order, orderFlows, deductFlows, account>>

-----------------------------------------------------------------------------
Begin(w, c, o) ==
    \/ SettleBegin(w, c, o) \/ RefundBegin(w, c, o) \/ ReverseBegin(w, c, o)
    \/ FreezeBegin(w, c, o) \/ UnfreezeBegin(w, c, o) \/ PaidBegin(w, c, o)

(* The next step of the handler a worker is executing. *)
HandlerStep(w) ==
    \/ SettleCalibrate(w) \/ SettleWrite(w)
    \/ ReverseLoad(w) \/ DeductWrite(w, "refund") \/ DeductWrite(w, "reverse")
    \/ OpLock(w) \/ FreezeWrite(w) \/ UnfreezeWrite(w) \/ PaidWrite(w)

(* The process dies: its transaction rolls back, its locks expire. *)
Crash(w) ==
    /\ Crashes /\ job[w] # Idle
    /\ Finish(w)
    /\ UNCHANGED <<order, orderFlows, deductFlows, settlement, account>>

Next ==
    \/ \E o \in Orders, s \in OrderStatuses : OrderSync(o, s)
    \/ \E u \in Users : Withdraw(u)
    \/ \E w \in Workers, c \in Callers, o \in Orders : Begin(w, c, o)
    \/ \E w \in Workers : HandlerStep(w) \/ Crash(w)

Spec == Init /\ [][Next]_vars

(* Handlers go on, and the scheduled tasks run again and again; a round    *)
(* walks through its whole page (a backlog of at most batch_size orders),  *)
(* so every order that stays listed is reached although another order may  *)
(* hold the task in between.                                               *)
Fairness ==
    /\ \A w \in Workers : WF_vars(HandlerStep(w))
    /\ \A c \in Callers \cap Tasks, o \in Orders :
          SF_vars(\E w \in Workers : Begin(w, c, o))

FairSpec == Spec /\ Fairness

-----------------------------------------------------------------------------
AccountType ==
    [available : Nat, frozen : Nat, total : Int, held : Nat, out : Nat]
JobType ==
    [pc : {"idle", "calibrate", "load", "lock", "write"},
     caller : Callers \cup {None}, order : Orders \cup {None}, amount : Nat,
     seen : {"NONE", "PENDING", "SUCCESS", "FAILED"},
     read : [available : Nat, total : Int]]

TypeOK ==
    /\ order \in [Orders -> [status : OrderStatuses, commission : Nat]]
    /\ orderFlows \in
          [Orders -> Seq([status : {"PENDING", "SUCCESS", "FAILED"}, amount : Nat])]
    /\ deductFlows \in [Orders -> Seq(Nat)]
    /\ settlement \in
          [Orders -> Seq([status : SettlementStatuses, amount : Nat, flow : Nat])]
    /\ account \in [Users -> AccountType]
    /\ job \in [Workers -> JobType]
    /\ \A w \in Workers :
          job[w].pc # "idle" => job[w].caller \in Callers /\ job[w].order \in Orders

(* The total of an account is what it has available, frozen and paid out:  *)
(* no handler overwrites another one's movement.                           *)
Balanced ==
    \A u \in Users :
        account[u].available + account[u].frozen + account[u].out = account[u].total

(* An order's commission becomes available through one ORDER flow at most  *)
(* ("已有 ORDER 流水的订单自动跳过").                                          *)
CreditedOnce ==
    \A o \in Orders :
        Cardinality({i \in DOMAIN orderFlows[o] :
                        orderFlows[o][i].status = "SUCCESS"}) <= 1

OrdersOf(u) == {o \in Orders : Owner[o] = u}
FlowSum(flows, status) ==
    SumFunctionOnSet([i \in DOMAIN flows |-> flows[i].amount],
                     {i \in DOMAIN flows : flows[i].status = status})
SumFlows(u, status) ==
    SumFunctionOnSet([o \in Orders |-> FlowSum(orderFlows[o], status)], OrdersOf(u))
SumDeducts(u) ==
    SumFunctionOnSet([o \in Orders |-> SumFunction(deductFlows[o])], OrdersOf(u))

(* The flows explain the account.  Available, set-aside and paid-out money *)
(* is the credited flows less the deducted ones; frozen money is the       *)
(* PENDING flows and the withdrawals in progress, so that no commission    *)
(* stays frozen that nothing will ever release.                            *)
FlowsMatchAccount ==
    \A u \in Users :
        /\ account[u].available + account[u].held + account[u].out
             = SumFlows(u, "SUCCESS") - SumDeducts(u)
        /\ account[u].frozen = SumFlows(u, "PENDING") + account[u].held

(* Every handler's step, whatever it read before, is one step of the       *)
(* promise an order's commission goes through, or leaves it where it is.   *)
PromiseSpec == Promised!Spec

(* Worker w has found order o not credited (deducted) yet, and has not     *)
(* written.  The check of B07-1 and B05-6 is the one they make when they   *)
(* load the flows.                                                         *)
Checked(w, kind, o) ==
    /\ job[w].pc \notin {"idle", "load"} /\ job[w].order = o
    /\ OpOf[job[w].caller] \in IF kind = "credit" THEN {"settle"} ELSE {"refund", "reverse"}

Racing(kind, o) ==
    \E v, w \in Workers : v # w /\ Checked(v, kind, o) /\ Checked(w, kind, o)

(* B07 and B05-7 are two tasks, and their endpoints take any order: one    *)
(* gets a second ORDER flow only if some time two of them have both checked *)
(* it before either wrote; or else B12 has settled the order, too.         *)
SecondCreditHasCause ==
    \A o \in Orders :
        []~Racing("credit", o)
            => [](Len(orderFlows[o]) > 1 => settlement[o] # <<>>)

(* Two tasks and two endpoints deduct refunded orders, without a common    *)
(* lock: an order is deducted a second time only if two of them have both  *)
(* checked it before either wrote, and never by one that comes later.      *)
SecondDeductionHasCause ==
    \A o \in Orders : []~Racing("deduct", o) => [](Len(deductFlows[o]) <= 1)

(* The commission of an order that stays settled is credited. *)
SettledIsPaid ==
    \A o \in Orders : <>[](order[o].status = "SETTLED") => <>HasSuccess(o)

(* No order that stays refunded stays credited, even when a settlement task *)
(* had listed it and credits it after the refund: it is deducted, or the user *)
(* has spent the money.                                                    *)
RefundIsDeducted ==
    \A o \in Orders :
        <>[](order[o].status = "REFUNDED" /\ HasSuccess(o)) => []<>
            \/ deductFlows[o] # <<>>
            \/ HasSuccess(o) /\ account[Owner[o]].available < orderFlows[o][1].amount
=============================================================================
