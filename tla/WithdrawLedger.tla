--------------------------- MODULE WithdrawLedger ---------------------------
(***************************************************************************)
(* What the withdrawal component promises about money, with no handler,    *)
(* lock, or commit boundary in sight: an application moves its amount from *)
(* available to frozen once, and from frozen to exactly one of "paid out"  *)
(* or "given back", at most once.  WithdrawFlow is shown to implement this *)
(* module; the concrete steps that matter are the commits of               *)
(* UserCommissionAccountDAO.adjust_balance.                                *)
(***************************************************************************)
EXTENDS Integers, Functions

CONSTANTS
    Users,        \* platform users, one commission account each
    Applies,      \* withdrawal application numbers (apply_no)
    None,         \* no user, no application
    Amounts,      \* amounts a user may ask for
    Fees,         \* fees the calculator may return
    Credits,      \* commission amounts credited from outside
    MaxCredit     \* bound on the total a user is ever credited

VARIABLES
    account,      \* the balances of each user's commission account
    hold          \* what has happened to the money of each application

vars == <<account, hold>>

NoHold == [state |-> "none", user |-> None, amount |-> 0, fee |-> 0]

ZeroAccount ==
    [available |-> 0, frozen |-> 0, total |-> 0, withdrawn |-> 0, fee |-> 0]

Init ==
    /\ account = [u \in Users |-> ZeroAccount]
    /\ hold = [a \in Applies |-> NoHold]

(* The balances of u after a movement of the given deltas. *)
Moved(u, dAvailable, dFrozen, dWithdrawn, dFee) ==
    [account EXCEPT ![u] =
        [available |-> @.available + dAvailable,
         frozen    |-> @.frozen + dFrozen,
         total     |-> @.total,
         withdrawn |-> @.withdrawn + dWithdrawn,
         fee       |-> @.fee + dFee]]

-----------------------------------------------------------------------------
Credit(u, n) ==
    /\ account[u].total + n <= MaxCredit
    /\ account' = [account EXCEPT ![u].available = @ + n, ![u].total = @ + n]
    /\ UNCHANGED hold

Hold(a, u, n, f) ==
    /\ hold[a].state = "none"
    /\ account[u].available >= n
    /\ account' = Moved(u, -n, n, 0, 0)
    /\ hold' = [hold EXCEPT ![a] =
                   [state |-> "held", user |-> u, amount |-> n, fee |-> f]]

Refund(a) ==
    /\ hold[a].state = "held"
    /\ account[hold[a].user].frozen >= hold[a].amount
    /\ account' = Moved(hold[a].user, hold[a].amount, -hold[a].amount, 0, 0)
    /\ hold' = [hold EXCEPT ![a].state = "refunded"]

Pay(a) ==
    /\ hold[a].state = "held"
    /\ account[hold[a].user].frozen >= hold[a].amount
    /\ account' = Moved(hold[a].user, 0, -hold[a].amount,
                        hold[a].amount - hold[a].fee, hold[a].fee)
    /\ hold' = [hold EXCEPT ![a].state = "paid"]

Next ==
    \/ \E u \in Users, n \in Credits : Credit(u, n)
    \/ \E a \in Applies, u \in Users, n \in Amounts, f \in Fees : Hold(a, u, n, f)
    \/ \E a \in Applies : Refund(a) \/ Pay(a)

Spec == Init /\ [][Next]_vars

-----------------------------------------------------------------------------
(* The amounts of the applications of u that are in a given state. *)
SumIn(u, state) ==
    SumFunctionOnSet([a \in Applies |-> hold[a].amount],
                     {a \in Applies : hold[a].user = u /\ hold[a].state = state})

(* Frozen money is exactly the money of the applications still held: the   *)
(* guard "frozen >= amount" of adjust_balance never refuses a movement of  *)
(* an application that is held.                                            *)
FrozenIsHeld == \A u \in Users : account[u].frozen = SumIn(u, "held")

(* Money that has left the account is exactly what was paid applications   *)
(* asked for; the rest of what was credited is available or frozen.        *)
PaidIsWithdrawn ==
    \A u \in Users :
        /\ account[u].withdrawn + account[u].fee = SumIn(u, "paid")
        /\ account[u].available + account[u].frozen + SumIn(u, "paid")
             = account[u].total
=============================================================================
