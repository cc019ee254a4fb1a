---------------------------- MODULE WithdrawFlow ----------------------------
(***************************************************************************)
(* User withdrawals: services/withdraw_service.py over the account and     *)
(* application DAOs, with the Redis locks and keys they use, and the       *)
(* unlocked back-office path of services/b13_withdraw_admin_service.py.    *)
(*                                                                         *)
(* Every DAO call commits by itself, so a handler is a sequence of steps   *)
(* that other handlers, a crash of its worker process and the expiry of    *)
(* its Redis lease can fall between.  job[w] is the request worker w is    *)
(* serving and the step it is about to take.                               *)
(***************************************************************************)
EXTENDS Integers, FiniteSets, Functions

CONSTANTS
    Users, Applies, Workers, None,
    Amounts, Fees, Credits,
    MaxCredit,    \* bound on the total a user is ever credited
    MinAmount,    \* WITHDRAW_MIN_AMOUNT
    DailyLimit,   \* WITHDRAW_DAILY_LIMIT
    LeaseHolds,   \* every handler finishes within LockTimeout.NORMAL
    AdminOps,     \* operations of the unlocked B13 path that are in use
    Faults,       \* store calls that may fail
    Crashes       \* worker processes may die between two steps

StoreCalls == {"expire", "cache", "sum", "deduct", "create", "status", "adjust"}
ReviewOps  == {"reject", "approve", "complete", "fail"}
B13Ops     == {"b13_approve", "b13_reject", "b13_transfer"}

ASSUME ConstantsAssumption ==
    /\ IsFiniteSet(Applies) /\ Users \cap Applies = {}
    /\ None \notin Users \cup Applies \cup Workers
    /\ Amounts \subseteq Nat /\ Fees \subseteq Nat /\ Credits \subseteq Nat
    /\ MaxCredit \in Nat /\ MinAmount \in Nat /\ DailyLimit \in Nat
    /\ LeaseHolds \in BOOLEAN /\ Crashes \in BOOLEAN
    /\ AdminOps \subseteq B13Ops
    /\ Faults \subseteq StoreCalls

VARIABLES
    account,      \* user_commission_account rows
    apply,        \* user_withdraw_apply rows
    submitKey,    \* withdraw_submit:{user}: the 5 s resubmission guard
    lock,         \* holder of withdraw:{user} and withdraw_apply:{id}
    dailyUsed,    \* withdraw:daily_used:{user}:{today}, or None
    job,          \* what each worker process is executing
    hold,         \* history: the movements of each application's money
    blind         \* history: users whose daily total went unchecked or stale

vars == <<account, apply, submitKey, lock, dailyUsed, job, hold, blind>>

Ledger == INSTANCE WithdrawLedger

-----------------------------------------------------------------------------
OpenStatuses == {"PENDING", "APPROVED", "PROCESSING"}
Statuses     == OpenStatuses \cup {"SUCCESS", "REJECTED"}

(* MUTANTS of AllowedFrom: a status check that is too wide. *)
ApproveAfterReject ==
    [reject |-> {"PENDING"}, approve |-> {"PENDING", "REJECTED"},
     complete |-> {"APPROVED", "PROCESSING"}, fail |-> {"APPROVED", "PROCESSING"},
     b13_approve |-> {"PENDING"}, b13_reject |-> {"PENDING", "APPROVED"},
     b13_transfer |-> {"APPROVED", "PROCESSING"}]

FailAfterSuccess ==
    [ApproveAfterReject EXCEPT !.approve = {"PENDING"},
                               !.fail = {"APPROVED", "PROCESSING", "SUCCESS"}]

RejectTwice ==
    [ApproveAfterReject EXCEPT !.approve = {"PENDING"},
                               !.reject = {"PENDING", "REJECTED"}]

(* The statuses each operation accepts and the status it writes. *)
AllowedFrom ==
    [reject       |-> {"PENDING"},
     approve      |-> {"PENDING"},
     complete     |-> {"APPROVED", "PROCESSING"},
     fail         |-> {"APPROVED", "PROCESSING"},
     b13_approve  |-> {"PENDING"},
     b13_reject   |-> {"PENDING", "APPROVED"},
     b13_transfer |-> {"APPROVED", "PROCESSING"}]

WritesStatus ==
    [reject       |-> "REJECTED",
     approve      |-> "APPROVED",
     complete     |-> "SUCCESS",
     fail         |-> "REJECTED",
     b13_approve  |-> "APPROVED",
     b13_reject   |-> "REJECTED",
     b13_transfer |-> "PROCESSING"]

NoApply == [status |-> "NONE", user |-> None, amount |-> 0, fee |-> 0]
Idle    == [pc |-> "idle", op |-> None, apply |-> None, user |-> None,
            amount |-> 0, fee |-> 0]

LockKeys  == Users \cup Applies
SubmitPCs == {"expire", "lock", "validate", "deduct", "create", "invalidate"}
(* Steps taken between acquire_lock and release_lock. *)
LockedPCs == {"validate", "deduct", "create", "invalidate",
              "read", "status", "adjust", "release"}
PCs       == {"idle", "b13"} \cup SubmitPCs \cup LockedPCs

Init ==
    /\ account = [u \in Users |-> Ledger!ZeroAccount]
    /\ apply = [a \in Applies |-> NoApply]
    /\ submitKey = [u \in Users |-> "absent"]
    /\ lock = [k \in LockKeys |-> None]
    /\ dailyUsed = [u \in Users |-> None]
    /\ job = [w \in Workers |-> Idle]
    /\ hold = [a \in Applies |-> Ledger!NoHold]
    /\ blind = {}

(* The lock a job's handler works under. *)
LockKey(j) == IF j.op = "submit" THEN j.user ELSE j.apply

Holding(w, k) == job[w].pc \in LockedPCs /\ LockKey(job[w]) = k

(* sum_apply_amount_by_user_and_date: today's applications of u, REJECTED  *)
(* ones excluded.  The model covers one day.                               *)
AmountOf(S) == SumFunctionOnSet([a \in Applies |-> apply[a].amount], S)
UsedToday(u) ==
    AmountOf({a \in Applies : /\ apply[a].user = u
                              /\ apply[a].status \notin {"NONE", "REJECTED"}})

Goto(w, pc) == job' = [job EXCEPT ![w].pc = pc]
Finish(w)   == job' = [job EXCEPT ![w] = Idle]

-----------------------------------------------------------------------------
(* Commission reaching the account (settlement and others): external here. *)
Credit(u, n) ==
    /\ Ledger!Credit(u, n)
    /\ UNCHANGED <<apply, submitKey, lock, dailyUsed, job, blind>>

(* apply_withdraw: setnx of the resubmission key.  A key that is present    *)
(* refuses the request and changes nothing.                                *)
SubmitBegin(w, u, n, a) ==
    /\ job[w] = Idle
    /\ submitKey[u] = "absent"
    /\ apply[a].status = "NONE" /\ hold[a].state = "none"
    /\ \A v \in Workers : job[v].apply # a
    /\ submitKey' = [submitKey EXCEPT ![u] = "noTTL"]
    /\ job' = [job EXCEPT ![w] = [pc |-> "expire", op |-> "submit", apply |-> a,
                                  user |-> u, amount |-> n, fee |-> 0]]
    /\ UNCHANGED <<account, apply, lock, dailyUsed, hold, blind>>

(* ... its TTL, set by a second command whose failure is only logged, then *)
(* the minimum-amount check.                                               *)
SubmitExpire(w) ==
    LET u == job[w].user IN
    /\ job[w].pc = "expire"
    /\ \/ submitKey' = [submitKey EXCEPT ![u] = "ttl"]
       \/ "expire" \in Faults /\ UNCHANGED submitKey
    /\ IF job[w].amount < MinAmount THEN Finish(w) ELSE Goto(w, "lock")
    /\ UNCHANGED <<account, apply, lock, dailyUsed, hold, blind>>

(* acquire_lock(withdraw:{user}); a busy lock refuses the request. *)
SubmitLock(w) ==
    LET u == job[w].user IN
    /\ job[w].pc = "lock"
    /\ IF lock[u] = None
       THEN lock' = [lock EXCEPT ![u] = w] /\ Goto(w, "validate")
       ELSE UNCHANGED lock /\ Finish(w)
    /\ UNCHANGED <<account, apply, submitKey, dailyUsed, hold, blind>>

(* The daily total: from Redis if it is there and the GET succeeds, else   *)
(* from the table.                                                         *)
Totals(u) ==
    IF dailyUsed[u] = None THEN {UsedToday(u)}
    ELSE {dailyUsed[u]} \cup IF "cache" \in Faults THEN {UsedToday(u)} ELSE {}

(* WithdrawRuleValidator.validate_all.  The total is then cached, if the   *)
(* SET succeeds; when the query raises, the check is skipped.  The balance *)
(* check reads a cached account that may be stale, so it may answer either *)
(* way; adjust_balance checks again.                                       *)
SubmitValidate(w) ==
    LET u == job[w].user IN
    /\ job[w].pc = "validate"
    /\ \/ \E used \in Totals(u) :
             /\ \/ dailyUsed' = [dailyUsed EXCEPT ![u] = used]
                \/ "cache" \in Faults /\ UNCHANGED dailyUsed
             /\ \/ Goto(w, "release")
                \/ /\ used + job[w].amount <= DailyLimit
                   /\ \E f \in Fees :
                         job' = [job EXCEPT ![w].pc = "deduct", ![w].fee = f]
             /\ UNCHANGED blind
       \/ /\ "sum" \in Faults /\ UsedToday(u) \in Totals(u)
          /\ \E f \in Fees : job' = [job EXCEPT ![w].pc = "deduct", ![w].fee = f]
          /\ blind' = blind \cup {u}
          /\ UNCHANGED dailyUsed
    /\ UNCHANGED <<account, apply, submitKey, lock, hold>>

(* MUTANT of SubmitDeduct: adjust_balance trusts the validator's balance. *)
SubmitDeductUnchecked(w) ==
    LET j == job[w] IN
    /\ j.pc = "deduct"
    /\ account' = Ledger!Moved(j.user, -j.amount, j.amount, 0, 0)
    /\ hold' = [hold EXCEPT ![j.apply] =
                   [state |-> "held", user |-> j.user, amount |-> j.amount, fee |-> j.fee]]
    /\ Goto(w, "create")
    /\ UNCHANGED <<apply, submitKey, lock, dailyUsed, blind>>

(* adjust_balance(available -= amount, frozen += amount): first commit. *)
SubmitDeduct(w) ==
    LET j == job[w] IN
    /\ j.pc = "deduct"
    /\ \/ /\ account[j.user].available >= j.amount
          /\ account' = Ledger!Moved(j.user, -j.amount, j.amount, 0, 0)
          /\ hold' = [hold EXCEPT ![j.apply] =
                         [state |-> "held", user |-> j.user,
                          amount |-> j.amount, fee |-> j.fee]]
          /\ Goto(w, "create")
       \/ /\ account[j.user].available < j.amount \/ "deduct" \in Faults
          /\ Goto(w, "release")
          /\ UNCHANGED <<account, hold>>
    /\ UNCHANGED <<apply, submitKey, lock, dailyUsed, blind>>

(* apply_dao.create(PENDING): second commit. *)
SubmitCreate(w) ==
    LET j == job[w] IN
    /\ j.pc = "create"
    /\ \/ /\ apply' = [apply EXCEPT ![j.apply] =
                          [status |-> "PENDING", user |-> j.user,
                           amount |-> j.amount, fee |-> j.fee]]
          /\ Goto(w, "invalidate")
       \/ /\ "create" \in Faults
          /\ Goto(w, "release")
          /\ UNCHANGED apply
    /\ UNCHANGED <<account, submitKey, lock, dailyUsed, hold, blind>>

(* MUTANT of SubmitInvalidate: the cached total is left in place. *)
SubmitKeepsCache(w) ==
    /\ job[w].pc = "invalidate"
    /\ Goto(w, "release")
    /\ UNCHANGED <<account, apply, submitKey, lock, dailyUsed, hold, blind>>

(* A total that should have been dropped is still in Redis. *)
LeftBehind(u) == blind' = IF dailyUsed[u] = None THEN blind ELSE blind \cup {u}

(* invalidate_daily_used_cache; RedisClient.delete logs that it failed, and *)
(* the handler goes on.                                                    *)
SubmitInvalidate(w) ==
    LET u == job[w].user IN
    /\ job[w].pc = "invalidate"
    /\ \/ dailyUsed' = [dailyUsed EXCEPT ![u] = None] /\ UNCHANGED blind
       \/ "cache" \in Faults /\ LeftBehind(u) /\ UNCHANGED dailyUsed
    /\ Goto(w, "release")
    /\ UNCHANGED <<account, apply, submitKey, lock, hold>>

(* The finally block: the release script deletes the key only when its     *)
(* value still names this owner.                                           *)
Release(w) ==
    LET k == LockKey(job[w]) IN
    /\ job[w].pc = "release"
    /\ lock' = IF lock[k] = w THEN [lock EXCEPT ![k] = None] ELSE lock
    /\ Finish(w)
    /\ UNCHANGED <<account, apply, submitKey, dailyUsed, hold, blind>>

-----------------------------------------------------------------------------
(* MUTANT of ReviewAcquire: the handler does not take the lock. *)
ReviewUnlocked(w, op, a) ==
    /\ job[w] = Idle
    /\ job' = [job EXCEPT ![w] = [Idle EXCEPT !.pc = "read", !.op = op, !.apply = a]]
    /\ UNCHANGED <<account, apply, submitKey, lock, dailyUsed, hold, blind>>

(* reject_apply, approve_apply, complete_apply, fail_apply *)
ReviewAcquire(w, op, a) ==
    /\ job[w] = Idle
    /\ lock[a] = None
    /\ lock' = [lock EXCEPT ![a] = w]
    /\ job' = [job EXCEPT ![w] = [Idle EXCEPT !.pc = "read", !.op = op, !.apply = a]]
    /\ UNCHANGED <<account, apply, submitKey, dailyUsed, hold, blind>>

(* get_by_id and the status check of the operation. *)
ReviewRead(w) ==
    LET r == apply[job[w].apply] IN
    /\ job[w].pc = "read"
    /\ IF r.status \in AllowedFrom[job[w].op]
       THEN job' = [job EXCEPT ![w].pc = "status", ![w].user = r.user,
                               ![w].amount = r.amount, ![w].fee = r.fee]
       ELSE Goto(w, "release")
    /\ UNCHANGED <<account, apply, submitKey, lock, dailyUsed, hold, blind>>

(* MUTANT of ReviewStatus: a failed transfer does not give the money back. *)
ReviewStatusOnly(w) ==
    LET j == job[w] IN
    /\ j.pc = "status"
    /\ apply' = [apply EXCEPT ![j.apply].status = WritesStatus[j.op]]
    /\ Goto(w, IF j.op \in {"approve", "fail"} THEN "release" ELSE "adjust")
    /\ UNCHANGED <<account, submitKey, lock, dailyUsed, hold, blind>>

(* "status first": update_by_id by primary key, with no condition on the   *)
(* status that was read.                                                   *)
ReviewStatus(w) ==
    LET j == job[w] IN
    /\ j.pc = "status"
    /\ \/ /\ apply' = [apply EXCEPT ![j.apply].status = WritesStatus[j.op]]
          /\ Goto(w, IF j.op = "approve" THEN "release" ELSE "adjust")
       \/ /\ "status" \in Faults
          /\ Goto(w, "release")
          /\ UNCHANGED apply
    /\ UNCHANGED <<account, submitKey, lock, dailyUsed, hold, blind>>

(* MUTANT of ReviewAdjust: the fee is booked on top of the amount paid. *)
ReviewAdjustGross(w) ==
    LET j == job[w] IN
    /\ j.pc = "adjust"
    /\ account[j.user].frozen >= j.amount
    /\ account' = IF j.op = "complete"
                  THEN Ledger!Moved(j.user, 0, -j.amount, j.amount, j.fee)
                  ELSE Ledger!Moved(j.user, j.amount, -j.amount, 0, 0)
    /\ hold' = [hold EXCEPT ![j.apply].state =
                   IF j.op = "complete" THEN "paid" ELSE "refunded"]
    /\ Goto(w, "release")
    /\ UNCHANGED <<apply, submitKey, lock, dailyUsed, blind>>

(* adjust_balance: release the frozen amount to the user, or out of the    *)
(* platform.  When it raises, the status stays as written.                 *)
ReviewAdjust(w) ==
    LET j == job[w] IN
    /\ j.pc = "adjust"
    /\ \/ /\ account[j.user].frozen >= j.amount
          /\ account' = IF j.op = "complete"
                        THEN Ledger!Moved(j.user, 0, -j.amount, j.amount - j.fee, j.fee)
                        ELSE Ledger!Moved(j.user, j.amount, -j.amount, 0, 0)
          /\ hold' = [hold EXCEPT ![j.apply].state =
                         IF j.op = "complete" THEN "paid" ELSE "refunded"]
       \/ /\ account[j.user].frozen < j.amount \/ "adjust" \in Faults
          /\ UNCHANGED <<account, hold>>
    /\ Goto(w, "release")
    /\ UNCHANGED <<apply, submitKey, lock, dailyUsed, blind>>

(* B13WithdrawAdminService.review_withdraw / update_transfer_info: the      *)
(* status is read and then overwritten, with no lock and no balance change. *)
B13Read(w, op, a) ==
    /\ job[w] = Idle
    /\ apply[a].status \in AllowedFrom[op]
    /\ job' = [job EXCEPT ![w] = [Idle EXCEPT !.pc = "b13", !.op = op, !.apply = a]]
    /\ UNCHANGED <<account, apply, submitKey, lock, dailyUsed, hold, blind>>

B13Write(w) ==
    LET j == job[w] IN
    /\ j.pc = "b13"
    /\ apply' = [apply EXCEPT ![j.apply].status = WritesStatus[j.op]]
    /\ Finish(w)
    /\ UNCHANGED <<account, submitKey, lock, dailyUsed, hold, blind>>

-----------------------------------------------------------------------------
(* A worker process dies: nothing is rolled back but the current commit,   *)
(* and its lease stays in Redis.                                           *)
Crash(w) ==
    /\ Crashes
    /\ job[w] # Idle
    /\ IF job[w].pc = "invalidate" THEN LeftBehind(job[w].user) ELSE UNCHANGED blind
    /\ Finish(w)
    /\ UNCHANGED <<account, apply, submitKey, lock, dailyUsed, hold>>

(* MUTANT of LeaseExpire: the acquire script sets no expiry. *)
LeaseForever(k) == FALSE /\ lock' = [lock EXCEPT ![k] = None]

(* The lease is 10 s and is not renewed: it can outlive its holder, and the *)
(* holder can outlive it unless LeaseHolds.                                *)
LeaseExpire(k) ==
    /\ lock[k] # None
    /\ LeaseHolds => ~Holding(lock[k], k)
    /\ lock' = [lock EXCEPT ![k] = None]
    /\ UNCHANGED <<account, apply, submitKey, dailyUsed, job, hold, blind>>

SubmitKeyExpire(u) ==
    /\ submitKey[u] = "ttl"
    /\ submitKey' = [submitKey EXCEPT ![u] = "absent"]
    /\ UNCHANGED <<account, apply, lock, dailyUsed, job, hold, blind>>

-----------------------------------------------------------------------------
(* One step of the handler a worker is executing. *)
HandlerStep(w) ==
    \/ SubmitExpire(w) \/ SubmitLock(w) \/ SubmitValidate(w)
    \/ SubmitDeduct(w) \/ SubmitCreate(w) \/ SubmitInvalidate(w)
    \/ ReviewRead(w) \/ ReviewStatus(w) \/ ReviewAdjust(w)
    \/ B13Write(w) \/ Release(w)

Next ==
    \/ \E u \in Users, n \in Credits : Credit(u, n)
    \/ \E w \in Workers, u \in Users, n \in Amounts, a \in Applies :
          SubmitBegin(w, u, n, a)
    \/ \E w \in Workers, op \in ReviewOps, a \in Applies : ReviewAcquire(w, op, a)
    \/ \E w \in Workers, op \in AdminOps, a \in Applies : B13Read(w, op, a)
    \/ \E w \in Workers : HandlerStep(w) \/ Crash(w)
    \/ \E k \in LockKeys : LeaseExpire(k)
    \/ \E u \in Users : SubmitKeyExpire(u)

Spec == Init /\ [][Next]_vars

(* A live worker goes on running its handler, and Redis expires keys.      *)
Fairness ==
    /\ \A w \in Workers : WF_vars(HandlerStep(w))
    /\ \A k \in LockKeys : WF_vars(LeaseExpire(k))
    /\ \A u \in Users : WF_vars(SubmitKeyExpire(u))

FairSpec == Spec /\ Fairness

(* An administrator who was refused rejects the application again.         *)
RetrySpec ==
    FairSpec /\ \A a \in Applies : SF_vars(\E w \in Workers : ReviewAcquire(w, "reject", a))

-----------------------------------------------------------------------------
AccountType ==
    [available : Nat, frozen : Nat, total : Nat, withdrawn : Int, fee : Nat]
ApplyType ==
    [status : Statuses \cup {"NONE"}, user : Users \cup {None}, amount : Nat, fee : Nat]
JobType ==
    [pc : PCs, op : ReviewOps \cup B13Ops \cup {"submit", None},
     apply : Applies \cup {None}, user : Users \cup {None}, amount : Nat, fee : Nat]
HoldType ==
    [state : {"none", "held", "paid", "refunded"}, user : Users \cup {None},
     amount : Nat, fee : Nat]

TypeOK ==
    /\ account \in [Users -> AccountType]
    /\ apply \in [Applies -> ApplyType]
    /\ submitKey \in [Users -> {"absent", "noTTL", "ttl"}]
    /\ lock \in [LockKeys -> Workers \cup {None}]
    /\ DOMAIN dailyUsed = Users
    /\ job \in [Workers -> JobType]
    /\ hold \in [Applies -> HoldType]
    /\ blind \subseteq Users
    /\ \A w \in Workers :
          /\ job[w].pc \in {"read", "status", "adjust"} =>
                job[w].op \in ReviewOps /\ job[w].apply \in Applies
          /\ job[w].pc = "b13" => job[w].op \in AdminOps
          /\ job[w].pc \in SubmitPCs => job[w].user \in Users

(* Every cent a user was ever credited is in exactly one of available,     *)
(* frozen, withdrawn or fee, whatever the handlers interleave with.        *)
Conservation ==
    \A u \in Users :
        account[u].available + account[u].frozen + account[u].withdrawn
            + account[u].fee = account[u].total

(* An application that can still be paid or refunded has its own money set *)
(* aside: no crash, failed commit or racing handler leaves it uncovered.   *)
OpenIsHeld ==
    \A a \in Applies :
        apply[a].status \in OpenStatuses =>
            /\ hold[a].state = "held"
            /\ hold[a].user = apply[a].user
            /\ hold[a].amount = apply[a].amount
            /\ hold[a].fee = apply[a].fee

(* No application's money is released or paid twice, whatever is retried   *)
(* or raced ("避免重复退回"): frozen is exactly the money of the applications  *)
(* still held, and what has left the account exactly what was paid.        *)
MovedOnce == Ledger!FrozenIsHeld /\ Ledger!PaidIsWithdrawn

(* Money leaves or returns only as the recorded outcome says: a paid       *)
(* application is SUCCESS and a refunded one is REJECTED.                  *)
OutcomeMatchesMoney ==
    \A a \in Applies :
        /\ hold[a].state = "paid" => apply[a].status = "SUCCESS"
        /\ hold[a].state = "refunded" => apply[a].status = "REJECTED"

(* At most one handler is between acquiring and releasing a given lock. *)
OneHandlerPerLock ==
    \A v, w \in Workers : \A k \in LockKeys :
        Holding(v, k) /\ Holding(w, k) => v = w

(* What makes the handlers safe together.  A submission owns its           *)
(* application number until the row exists; a review works, under the      *)
(* lock, on the row it read; and its money stays held until it moves it.   *)
Matches(r, j) == r.user = j.user /\ r.amount = j.amount /\ r.fee = j.fee
FreshPCs      == {"expire", "lock", "validate", "deduct", "create"}

LocksAreHeld ==
    \A w \in Workers :
        job[w].pc \in LockedPCs => /\ LockKey(job[w]) \in LockKeys
                                  /\ lock[LockKey(job[w])] = w

FreshDistinct ==
    \A v, w \in Workers :
        v # w /\ job[v].pc \in FreshPCs /\ job[w].pc \in FreshPCs =>
            job[v].apply # job[w].apply

SubmitInv(w) ==
    LET j == job[w] IN
    /\ j.pc \in SubmitPCs =>
          /\ j.op = "submit" /\ j.apply \in Applies
          /\ j.user \in Users /\ j.amount \in Amounts
    /\ j.pc = "deduct" => j.fee \in Fees
    /\ j.pc \in FreshPCs =>
          /\ apply[j.apply].status = "NONE"
          /\ IF j.pc = "create"
             THEN hold[j.apply].state = "held" /\ Matches(hold[j.apply], j)
             ELSE hold[j.apply].state = "none"

ReviewInv(w) ==
    LET j == job[w] IN
    /\ j.pc = "status" =>
          apply[j.apply].status \in AllowedFrom[j.op] /\ Matches(apply[j.apply], j)
    /\ j.pc = "adjust" =>
          /\ j.op # "approve" /\ apply[j.apply].status = WritesStatus[j.op]
          /\ hold[j.apply].state = "held" /\ Matches(hold[j.apply], j)

(* ... with OpenIsHeld and OutcomeMatchesMoney, an inductive invariant. *)
HandlerInv ==
    /\ LocksAreHeld /\ FreshDistinct
    /\ \A w \in Workers : SubmitInv(w) /\ ReviewInv(w) /\ job[w].pc # "b13"
    /\ \A a \in Applies : hold[a].state # "none" => hold[a].user \in Users

(* With no crash and no failed store call, once every handler has returned *)
(* the frozen balance is exactly the open applications: a rejected or paid *)
(* application leaves nothing behind ("驳回退余额" in WithdrawStatus).       *)
QuiescentExact ==
    (\A w \in Workers : job[w] = Idle) =>
        \A u \in Users :
            account[u].frozen =
                AmountOf({a \in Applies : apply[a].user = u /\ apply[a].status \in OpenStatuses})

(* Today's applications of a user, the rejected ones excluded, stay within *)
(* WITHDRAW_DAILY_LIMIT although the total is read from a cache and single *)
(* commands on it fail - unless a check was skipped because the query      *)
(* raised, or a cached total outlived a submission because its DEL failed  *)
(* or the worker died before it.                                           *)
DailyLimitRespected == \A u \in Users \ blind : UsedToday(u) <= DailyLimit

(* SUCCESS and REJECTED are final: no late handler revives an application. *)
OutcomeIsFinal ==
    [][\A a \in Applies :
          apply[a].status \in {"SUCCESS", "REJECTED"} =>
              apply'[a].status = apply[a].status]_vars

(* The resubmission key of a user always comes with a TTL, but for the     *)
(* moment between the two Redis commands ("SETNX ... TTL=5s").             *)
SubmitKeyHasTTL ==
    \A u \in Users :
        submitKey[u] = "noTTL" =>
            \E w \in Workers : job[w].pc = "expire" /\ job[w].user = u

(* Whatever the handlers interleave with, each of their steps moves money  *)
(* the way one atomic step of the ledger does, or moves none.              *)
LedgerSpec == Ledger!Spec

(* Once workers have stopped dying, an application that is pending does not *)
(* stay so, whatever locks they died with and whichever handlers lost their *)
(* lease on the way.                                                       *)
PendingIsDecided ==
    (<>[][\A w \in Workers : ~Crash(w)]_vars)
        => \A a \in Applies : apply[a].status = "PENDING" ~> apply[a].status # "PENDING"
=============================================================================
