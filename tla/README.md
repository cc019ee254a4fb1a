# GAKing: orders, commission and withdrawals in TLA+

GAKing is a CPS (cost-per-sale) rebate platform: channel orders are pulled into
the database, each settled order earns its user a commission, and users withdraw
their commission to WeChat. The backend is an asyncio FastAPI application
(`src/backend/src`) with MySQL (async SQLAlchemy), Redis, and an APScheduler
instance inside the web workers. This directory holds TLA+ models of the parts of
that backend that move money, the TLC configurations that check them, and the
TLAPS proofs about them. Paths below are relative to `src/backend/src`.

## 1. Inventory

| Component | State | Operations | Interacts through | Hard behaviour | What makes it correct |
|---|---|---|---|---|---|
| User withdrawals (`services/withdraw_service.py`, `dao/user_withdraw_apply_dao.py`, `common/withdraw_rule_validator.py`) | `user_withdraw_apply` rows, resubmission key, daily-total cache, two kinds of lock | apply, reject, approve, complete, fail | commission account, Redis locks | several commits per handler, crash between them, a lease that can expire, a cached limit, two lock families over one account | money set aside for every open application, moved once, as the outcome says |
| Back-office withdrawals (`services/b13_withdraw_admin_service.py`) | the same rows | review, update_transfer_info | the same table, no lock | races with the locked path | outcomes are final; a rejection returns the money |
| Commission account (`dao/user_commission_account_dao.py`) | available, frozen, total, withdrawn, fee | creation by registration, order, settlement, B12 freeze and manual credit; adjust_balance; manual freeze and unfreeze (B08-1), of whose credit and debit no movement is ever committed; cached read | everything that moves money | row lock against ORM objects loaded before it; no unique index on the user; a cache filled late | flows explain the balances, one row per user, the cache converges |
| Settlement and refund (B07, B05-7: `services/commission_settlement_service.py`, `dao/commission_settlement_dao.py`) | `commission_flow` rows | settle, deduct, batch forms | scheduled tasks and admin endpoints, no common lock | check before transaction, two tasks for one job, batches | an order is credited once, deducted once, only after it was credited |
| Freeze and unfreeze (B12: `services/commission_settlement_b12_service.py`, `dao/settlement_atomic_dao.py`) | `settlement_record` rows, per-order operation locks, a breaker | freeze, unfreeze, mark_paid, batch forms | account, flows, tasks, endpoints | a page read before the lock is acted on under it | settlements only move forward; frozen money is owed |
| Refund deduction (B05-6, B07-1: `services/refund_deduction_service.py`, `services/b07_1_reverse_commission_service.py`) | operation logs, reverse-commission records with retries | validate, deduct, retry | flows, account | stale ORM account, a second deduction path | as for refunds |
| Lock, scheduler, leader (`common/lock_util.py`, `scheduler/`, `main.py`) | Redis leases `owner:expiry`, the worker's scheduler and renewal coroutine | acquire, renew, release, elect at startup, run tasks, shut down | runs every scheduled task of the other components | expiry and takeover, a renewal of three commands, two expiries of one lease, commands that fail after taking effect, a leader that lost its lease and goes on | a task runs in one worker at a time; two schedulers only after a missed renewal; no lease stays without an owner |
| Order synchronisation (`services/order_sync_service.py`, `dao/order_sync_dao.py`) | cursor and failed queue in Redis, `orders` | scheduled pull, `/sync`, `/retry` | channel adapters, breaker, orders | three callers without a lock; cursor against persistence; lost queue entry; failing store | no channel order is lost, but for a few causes the code leaves alone; every order arrives |
| Order state machine (`services/b12_order_state_machine_service.py`, `services/order_service.py`, `dao/order_dao.py`) | `orders.order_status`, cached detail | transitions by two endpoints, close of unpaid orders, REFUNDED by the refund deduction | order sync, settlement, readers | validate, then overwrite by id; two tables; a cache filled late | illegal steps only from the channel or a race; the channel's status wins in the end |
| Circuit breaker (`cps/circuit_breaker.py`, `cps/circuit_breaker_adapter.py`) | state, count and time in Redis | look, success, failure | order sync, goods, conversion | every caller is a probe; late answers | what its users promise in spite of it |
| Reconciliation (B13, B17) | run records, diffs, lock and breaker per service | run, fail, review | one record table, orders, accounts | two services, one table; a failure handler that looks its record up; unlocked reviews | results and reviews stand; a date gets a result |
| Caches (`cps/cache/`) | Redis entries of goods | fill, invalidate | readers | as for the two caches above | no stale entry outlives its time to live |
| Rule engine (`services/commission_rule_engine.py`, `services/user_commission_service.py`) | none | split of a commission | settlement | rounding | parts add up |
| Membership, admin auth, RBAC, configuration, audit, messages, dashboards, short links, front ends | their tables | CRUD and reports | - | little | - |

`PROJECT.json` gives each component its status, and under `hazards` the places
where the code is hard to test, with the properties that watch them.

## 2. Modules

| Module | Models |
|---|---|
| `WithdrawLedger` | Abstract: what the withdrawal component promises. An application's money is held once, then paid or refunded at most once. |
| `WithdrawFlow` | `WithdrawService`, the DAOs it commits through, the validator, the locks and keys, and B13's unlocked review. Refines `WithdrawLedger`. |
| `MCWithdrawFlow` | Symmetry for TLC; bounds are in the cfg files. |
| `WithdrawFlowProofs` | Theorems about `WithdrawFlow`. |
| `CommissionPromise` | Abstract: an order's commission is promised or earned once, released once, and clawed back at most once and after it was earned, next to withdrawals from the same account. |
| `CommissionSettlement` | B07 / B05-7 settlement and refunds, B12 freeze, unfreeze and mark_paid, and the B07-1 / B05-6 deduction, by task and by endpoint. Refines `CommissionPromise` for callers that exclude one another. |
| `MCCommissionSettlement` | One owner for all orders, symmetry. |
| `CommissionSettlementProofs` | Theorems about `CommissionSettlement` and `ReverseCommission`. |
| `SchedulerLease` | The Redis leases, leader election and renewal, and scheduled tasks under a lease each. |
| `SchedulerLeaseProofs` | Theorems about `SchedulerLease`. |
| `CircuitBreaker` | The breaker as operators on its three Redis keys; used by `OrderPull` and `Reconciliation`. |
| `OrderPull` | The pull of a channel's orders: cursor, windows, attempts, failed queue, persistence. |
| `OrderPullProofs` | Theorems about `OrderPull`. |
| `OrderStatus` | The status of an order under its five kinds of writers, and the cached detail. |
| `OrderStatusProofs` | Theorems about `OrderStatus`. |
| `ReverseCommission` | B07-1's records and their execution. EXTENDS `CommissionSettlement`: a reversal runs the "reverse" operation there, and the other operations go on around it. |
| `MCReverseCommission` | One order of one user. |
| `Reconciliation` | The runs of B13 and B17 on a date and the review of their differences. |
| `ReconciliationProofs` | Theorems about `Reconciliation`. |
| `AccountLedger` | The account row, from nothing: its creators, its movements, its flows and its cached copy. |
| `AccountLedgerProofs` | Theorems about `AccountLedger`. |
| `SumTheorems` | Lemmas about sums over finite sets, for the proofs about money. |

### 2.1 WithdrawFlow

Every DAO call commits by itself (`adjust_balance`, `create` and `update_by_id`
each end in `commit`), so a handler is a sequence of steps. `job[w]` is the
request that worker `w` serves: `pc` is the step it is about to take, the other
fields are its local variables.

| Action | Code |
|---|---|
| `SubmitBegin`, `SubmitExpire` | `apply_withdraw`: `setnx`, then `expire` as a second command, then the minimum amount |
| `SubmitLock` | `acquire_lock("withdraw:{user}")`; a busy lock raises |
| `SubmitValidate` | `WithdrawRuleValidator.validate_all`: daily total from cache or table, then cached; a failing query skips the check; the balance is read through a cache and so answers either way |
| `SubmitDeduct`, `SubmitCreate`, `SubmitInvalidate` | the two commits of a submission, and the DEL of the cached total: one that fails is only logged, and the handler goes on |
| `ReviewAcquire`, `ReviewRead`, `ReviewStatus`, `ReviewAdjust` | reject, approve, complete, fail: lock, read and check, write the status, move the money; `AllowedFrom` and `WritesStatus` are the four handlers' checks and writes |
| `Release` | the `finally` blocks: the release script compares the owner |
| `B13Read`, `B13Write` | `review_withdraw`, `update_transfer_info`: no lock, no balance |
| `Crash`, `LeaseExpire`, `SubmitKeyExpire` | a worker dies; Redis drops keys |
| `Credit` | commission arriving (external here, `CommissionSettlement` models it) |

`hold` is a history variable: what happened to each application's money. It is
what the abstract ledger is about, and no guard of a handler reads it (except
that an application number is fresh). `blind` is history as well: the users for whom a
submission skipped the limit because the query of the total raised, or left a cached
total behind because its DEL failed or its worker died before it. A user's account exists from the start
(the code creates it on first use). Application numbers are unique, and one
day passes, so the daily total is the sum over all applications of the user.
The fee tiers are abstracted to a set `Fees`; a fee above the amount is allowed
by the code as well, which is why `withdrawn` is an integer and not a natural
number in `TypeOK`.

### 2.2 CommissionSettlement

A handler reads (one snapshot, with ORM objects that stay as loaded since
sessions are made with `expire_on_commit=False`), and then writes in one
transaction under `SELECT ... FOR UPDATE` of the account row. `job[w]` keeps
what was read: the amount, the status of the flow (`seen`), and for the B07-1 /
B05-6 deduction the account object (`read`), which the row-locking query returns
unrefreshed.

* A scheduled task lists a page and then walks through it. In the model the list
  and the check of one order are a single read, the last moment at which they
  can agree: what a later order of the page reads again is at most as stale, and
  flows are only appended. A status that another handler changes between
  listing and re-reading is covered by the endpoint form of the same operation,
  whose guard is weaker.
* `TaskLocksHold` is the assumption that a task ends before its
  `scheduler:{task}` lock expires (300 s for a page of 200).
* The operation lock of B12 (60 s) is assumed to outlast one operation. A task
  reads before it takes it (`FreezeBegin`, then `OpLock`); an endpoint reads
  under it.
* PENDING stands for orders that are not settlable yet (FROZEN among them);
  INVALID orders are not settled and not modelled. `OrderSync` sets any status,
  back as well as forward: the channel's word is stored unconditionally
  (`OrderStatus` says where it comes from). Liveness is therefore stated for an
  order that stays settled or refunded.
* `DeductValid` is `pre_validate_deduct`, which the deduction and the records of
  B07-1 go through first.
* Withdrawals appear as the three movements of `WithdrawFlow` on the same
  account, with `held` and `out` kept apart from `frozen` as history.
* `mark_paid` works on the order's first settlement. The B12 breaker can only
  refuse a call and is left out: not starting an operation is allowed anyway.
* `MaxFlows` bounds the ORDER flows of one order.

`Callers` names the tasks and endpoints in use. No caller is wrong by itself;
which of them may run together is what the runs and the theorems are about.

The two settlement tasks, the two deductions and the endpoints share no lock and
run beside one another in production. `Racing(kind, o)` says that two workers
have both passed the check for a credit (or a deduction) of `o` and neither has
written. The order may then be credited or deducted twice; `SecondCreditHasCause`
and `SecondDeductionHasCause` say that nothing else leads to that: in a behaviour
without such a moment there is no second flow.

### 2.3 SchedulerLease

| Action | Code |
|---|---|
| `Start` | `lifespan` up to `yield`: one `acquire_lock("scheduler:leader")`; with it the scheduler, its tasks and the renewal coroutine start, without it the worker never tries again |
| `Shutdown`, `Crash` | `lifespan` after `yield`: the renewal is cancelled, running tasks are not waited for (`wait=False`), the leader lease is released; a process that just dies |
| `RenewRead`, `RenewSet`, `RenewExpire` | `_renew_scheduler_leader` and `renew_lock`: GET and compare, SET whatever the key holds by now, EXPIRE with a jittered time |
| `TaskStart`, `TaskEnd` | `_run_with_lock`: the lease of the task, its body, and the `finally` that releases it if the owner is still the same |
| `Tick` | time: Redis drops keys, expiries in values come closer |

The acquire script writes `owner:expiry` with the expiry one second after the
key's time to live, and takes a key that is absent or whose expiry has passed.
Both expiries are kept as what is left of them (`left`, `ttl`), which is why
time needs no counter and the state space is finite. An owner is a fresh uuid;
in the model it is the worker while a coroutine of that worker knows it, and
`Gone` after that. The client retries a command that timed out
(`retry_on_timeout`), so an acquire that was executed can be answered with a
failure: the lease then belongs to `Gone` from the start. One clock stands for
those of the workers and of Redis.

`missed` is a history variable: the workers with a renewal that failed, came
late, or overwrote or was overwritten by another's. It is what a second
scheduler is blamed on, and it is reset when the worker starts again. `MaxRun`
bounds how long a task runs; with `MaxRun < TaskTTL` the run shows what
`TaskLocksHold` assumes in `CommissionSettlement`.

Not modelled: the self-renewing context manager `LockUtil.acquire`, the wait of
up to 5 s before a task is skipped (being skipped and starting later are both
allowed), the conflict counter, pausing tasks.

### 2.4 CircuitBreaker, OrderPull

The breaker's keys are its state, the failure count and the time it was opened,
of which only `ripe` (the recovery time has passed) is kept. `Failed`,
`Succeeded` and `Probed` are what `record_failure`, `record_success` and
`get_state` do to them; each is a few commands in the code, taken as one here.

An order is created per unit of time, so a window `(from, to]` is a set of
orders.

| Action | Code |
|---|---|
| `Begin` | `pull_channel_orders`: breaker, cursor (or a lookback when it is absent or its GET fails), the windows up to now |
| `Call`, `Answer`, `CallFails` | the adapter behind its breaker: refused (answered with no orders), the first page, or an exception and the next attempt |
| `Queue`, `Pop` | `_push_failed_queue`, and `manual_retry_failed` with its RPOP |
| `Sort`, `Check`, `Insert` | `_persist_orders`, `batch_upsert_orders`: two looks for duplicates, one commit, or one by one |
| `Save` | the cursor after a window, whoever else has moved it since |
| `SyncFrom` | `manual_sync_channel` sets the cursor and runs the same code |
| `Crash`, `CursorExpires`, `QueueExpires`, `BreakerRipens`, `BreakerExpires`, `OtherCall` | a worker dies, Redis drops keys, the channel's other callers report to the breaker |

`dropped` is a history variable: the orders a run gave up, or whose windows somebody
set the cursor past, for one of the reasons `LossHasCause` names. A failed write is logged;
a page that was full, an open breaker's empty answer and a cursor that was set ahead
are not even that. The start of a `/sync` is any time, also a future one, which holds
the job back until then. Left out: attribution to users, pagination beyond the
first page (the code asks for one), several channels (they share nothing), the
back-off between attempts.

### 2.5 OrderStatus

One order. `channel` is its status at the channel, `status` the row. `SyncPull`,
`SyncPersist` and `SyncInsert` are a pull of it (`_map_channel_status`,
`_persist_orders`, `batch_upsert_orders`); `EditRead` is the check of either
`transition_order_status`, with the table of each service; `CloseRead` the
SELECT of `close_expired_unpaid_orders`; `Write` the UPDATE that all of them end
in, and `Invalidate` the DEL after it. The fifth writer is
`execute_refund_deduction`: `RefundCheck` is its validation on a refunded order,
`RefundLoad` the second load of it, which decides whether the ORM sends an UPDATE
(when the order stopped being REFUNDED in between) or leaves the row alone. `ReadMiss`, `Fill`, `Expire` are
`get_order_detail_cached`. `Unmapped` holds channel statuses that the code's map
does not know; there are such (see the deviations). `leaked` is history: the
EXPIRE after a SET was lost, so that nothing but a DEL ends the entry.

### 2.6 ReverseCommission

| Action | Code |
|---|---|
| `Identify`, `CreateRecord` | `identify_refund_orders`: refunded orders with a flow and without a record |
| `List`, `Load` | `batch_execute`'s two lists; execute and retry of one record |
| `MarkFrozen`, `Deduct`, `DeductStep` | `update_status(FROZEN)` and `execute_refund_deduction`, step by step as in `CommissionSettlement` |
| `Close`, `Fail` | CLAWBACK_DONE, or one retry more than the number that was loaded |
| `AdjustRead`, `AdjustWrite` | `adjust_commission` |
| `Die` | the process dies between any two of these |
| `Elsewhere` | freezes, unfreezes, withdrawals and status changes of `CommissionSettlement` |

A worker keeps the record as it read it, because its session never refreshes it.
The retry counter is written from the number that was loaded: `MaxRetry` bounds the
counter and not the attempts, which workers that try a record together make more of.
`voided` and `overlap` are history: a reversal marked the PENDING flow FAILED;
two workers were deducting the order at the same time.

### 2.7 Reconciliation

`Begin` to `Succeed` are a run of either service, `Fail`, `Pick` and `Mark` its
exception handler, `ReviewRead` and `ReviewWrite` the review of a difference.
What the books say is left open: a run may find differences or none, and one
difference stands for all of its run. Creation of the record, the differences
and the result are commits of their own. `LocksHold` says that a run ends within
the 600 s of its lock. Statistics and alerts are left out.

### 2.8 AccountLedger

`Register` is the plain query of `get_or_create_by_user_id` (registration and order
endpoint), `Lock` the query that locks the row, of which a settlement, a B12 freeze and a
manual credit create it when there is none (`Creators`), `Create` the INSERT. `Movements`
are what is ever committed to the account, by its effect in units of one (`Delta`):
settlement, B12 freeze, setting aside and giving back (B08-1's manual freeze and
unfreeze, B12's unfreeze, a submission, a rejection), the two refund deductions and the
payout. `Write` commits the balances that change, computed from the object at hand,
together with the flow. The deduction of B05-6 and B07-1 ("reverse") has loaded the account
before (`ReadAccount`), and the locking query hands it that object unrefreshed
(`LockLate`); `stale` is history: one was written over a row that had changed since
(`Outdated`). A manual credit or debit passes `after_frozen`, which is defined nowhere,
to its flow (`b08_1_account_service.py:227`, `:330`): it raises, is rolled back and
reported as failed. What a credit leaves is the empty row it has created, a debit
nothing. `ReadMiss`, `Fill`,
`Expire`, `Invalidate` are the cached read. The module also models what MySQL does
(a locking read that finds nothing locks the gap; of two inserts into a gap both
hold, one is rolled back), since the code relies on it.

## 3. Runs

| Run | Expect | Shows |
|---|---|---|
| `WithdrawFlow_safety` | pass | with leases that outlast handlers, all faults and crashes: `TypeOK`; an open application's own money is set aside (`OpenIsHeld`); nothing is released or paid twice (`MovedOnce`, the sums of `WithdrawLedger`) or against the outcome (`OutcomeMatchesMoney`); the daily limit holds through the cache unless a sum query or a DEL failed (`DailyLimitRespected`); outcomes are final; refinement of `WithdrawLedger` (`LedgerSpec`) |
| `WithdrawFlow_quiet` | pass | without failures: frozen is exactly the open applications when all handlers have returned (`QuiescentExact`) |
| `WithdrawFlow_hostile` | pass | leases that expire under their holder, crashes, faults and B13: balances still add up (`Conservation`); an application that an administrator keeps trying to decide does not stay PENDING, although workers die with its lock in hand (`PendingIsDecided`) |
| `CommissionSettlement_b07` | pass | the B07 tasks, their endpoints and the B07-1 endpoint at once, without a common lock: an order is credited or deducted a second time only when two handlers had both checked it before either wrote (`SecondCreditHasCause`, `SecondDeductionHasCause`); an order that stays settled is paid, one that stays refunded is deducted |
| `CommissionSettlement_b12` | pass | freeze endpoints in contention, the unfreeze task, mark_paid, the refund task, crashes: `Balanced`; flows explain available and frozen (`FlowsMatchAccount`); refinement of `CommissionPromise` (`PromiseSpec`) |
| `CommissionSettlement_two_tasks` | violation of `CreditedOnce` | B07 and B05-7 settle the same order |
| `ReverseCommission_admin` | pass | the task and the unlocked endpoints among freezes, withdrawals, status changes and a death: only credited money is deducted unless two reversals overlap; a record is closed only after a reversal; a refunded order is reversed, or its record shows a failed attempt or an admin's decision |
| `SchedulerLease_faulty` | pass | failing commands, late renewals, crashes and restarts: a task runs in one worker at a time; two schedulers need a missed renewal; a lease without an owner does not stay |
| `OrderPull_faulty` | pass | the job, `/sync` and `/retry` with failures of every kind: an order behind the cursor is stored or was given up for a named cause (`LossHasCause`); every order is stored or dropped in the end (`OrdersArrive`) |
| `OrderStatus_races` | pass | five kinds of writers: a step that no table has comes from the channel or from a writer that had read another status (`IllegalHasCause`); the cache converges; an order pulled again and again takes over the channel's status |
| `Reconciliation_faulty` | pass | results and reviews stand, but for the named races (`DecisionsStand`); a date that is attempted again and again gets a result |
| `AccountLedger_faulty` | pass | every creator and movement of an account, with failures: flows explain the balances, but for what a reversal overwrites from an outdated object (`FlowsExplainBalances`); a second row needs a plain get_or_create (`SecondRowHasCause`); the cached balance converges |

Bounds. One user (contention is within an account, and no handler touches two)
and two workers (every hazard is a race of two handlers).

* `WithdrawFlow`, `CommissionSettlement`: two applications or orders (the second
  one's frozen money is what a double release consumes, so one would hide it),
  one to three amounts, `MaxFlows = 2` (a second flow is the error).
  `CommissionSettlement_b07` has one order, since its properties speak of orders one by
  one; a withdrawal of 1 stands for the other movements of the account.
  `WithdrawFlow_hostile` has one application: two add nothing that its two
  properties tell apart.
* `ReverseCommission`: one order, since records are independent but for the
  account, which `Others` fills with what other orders earned; `MaxRetry = 1`
  and one crash. The withdrawal is of 2, the whole of it, so that a deduction
  can overdraw.
* `SchedulerLease`: one task, `LeaderTTL = 5`, the least with a jitter of one and
  a renewal at half of it; `TaskTTL = 2` and `MaxRun = 1`, so that a task can use
  up all but the last unit of its lease. Three workers give nothing new.
* `OrderPull`: two orders, windows of one unit and two windows a run, so that a
  run has a window to reach and one to leave behind; `MaxRetry = 2`,
  `Threshold = 3`, `MaxFaults = 3`: enough to open the breaker, and for two
  different failures to meet. `/sync` counts as a fault, to bound it.
* `OrderStatus`: one failure, two edits by admins, any number of pulls, closes
  and reads. `Reconciliation`: two records, one failure, two reviews, a breaker
  that opens at once (a rejected run feeds it again); a run that would need a third
  record stops there, and `DateIsReconciled` excludes it by name. `AccountLedger`: five
  operations, two failures (a lost DEL and something after it).

`CHECK_DEADLOCK FALSE` is set where the system may stop: for `CommissionSettlement` and
`ReverseCommission` once every order has its flows, for `OrderStatus`,
`Reconciliation` and `AccountLedger` once the bounds on failures and operations
are used up.

Fairness. Everywhere: a worker that is alive goes on (`WF` of its handler step; the
event loop runs every ready coroutine), and times to live run out. No fairness on
requests, failures or crashes. Beyond that:

* `WithdrawFlow_hostile` (`RetrySpec`): an administrator whom a busy lock or a failure has
  refused tries to reject the application again (`SF`, because the lock comes and goes).
* `CommissionSettlement`: each task gets to each order that stays listed (`SF`,
  because another order may hold the task in between): the scheduler runs the
  task every 15 minutes and a round walks its whole page. This assumes a backlog
  of at most one page; beyond it, orders that always fail can keep others off
  the page (a listed hazard).
* `ReverseCommission`: the job is started again and again although workers may be
  busy (`SF`).
* `OrderPull`: the schedule begins the job again (`WF`), and the breaker's
  recovery time passes.
* `Reconciliation`: now and then the recovery time passes between two attempts
  (`SF`). A rejected attempt counts as a failure and starts that time anew, so
  without this a date could be attempted for ever and never be let through.
* `SchedulerLease`: time goes on and a task ends (its bound `MaxRun` would stop
  the clock otherwise); no fairness on renewals or starts. There is no liveness to
  state about having a scheduler at all: nobody is elected after a leader has
  died until some worker starts.

### Known deviations

Under other settings of the constants the same properties fail; the passing runs
and theorems exclude them by assumption. To reproduce one, change the constant in
the cfg and check the property.

| Setting | Fails | Because |
|---|---|---|
| `WithdrawFlow_quiet`, `AdminOps = {"b13_reject"}` | `QuiescentExact` | B13's rejection changes the status and leaves the money frozen (`b13_withdraw_admin_service.py:195`) |
| `WithdrawFlow_safety`, `LeaseHolds = FALSE` | `MovedOnce` | a lease expires during a rejection; a second rejection passes the check and the amount is returned twice |
| the same, `AdminOps = {"b13_approve"}` | `OutcomeIsFinal` | B13 overwrites the status that it read before a rejection |
| `CommissionSettlement_b12`, `Callers = {"freeze_one", "settle_one"}` | `CreditedOnce` | the endpoint stops only at a SUCCESS flow, and a frozen order's flow is PENDING |
| the same, `Callers = {"freeze_one", "refund_one"}` | `FlowsMatchAccount` | the PENDING branch of a refund leaves frozen and total as they are; and the same endpoint called once more deducts money that was never credited (`commission_settlement_service.py:324`, `:372`) |
| the same, `Callers = {"freeze_one", "unfreeze_b12", "unfreeze_one"}` | `FlowsMatchAccount` | the task acts on the settlement object it listed before it took the operation lock |
| the same, `Callers = {"settle_b07", "reverse_b07_1"}` | `Balanced` | the deduction of B07-1 overwrites a movement committed since it loaded the account |

Other properties name the exception in their own statement. What the code does there:

* Withdrawals. The cached daily total is not invalidated by a rejection, so a user
  can be refused for money that no longer counts. A total whose DEL fails
  (`common/redis_client.py:119`) outlives the submission, and a failed sum query skips the
  check: either way a user can exceed the limit. A crash between `setnx` and
  `expire`, or an `expire` whose failure is only logged, leaves a resubmission key
  without a time to live.
* Settlement. The tasks and endpoints of one kind look at an order's flows before their
  transaction and share no lock, so two at once credit or deduct it twice
  (`commission_settlement_service.py:189`, `:362`). A frozen order that is then settled
  gets a second ORDER flow without any race.
* Scheduler. A renewal that fails ends the renewal and not the scheduler
  (`main.py:107`), so a second worker that starts later schedules as well.
* Order pull. An order is passed without being stored when an open breaker answers
  "no orders" (`cps/circuit_breaker_adapter.py:139`, `order_sync_service.py:237`),
  when a window has more orders than the page of 100 that is asked for, when a
  write of the batch fails, when `/sync` or a failed GET moves the cursor ahead.
* Order status. The miaoyouquan adapter yields statuses that `_map_channel_status`
  does not know ("已收货", "已失效"): a new order is then stored as PENDING and closed
  as INVALID later. A status that changes after the first pull follows only when a
  window is pulled again through `/sync`. A pull leaves terminal states.
* Reverse commission. Two overlapping reversals can void a PENDING flow and then
  deduct money that was never credited. A view of the flow that is out of date
  voids one that was credited meanwhile. ADJUSTED is overwritten by a batch that
  had loaded the record before. A failed record stays FROZEN: the list of
  retryable records asks for FAILED, which nothing writes. A crash after the deduction leaves FROZEN too, and
  retrying it by endpoint fails the validation. Unfreezing after a reversal pays
  the voided commission out.
* Reconciliation. B13's failure handler calls `list_with_filters` with a parameter
  the DAO does not take; the error is swallowed and the record stays RUNNING.
  B17's handler marks the newest RUNNING record, whichever service made it. A
  run rejected by the breaker counts as a failure of it.
* Account. With no unique index on the user, a registration's get_or_create can
  insert a second row, after which every query for one raises. `get_or_create_by_user_id`
  does not remove the cached marker that there is no account. A reversal that was
  overtaken between its read and its lock writes available and total from the outdated
  object (`refund_deduction_service.py:169`), and what was committed to them meanwhile is lost.
  Every manual credit, and every manual debit that the balance covers, raises `NameError`
  (`b08_1_account_service.py:227`, `:330`) and is answered as failed. A manual unfreeze
  can release a withdrawal's money.

## 4. Proofs

`tlapm` checks the modules named `...Proofs` and `SumTheorems`. The constants are
arbitrary within the assumptions that their modules name: any number of workers,
users, applications, orders, failures and crashes. The applications and the
orders are finitely many (`IsFiniteSet`), because sums are taken over them;
`ReverseCommission` follows one of the orders, so there is one (`Orders # {}`).
Every safety invariant and every safety action property that a run checks has a
theorem. Where a theorem assumes something about who runs, the known deviations
above show that it fails without.

`WithdrawFlowProofs`:

| Theorem | Property | Assumes |
|---|---|---|
| `TypeCorrect` | `TypeOK` | nothing |
| `MoneyConserved` | `Conservation` | nothing: also with expired leases and B13 |
| `OpenAlwaysHeld`, `OutcomeAlwaysMatches`, `MutualExclusion`, `FinalOutcome`, `ImplementsLedger`, `MoneyMovedOnce` | `OpenIsHeld`, `OutcomeMatchesMoney`, `OneHandlerPerLock`, `OutcomeIsFinal`, `LedgerSpec`, `MovedOnce` | `LeaseHolds`, no B13 |
| `QuietIsExact` | `QuiescentExact` | the same, no failures, no crashes |
| `LimitRespected` | `DailyLimitRespected` | `LeaseHolds`, no B13; any failures and crashes |
| `KeyHasTTL` | `SubmitKeyHasTTL` | no crashes, `expire` does not fail |

The inductive invariant is `TypeOK /\ Safe` with `Safe == OpenIsHeld /\
OutcomeMatchesMoney /\ HandlerInv`. None of the three is inductive alone: that a
review's money is still held when it moves it follows from the lock it holds,
from the row having the status and amounts it read, and from nobody else working
on that row; that a new application is covered follows from the submission
having deducted under a number no other submission uses. `HandlerInv` says that,
step by step (`LocksAreHeld`, `FreshDistinct`, `SubmitInv`, `ReviewInv`). The
refinement follows by one lemma per handler step: a commit of `adjust_balance` is
`Hold`, `Refund` or `Pay`, anything else a stutter.

`MoneyMovedOnce` follows from the same lemmas: each of the three movements changes
one application's term of the sum and the account by the same amount.
`QuietIsExact` adds `HeldIsCovered`: money is held only for an open application,
for a submission that is about to create it, or for a review that has written
the outcome and is about to move it; when nobody is at work only the first is
left. `LimitRespected` rests on `LimitInv`: from its look at the total to the row
it writes, a submission holds the user's lock, so what it checked stays true, and
a cached total that is too small belongs to a submission about to drop it, or to a user
who is `blind` because a failed DEL or a crash has left it behind.

`CommissionSettlementProofs`, about `CommissionSettlement`:

| Theorem | Property | Assumes |
|---|---|---|
| `TypeCorrect` | `TypeOK` | nothing |
| `AccountsBalance` | `Balanced` | the two callers of the B07-1 / B05-6 deduction are not in use |
| `SecondDeductionIsCaused` | `SecondDeductionHasCause` | nothing: any callers at once, locks that expire, crashes |
| `SecondCreditIsCaused` | `SecondCreditHasCause` | nothing |
| `ImplementsPromise` | `PromiseSpec` | `OneCallerEach` |
| `FlowsAlwaysMatch` | `FlowsMatchAccount` | `OneCallerEach` |

`TypeCorrect` needs that an unfreeze or a deduction finds the flow it was told
about (flows are only appended, settlements keep their flow index).
The two theorems about races say, for each order: if two workers never have checked
it at the same time, there is no second flow. Under that hypothesis a worker that has
checked an order still finds it as it was (`DeductedFirst`, `CreditedFirst`),
because whoever writes is the only one that has checked. For credits the flows that
B12 writes are the exception, and they come with a settlement record that is never
removed.

`OneCallerEach` says which callers keep the promise together: task locks hold,
each operation has one way in (settle and refund by the B07 tasks, freeze and
mark_paid by endpoint, unfreeze by the B12 task), and orders are credited either
by settling or by freezing, not by both. Workers may run the endpoints at the
same time as often as they like, and crash anywhere. The invariant is `ChainInv`:

* `ChainRows`: the rows of an order have one of the few shapes that the
  operations leave (`Fresh`, `Held`, `Credited`, with or without a deduction), and
  what each worker read still fits the shape its order has by now (`ChainJob`);
  two freezes of one order are never under way together, because the endpoint
  reads under the order's operation lock (`FreezeAlone`);
* `OneRunnerEach`: each task runs in one worker.

TLC checked it on the instance of `CommissionSettlement_b12` and on one with the B07
settlement before it was proved. With it, each write is one step of
`CommissionPromise` on one order, or a stutter. `FlowsAlwaysMatch` is then an
argument about the abstract specification, with `StagesMatch`: each of its steps
changes an order's stage and the account by the same amount, so the accounts are
the sums over the stages, and in every shape the flows of an order sum up to what
its stage says (`ShapeSums`).

About `ReverseCommission`:

| Theorem | Property | Assumes |
|---|---|---|
| `RecordsTyped` | `RTypeOK` | nothing |
| `DoneAlwaysClawed` | `DoneIsClawedBack` | nothing |
| `OnlyCreditsAreDeducted` | `OnlyCreditedDeducted` | no refund endpoint or task runs beside B07-1 |

`DoneAlwaysClawed` strengthens to `ClawInv`: a worker about to close a record has
clawed its order back, and a flow that was deducted or voided stays so.
`OnlyCreditsAreDeducted` strengthens to `CreditInv`: as long as no two reversals
have overlapped, a deducting worker is alone and what it has in hand is what the
flow says. The assumption is needed: with `refund_one` among the callers TLC
finds a deduction of what the endpoint voided a moment before.

`SchedulerLeaseProofs`:

| Theorem | Property | Assumes |
|---|---|---|
| `TypeCorrect` | `TypeOK` | nothing |
| `SingleRun` | `OneRunPerTask` | `MaxRun < TaskTTL` |
| `SingleScheduler` | `OneScheduler` | nothing |

`SingleRun` strengthens to `RunInv`: a running task owns its lease, and what is
left of both expiries, added to how long it has run, is at least the lease's
length. `SingleScheduler` strengthens to `LeaderInv`: a scheduling worker that
missed nothing owns the leader lease, and each expiry outlasts the next step of
its renewal. The arithmetic behind it is `RenewalInTime`: the shortest jittered
time to live is longer than the sleep, for every length of the lease.

`OrderPullProofs`, `OrderStatusProofs`, `ReconciliationProofs`, `AccountLedgerProofs`,
none of which assumes anything beyond the constants' types:

| Theorem | Property |
|---|---|
| `TypeCorrect` (one in each) | `TypeOK` |
| `LossIsCaused` (`OrderPull`) | `LossHasCause` |
| `IllegalIsCaused` (`OrderStatus`) | `IllegalHasCause` |
| `DecisionsAlwaysStand` (`Reconciliation`) | `DecisionsStand` |
| `FlowsAlwaysExplain` (`AccountLedger`) | `FlowsExplainBalances` |
| `SecondRowIsRegistered` (`AccountLedger`) | `SecondRowHasCause` |

`LossIsCaused` strengthens to `LossInv`. `LossHasCause` speaks of the cursor, which
says nothing of the orders that a run still has in hand, so each run is described
too (`CoversRun`): what it has left behind since its start is stored or was
dropped, and so is its window once it was answered, but for what the run holds.
Runs that go on side by side and move each other's cursor do not disturb this.
`IllegalIsCaused` strengthens `TypeOK` to `JobsDecided`: a writer other than the
synchronisation holds a target that its table has for the status it read.
`DecisionsAlwaysStand` rests on `OwnRecords`: no two runs work on one record, a
run's record is RUNNING or FAILED until it writes its result, and a reviewer
holds a difference as it was undecided. `FlowsAlwaysExplain` rests on the row lock
(`OneWriter`) and on `SeesRow`: who has locked the row computes from what it holds,
unless a reversal went stale; available and total are then out of its claim. `SecondRowIsRegistered` rests on `GapIsEmpty`:
while a gap is held no row is inserted, and of two holders neither inserts.

`SumTheorems` has the lemmas about `SumFunctionOnSet` that the proofs about money
cite. Its definition is a fold, and induction theorems that take an
operator are out of the provers' reach; the sum of a finite set is therefore
shown to be an integer, to be zero, or to change with one element (`SumChange`)
by looking at a smallest set for which it fails (`SmallestSubset`).

Proved, but stated by no run: `OneHandlerPerLock` and `SubmitKeyHasTTL`, as the
runs check what follows from them.

Only model-checked: liveness (`PendingIsDecided`, `SettledIsPaid`, `RefundIsDeducted`,
`LeasesDrain`, `RefundIsReversed`, `OrdersArrive`, `FollowsChannel`,
`DateIsReconciled`, both `CacheConverges`), which needs ENABLED. A theorem with
hypotheses says nothing of the settings that they exclude; the runs of section 3 are
within them.

## 5. Plan

Done: withdrawals, settlement and the leases its tasks rely on; the orders that
feed settlement, their reversal, the account under both, and reconciliation; the
theorems on their safety. Next:

1. `ImplementsPromise` for more callers: freezing by the B12 task, and unfreezing by
   endpoint alone.
2. The theorems on withdrawals with B13 in use, for the applications that it did
   not touch.
3. A module for the page of a batch task (starvation behind orders that fail).
4. Pure operators for the fee tiers and the commission split.

### Not modelled

* `WithdrawReviewService` with its WeChat transfer, and `UserCommissionService`:
  nothing in the application calls them.
* The rule engine's numbers and the fee tiers: any commission and fee of a set
  stands for them.
* Goods cache and bloom filter: no effect on money, and its SET and EXPIRE are
  those of the two caches that are modelled.
* Membership, admin authentication, RBAC, configuration, audit, messages,
  dashboards, short links: CRUD and reports around the database, with no protocol
  between actors. They are the larger part of the backend's lines.
* Formats, signatures and parsing of the channel adapters; the front ends.
