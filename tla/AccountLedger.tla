---------------------------- MODULE AccountLedger ----------------------------
(***************************************************************************)
(* One user's commission account: the row, the flows that explain it, and  *)
(* the cached copy users and the withdrawal check are shown.               *)
(*                                                                         *)
(* The row is created by whoever comes first: the registration and the     *)
(* order endpoint (get_or_create_by_user_id), the settlement DAOs and the  *)
(* manual credit of B08-1.  No unique index keeps a second one out, and a  *)
(* query that finds two raises.  Every movement locks the row with SELECT  *)
(* ... FOR UPDATE, computes the new balances from the object it is given,  *)
(* commits them together with its flow and then deletes the cached copy.   *)
(* The refund deduction of B05-6 has read the row before: its session      *)
(* returns that object from the locking query as well, as it was.          *)
(* A FOR UPDATE locks the gap beside the row as well, or where it would be: *)
(* nobody inserts there until the transaction ends, and of two that both   *)
(* found no row and insert, one is rolled back (InnoDB, REPEATABLE READ).  *)
(***************************************************************************)
EXTENDS Integers, Sequences, FiniteSets

CONSTANTS
    Workers,
    Ops,         \* the operations in use
    Faults,      \* what may fail: a commit, a Redis command, a worker
    MaxFaults,   \* bound on such failures
    MaxOps,      \* bound on the operations that are started
    None

(* The movements of B08-1, of the settlement DAOs, of B05-6 and of the     *)
(* withdrawals, by what they do to the account.  The manual debit is none: *)
(* it raises before it writes (after_frozen is nowhere defined) and is     *)
(* rolled back.  So is the credit, but for the row that it has created.    *)
Movements == {"settle",      \* settle_order_commission_atomic
              "promise",     \* freeze_atomic
              "set_aside",   \* freeze_balance, a withdrawal's hold
              "give_back",   \* unfreeze_balance, unfreeze_atomic, a rejection
              "deduct",      \* deduct_on_refund_atomic
              "reverse",     \* the same, called by execute_refund_deduction
              "payout"}      \* a withdrawal that was paid
Creators  == {"credit", "settle", "promise"}   \* create what they lock

ASSUME LedgerAssumption ==
    /\ Ops \subseteq Movements \cup {"register", "credit"}
    /\ Faults \subseteq {"db", "redis", "crash"}
    /\ MaxFaults \in Nat /\ MaxOps \in Nat

VARIABLES
    rows,      \* user_commission_account rows of the user
    flows,     \* what the flows add up to; a withdrawal's movements write
               \* none and count as flows of their own
    cache,     \* Redis: the balance in the cached copy, and whether it expires
    job,       \* what each worker is executing, and the object it computes from
    stale,     \* history: a reversal wrote what it computed from an
               \* object that was outdated
    leaked,    \* history: an entry was cached and its EXPIRE lost
    faults, ops

vars == <<rows, flows, cache, job, stale, leaked, faults, ops>>

-----------------------------------------------------------------------------
(* What a movement of one unit adds to the balances; "out" is what was     *)
(* withdrawn together with the fees.                                       *)
Balances == {"available", "frozen", "total", "out"}
Zero     == [b \in Balances |-> 0]

Delta(op) ==
    CASE op = "settle"                -> [available |->  1, frozen |->  0, total |->  1, out |-> 0]
      [] op = "promise"               -> [available |->  0, frozen |->  1, total |->  1, out |-> 0]
      [] op = "set_aside"             -> [available |-> -1, frozen |->  1, total |->  0, out |-> 0]
      [] op = "give_back"             -> [available |->  1, frozen |-> -1, total |->  0, out |-> 0]
      [] op \in {"deduct", "reverse"} -> [available |-> -1, frozen |->  0, total |-> -1, out |-> 0]
      [] op = "payout"                -> [available |->  0, frozen |-> -1, total |->  0, out |-> 1]

Uncached  == [val |-> None, expires |-> FALSE]
Idle      == [pc |-> "idle", op |-> None, seen |-> None]

Init ==
    /\ rows = <<>>
    /\ flows = Zero
    /\ cache = Uncached
    /\ job = [w \in Workers |-> Idle]
    /\ stale = FALSE /\ leaked = FALSE /\ faults = 0 /\ ops = 0

Goto(w, pc) == job' = [job EXCEPT ![w].pc = pc]
Finish(w)   == job' = [job EXCEPT ![w] = Idle]
Start(w, pc, op, seen) ==
    /\ job[w] = Idle
    /\ job' = [job EXCEPT ![w] = [pc |-> pc, op |-> op, seen |-> seen]]

Fault(kind) ==
    /\ kind \in Faults /\ faults < MaxFaults
    /\ faults' = faults + 1
Smooth == UNCHANGED faults

(* The row lock, and the gap lock of a FOR UPDATE that found nothing. *)
Unlocked     == \A w \in Workers : job[w].pc # "locked"
HoldsGap(w)  == job[w].pc = "create" /\ job[w].op \in Creators

-----------------------------------------------------------------------------
(* get_or_create_by_user_id of the registration and of the order endpoint: *)
(* a plain query; an existing row, or two, end it.                         *)
Register(w) ==
    /\ "register" \in Ops /\ ops < MaxOps
    /\ rows = <<>>
    /\ Start(w, "create", "register", None)
    /\ ops' = ops + 1
    /\ UNCHANGED <<rows, flows, cache, stale, leaked, faults>>

(* MUTANT of Lock: a plain query that waits for nobody. *)
LockFree(w, op) ==
    /\ op \in Ops \ {"register", "reverse"} /\ ops < MaxOps
    /\ \/ /\ Len(rows) = 1 /\ op \in Movements
          /\ Start(w, "locked", op, rows[1])
       \/ /\ rows = <<>> /\ op \in Creators
          /\ Start(w, "create", op, None)
    /\ ops' = ops + 1
    /\ UNCHANGED <<rows, flows, cache, stale, leaked, faults>>

(* get_for_update: without a row a creator goes on to create it; the other *)
(* movements refuse, and with two rows everybody raises.                   *)
Lock(w, op) ==
    /\ op \in Ops \ {"register", "reverse"} /\ ops < MaxOps
    /\ Unlocked
    /\ \/ /\ Len(rows) = 1 /\ op \in Movements
          /\ Start(w, "locked", op, rows[1])
       \/ /\ rows = <<>> /\ op \in Creators
          /\ Start(w, "create", op, None)
    /\ ops' = ops + 1
    /\ UNCHANGED <<rows, flows, cache, stale, leaked, faults>>

(* execute_refund_deduction reads the row without a lock first ... *)
ReadAccount(w) ==
    /\ "reverse" \in Ops /\ ops < MaxOps
    /\ Len(rows) = 1
    /\ Start(w, "read", "reverse", rows[1])
    /\ ops' = ops + 1
    /\ UNCHANGED <<rows, flows, cache, stale, leaked, faults>>

(* ... and is given the same object by the query that locks it. *)
LockLate(w) ==
    /\ job[w].pc = "read" /\ Unlocked
    /\ IF Len(rows) = 1 THEN Goto(w, "locked") ELSE Finish(w)
    /\ UNCHANGED <<rows, flows, cache, stale, leaked, faults, ops>>

(* MUTANT of MayInsert: a gap does not keep others out. *)
InsertAnyway(w) == TRUE

MayInsert(w) == Unlocked /\ \A v \in Workers \ {w} : ~HoldsGap(v)

(* The INSERT and its commit.  The row of a settlement or of a freeze holds *)
(* what they bring; B08-1's is empty, and nothing follows that is committed. *)
Create(w) ==
    LET moves == job[w].op \in Movements
        row   == IF moves THEN Delta(job[w].op) ELSE Zero IN
    /\ job[w].pc = "create" /\ MayInsert(w)
    /\ \/ /\ Smooth
          /\ rows' = Append(rows, row)
          /\ flows' = [b \in Balances |-> flows[b] + row[b]]
          /\ IF moves THEN Goto(w, "invalidate") ELSE Finish(w)
       \/ Fault("db") /\ Finish(w) /\ UNCHANGED <<rows, flows>>
    /\ UNCHANGED <<cache, stale, leaked, ops>>

(* Two transactions insert into a gap both hold: one is rolled back. *)
Deadlock(w) ==
    /\ HoldsGap(w) /\ \E v \in Workers \ {w} : HoldsGap(v)
    /\ Finish(w)
    /\ UNCHANGED <<rows, flows, cache, stale, leaked, faults, ops>>

-----------------------------------------------------------------------------
(* MUTANT of Enough: only the available balance is looked at. *)
EnoughAvailable(w) == job[w].seen.available + Delta(job[w].op).available >= 0

Enough(w) ==
    \A b \in {"available", "frozen"} : job[w].seen[b] + Delta(job[w].op)[b] >= 0

(* What a reversal is about to overwrite is not what it read. *)
Outdated(w) ==
    job[w].op = "reverse" /\ \E b \in {"available", "total"} : rows[1][b] # job[w].seen[b]

(* The balances that change and the flow are committed together, or the    *)
(* balance does not suffice, or the transaction is rolled back.            *)
Write(w) ==
    LET d == Delta(job[w].op) IN
    /\ job[w].pc = "locked"
    /\ \/ /\ Smooth /\ Enough(w)
          /\ rows' = [rows EXCEPT ![1] = [b \in Balances |->
                         IF d[b] = 0 THEN rows[1][b] ELSE job[w].seen[b] + d[b]]]
          /\ flows' = [b \in Balances |-> flows[b] + d[b]]
          /\ stale' = (stale \/ Outdated(w))
          /\ Goto(w, "invalidate")
       \/ /\ IF Enough(w) THEN Fault("db") ELSE Smooth
          /\ Finish(w)
          /\ UNCHANGED <<rows, flows, stale>>
    /\ UNCHANGED <<cache, leaked, ops>>

(* _invalidate_account_cache; when it fails, the handler goes on. *)
Invalidate(w) ==
    /\ job[w].pc = "invalidate"
    /\ \/ Smooth /\ cache' = Uncached
       \/ Fault("redis") /\ UNCHANGED cache
    /\ Finish(w)
    /\ UNCHANGED <<rows, flows, stale, leaked, ops>>

-----------------------------------------------------------------------------
(* get_account_cached: on a miss the row is read, or that there is none,   *)
(* which is cached as well and shown as a balance of zero.                 *)
ReadMiss(w) ==
    /\ cache.val = None /\ Len(rows) <= 1
    /\ Start(w, "fill", None, IF rows = <<>> THEN Zero ELSE rows[1])
    /\ UNCHANGED <<rows, flows, cache, stale, leaked, faults, ops>>

(* MUTANT of Fill: the entry is set for good. *)
FillForGood(w) ==
    /\ job[w].pc = "fill"
    /\ Smooth /\ cache' = [val |-> job[w].seen.available, expires |-> FALSE]
    /\ Finish(w)
    /\ UNCHANGED <<rows, flows, stale, leaked, ops>>

(* RedisClient.set is a SET ... *)
Fill(w) ==
    /\ job[w].pc = "fill"
    /\ \/ /\ Smooth
          /\ cache' = [val |-> job[w].seen.available, expires |-> FALSE]
          /\ Goto(w, "expire")
       \/ Fault("redis") /\ UNCHANGED cache /\ Finish(w)
    /\ UNCHANGED <<rows, flows, stale, leaked, ops>>

(* ... and an EXPIRE. *)
Expire(w) ==
    /\ job[w].pc = "expire"
    /\ \/ /\ Smooth
          /\ cache' = [cache EXCEPT !.expires = cache.val # None]
          /\ UNCHANGED leaked
       \/ Fault("redis") /\ leaked' = TRUE /\ UNCHANGED cache
    /\ Finish(w)
    /\ UNCHANGED <<rows, flows, stale, ops>>

CacheExpires ==
    /\ cache.expires
    /\ cache' = Uncached
    /\ UNCHANGED <<rows, flows, job, stale, leaked, faults, ops>>

Crash(w) ==
    /\ job[w] # Idle /\ Fault("crash")
    /\ leaked' = (leaked \/ job[w].pc = "expire")
    /\ Finish(w)
    /\ UNCHANGED <<rows, flows, cache, stale, ops>>

-----------------------------------------------------------------------------
Step(w) ==
    \/ Create(w) \/ LockLate(w) \/ Write(w) \/ Invalidate(w) \/ Fill(w) \/ Expire(w)

Next ==
    \/ CacheExpires
    \/ \E w \in Workers :
          \/ Register(w) \/ ReadMiss(w) \/ Step(w) \/ Deadlock(w) \/ Crash(w)
          \/ ReadAccount(w)
          \/ \E op \in Movements \cup {"credit"} : Lock(w, op)

Spec == Init /\ [][Next]_vars

(* Handlers go on, and a time to live runs out. *)
FairSpec ==
    /\ Spec
    /\ WF_vars(CacheExpires)
    /\ \A w \in Workers : WF_vars(Step(w))

-----------------------------------------------------------------------------
(* The total alone may become negative, by what stale reversals lose. *)
Rows == {r \in [Balances -> Int] : \A b \in Balances \ {"total"} : r[b] >= 0}
Jobs == [pc : {"idle", "create", "read", "locked", "invalidate", "fill", "expire"},
         op : Movements \cup {"register", "credit", None},
         seen : Rows \cup {None}]

TypeOK ==
    /\ rows \in Seq(Rows) /\ flows \in [Balances -> Int]
    /\ cache \in [val : Nat \cup {None}, expires : BOOLEAN]
    /\ job \in [Workers -> Jobs]
    /\ stale \in BOOLEAN /\ leaked \in BOOLEAN
    /\ faults \in 0 .. MaxFaults /\ ops \in 0 .. MaxOps

(* The flows explain the balances: whatever fails or dies in between, and  *)
(* even when there are two rows, no movement is lost, done twice or left   *)
(* without its flow.  A reversal that was overtaken between its read and   *)
(* its lock may lose what was committed to the two balances it writes; what *)
(* is frozen and what was paid out are exact even then.                    *)
Sum(b) == IF Len(rows) = 0 THEN 0 ELSE
          rows[1][b] + IF Len(rows) > 1 THEN rows[2][b] ELSE 0
FlowsExplainBalances ==
    Len(rows) <= 2 =>
        \A b \in Balances : (stale => b \in {"frozen", "out"}) => Sum(b) = flows[b]

(* A second row, which makes the account unusable, comes only from a plain *)
(* get_or_create that had found none: two locking creators never make one. *)
SecondRowHasCause ==
    [][Len(rows) > 0 /\ Len(rows') > Len(rows)
       => \E w \in Workers : job[w].pc = "create" /\ job[w].op = "register"
                             /\ job'[w] = Idle]_vars

(* The cached balance agrees with the account once it has come to rest,    *)
(* although readers cache what they read before a commit, DELs are lost    *)
(* and a new account does not remove the marker that there is none -       *)
(* provided no EXPIRE was lost.                                            *)
CacheConverges ==
    (<>[][FALSE]_rows /\ [](~leaked))
        => <>[](cache.val # None /\ Len(rows) = 1 => cache.val = rows[1].available)
=============================================================================
