-------------------------- MODULE ReverseCommission --------------------------
(***************************************************************************)
(* B07-1: a record per refunded order drives its deduction.  The task      *)
(* scans for refunded orders, creates a record (IDENTIFIED), lists the     *)
(* records and executes them (FROZEN, then CLAWBACK_DONE, or a retry more); *)
(* admin endpoints do each of these on their own, without the task's lock. *)
(* The deduction is the "reverse" operation of CommissionSettlement, whose *)
(* other operations go on around it.                                       *)
(*                                                                         *)
(* A worker keeps the record it has read: the session never refreshes it,  *)
(* so an update writes what the worker believes.  One of the orders is     *)
(* followed; Others is what the rest have earned the users.                *)
(***************************************************************************)
EXTENDS CommissionSettlement

CONSTANTS
    Others,      \* what the users' other orders have earned them
    MaxRetry,    \* MAX_RETRY_COUNT
    MaxCrashes   \* bound on how many workers die

ASSUME ReverseAssumption ==
    /\ Orders # {}
    /\ Others \in Nat /\ MaxRetry \in Nat \ {0} /\ MaxCrashes \in Nat

VARIABLES
    record,    \* reverse_commission_record rows, oldest first
    task,      \* the B07-1 code each worker is in
    crashes,
    voided,    \* history: a reversal has marked the order's flow FAILED
    overlap    \* history: two workers have deducted the order at the same time

commission == <<order, orderFlows, deductFlows, settlement, account, job>>
allVars == <<order, orderFlows, deductFlows, settlement, account, job,
             record, task, crashes, voided, overlap>>

-----------------------------------------------------------------------------
RefundedOrder == CHOOSE o \in Orders : TRUE
Job == "reverse_b07_1"

NoTask == [pc |-> "idle", caller |-> None, todo |-> {}, rec |-> 0,
           status |-> None, retries |-> 0]

RInit ==
    /\ order \in [Orders -> [status : {"PENDING"}, commission : Commissions]]
    /\ orderFlows = [o \in Orders |-> <<>>]
    /\ deductFlows = [o \in Orders |-> <<>>]
    /\ settlement = [o \in Orders |-> <<>>]
    /\ account = [u \in Users |-> [Promised!ZeroAccount EXCEPT !.available = Others,
                                                              !.total = Others]]
    /\ job = [w \in Workers |-> Idle]
    /\ record = <<>>
    /\ task = [w \in Workers |-> NoTask]
    /\ crashes = 0 /\ voided = FALSE /\ overlap = FALSE

Free(w) == task[w] = NoTask /\ job[w] = Idle

(* _run_with_lock of the job; the endpoints take no lock. *)
MayRun(w, c) ==
    /\ Free(w)
    /\ c = Job => \A v \in Workers : task[v].caller # Job

Step(w, pc) == task' = [task EXCEPT ![w].pc = pc]
Own(w, c, pc, todo, r, status, retries) ==
    task' = [task EXCEPT ![w] = [pc |-> pc, caller |-> c, todo |-> todo, rec |-> r,
                                 status |-> status, retries |-> retries]]

(* The first of the listed records, as it was when it was listed. *)
Execute(w, c, todo) ==
    IF todo = {} THEN task' = [task EXCEPT ![w] = NoTask]
    ELSE Own(w, c, "mark", todo \ {Min(todo)}, Min(todo), "IDENTIFIED", 0)

-----------------------------------------------------------------------------
(* identify_refund_orders: the order is refunded and has no record. *)
Identifiable ==
    /\ order[RefundedOrder].status = "REFUNDED"
    /\ order[RefundedOrder].commission > 0
    /\ orderFlows[RefundedOrder] # <<>>
    /\ record = <<>>

Identify(w, c) ==
    /\ c \in {Job, "identify"} /\ MayRun(w, c)
    /\ Identifiable
    /\ Own(w, c, "create", {}, 0, None, 0)
    /\ UNCHANGED <<commission, record, crashes, voided, overlap>>

(* The record is created whether or not there is one by now; the task goes *)
(* on to its second half.                                                  *)
CreateRecord(w) ==
    /\ task[w].pc = "create"
    /\ record' = Append(record, [status |-> "IDENTIFIED", retries |-> 0])
    /\ IF task[w].caller = Job THEN Step(w, "list")
       ELSE task' = [task EXCEPT ![w] = NoTask]
    /\ UNCHANGED <<commission, crashes, voided, overlap>>

(* MUTANT of Listed: the batch takes the failed records alone. *)
ListedFailed == {r \in DOMAIN record : record[r].status = "FAILED"}

(* batch_execute: the IDENTIFIED records and the retryable ones, FAILED    *)
(* below the limit.                                                        *)
Listed ==
    {r \in DOMAIN record :
        \/ record[r].status = "IDENTIFIED"
        \/ record[r].status = "FAILED" /\ record[r].retries < MaxRetry}

List(w, c) ==
    /\ \/ task[w].pc = "list" /\ c = task[w].caller
       \/ c = Job /\ MayRun(w, c) /\ ~Identifiable
       \/ c = "reverse_one" /\ MayRun(w, c)
    /\ task[w].pc = "list" \/ Listed # {}
    /\ Execute(w, c, Listed)
    /\ UNCHANGED <<commission, record, crashes, voided, overlap>>

(* MUTANT of Load: the retry limit is not looked at. *)
LoadUnlimited(w, r) ==
    /\ MayRun(w, "reverse_one")
    /\ record[r].status \notin {"CLAWBACK_DONE", "ADJUSTED"}
    /\ Own(w, "reverse_one", "mark", {}, r, record[r].status, record[r].retries)
    /\ UNCHANGED <<commission, record, crashes, voided, overlap>>

(* execute_reverse_commission of one record (execute and retry endpoints). *)
Load(w, r) ==
    /\ MayRun(w, "reverse_one")
    /\ record[r].status \notin {"CLAWBACK_DONE", "ADJUSTED"}
    /\ record[r].retries < MaxRetry
    /\ Own(w, "reverse_one", "mark", {}, r, record[r].status, record[r].retries)
    /\ UNCHANGED <<commission, record, crashes, voided, overlap>>

(* update_status(FROZEN): no UPDATE is sent for a value that was loaded. *)
MarkFrozen(w) ==
    LET t == task[w] IN
    /\ t.pc = "mark"
    /\ record' = IF t.status = "FROZEN" THEN record
                 ELSE [record EXCEPT ![t.rec].status = "FROZEN"]
    /\ task' = [task EXCEPT ![w].pc = "deduct", ![w].status = None]
    /\ UNCHANGED <<commission, crashes, voided, overlap>>

-----------------------------------------------------------------------------
(* execute_refund_deduction starts, or its validation raises. *)
Deduct(w) ==
    /\ task[w].pc = "deduct"
    /\ \/ /\ Begin(w, task[w].caller, RefundedOrder)
          /\ Step(w, "deducting")
          /\ overlap' = (overlap \/ \E v \in Workers : task[v].pc = "deducting")
       \/ /\ ~DeductValid(RefundedOrder)
          /\ Step(w, "fail")
          /\ UNCHANGED <<commission, overlap>>
    /\ UNCHANGED <<record, crashes, voided>>

(* MUTANT of Outcome: an exception of the deduction is taken for success. *)
OutcomeIgnored(w) == IF job'[w] # Idle THEN "deducting" ELSE "close"

(* A deduction that finds a DEDUCT flow, voids a PENDING one or writes a   *)
(* DEDUCT flow succeeds; one that would overdraw raises.                   *)
Outcome(w) ==
    IF job'[w] # Idle THEN "deducting"
    ELSE IF \/ job[w].pc = "load" \/ job[w].seen = "PENDING"
            \/ deductFlows' # deductFlows THEN "close"
    ELSE "fail"

DeductStep(w) ==
    /\ task[w].pc = "deducting"
    /\ HandlerStep(w)
    /\ voided' = (voided \/ (job[w].pc = "write" /\ job[w].seen = "PENDING"))
    /\ Step(w, Outcome(w))
    /\ UNCHANGED <<record, crashes, overlap>>

(* update_status(CLAWBACK_DONE) *)
Close(w) ==
    LET t == task[w] IN
    /\ t.pc = "close"
    /\ record' = [record EXCEPT ![t.rec].status = "CLAWBACK_DONE"]
    /\ Execute(w, t.caller, t.todo)
    /\ UNCHANGED <<commission, crashes, voided, overlap>>

(* increment_retry: the counter is the one that was loaded, plus one; the  *)
(* status stays FROZEN.                                                    *)
Fail(w) ==
    LET t == task[w] IN
    /\ t.pc = "fail"
    /\ record' = [record EXCEPT ![t.rec].retries = t.retries + 1]
    /\ Execute(w, t.caller, t.todo)
    /\ UNCHANGED <<commission, crashes, voided, overlap>>

(* adjust_commission reads the record and then overwrites its status. *)
AdjustRead(w, r) ==
    /\ MayRun(w, "adjust")
    /\ record[r].status \in {"FAILED", "IDENTIFIED"}
    /\ Own(w, "adjust", "adjust", {}, r, None, 0)
    /\ UNCHANGED <<commission, record, crashes, voided, overlap>>

AdjustWrite(w) ==
    /\ task[w].pc = "adjust"
    /\ record' = [record EXCEPT ![task[w].rec].status = "ADJUSTED"]
    /\ task' = [task EXCEPT ![w] = NoTask]
    /\ UNCHANGED <<commission, crashes, voided, overlap>>

-----------------------------------------------------------------------------
(* The process dies in B07-1 code (elsewhere: Crash of the other module). *)
Die(w) ==
    /\ task[w] # NoTask /\ crashes < MaxCrashes
    /\ crashes' = crashes + 1
    /\ task' = [task EXCEPT ![w] = NoTask]
    /\ Finish(w)
    /\ UNCHANGED <<order, orderFlows, deductFlows, settlement, account, record, voided, overlap>>

(* The other operations of CommissionSettlement. *)
Around == UNCHANGED <<record, task, crashes, voided, overlap>>

Elsewhere ==
    /\ \/ \E s \in OrderStatuses : OrderSync(RefundedOrder, s)
       \/ \E u \in Users : Withdraw(u)
       \/ \E w \in Workers : task[w] = NoTask /\ HandlerStep(w)
       \/ \E w \in Workers, c \in Callers :
             OpOf[c] # "reverse" /\ Free(w) /\ Begin(w, c, RefundedOrder)
    /\ Around

StartJob == \E w \in Workers : Identify(w, Job) \/ List(w, Job)

Continue(w) ==
    \/ CreateRecord(w) \/ (task[w].pc = "list" /\ List(w, task[w].caller))
    \/ MarkFrozen(w) \/ Deduct(w) \/ DeductStep(w)
    \/ Close(w) \/ Fail(w) \/ AdjustWrite(w)

RNext ==
    \/ Elsewhere \/ StartJob
    \/ \E w \in Workers :
          \/ Identify(w, "identify") \/ List(w, "reverse_one")
          \/ \E r \in DOMAIN record : Load(w, r) \/ AdjustRead(w, r)
          \/ Continue(w) \/ Die(w)

(* Handlers go on, and the job runs again and again although the workers   *)
(* may be busy.                                                            *)
RSpec ==
    /\ RInit /\ [][RNext]_allVars
    /\ SF_allVars(StartJob)
    /\ \A w \in Workers : /\ WF_allVars(Continue(w))
                          /\ WF_allVars(task[w] = NoTask /\ HandlerStep(w) /\ Around)

-----------------------------------------------------------------------------
RecordStatuses == {"IDENTIFIED", "FROZEN", "CLAWBACK_DONE", "FAILED", "ADJUSTED"}
Busy(r) == \E w \in Workers : task[w].rec = r \/ r \in task[w].todo

(* No record's counter passes MAX_RETRY_COUNT.  It does not bound the       *)
(* attempts: every worker counts from the number it has loaded, so workers  *)
(* that try a record at the same time are counted once.                    *)
RTypeOK ==
    /\ record \in Seq([status : RecordStatuses, retries : 0 .. MaxRetry])
    /\ task \in [Workers ->
          [pc : {"idle", "create", "list", "mark", "deduct", "deducting", "close",
                 "fail", "adjust"},
           caller : {None, Job, "identify", "reverse_one", "adjust"},
           todo : SUBSET DOMAIN record, rec : DOMAIN record \cup {0},
           status : RecordStatuses \cup {None}, retries : 0 .. MaxRetry]]
    /\ crashes \in 0 .. MaxCrashes /\ voided \in BOOLEAN /\ overlap \in BOOLEAN

(* Only money that was credited to the user is deducted; a flow that was    *)
(* voided while it was PENDING never is, however often the order is        *)
(* reversed - unless two workers deduct it at the same time.               *)
OnlyCreditedDeducted ==
    deductFlows[RefundedOrder] # <<>> => HasSuccess(RefundedOrder) \/ overlap

(* A record is closed as clawed back only when a reversal took effect: the *)
(* order has a DEDUCT flow, or its flow was voided before it was credited. *)
DoneIsClawedBack ==
    (\E r \in DOMAIN record : record[r].status = "CLAWBACK_DONE")
        => deductFlows[RefundedOrder] # <<>> \/ voided

(* A credited order that stays refunded is clawed back, or its record says *)
(* that an attempt failed or an admin decided; only a death loses it.      *)
RefundIsReversed ==
    ([](crashes = 0)
     /\ <>[](order[RefundedOrder].status = "REFUNDED" /\ HasSuccess(RefundedOrder)))
    => <>(\/ deductFlows[RefundedOrder] # <<>> \/ voided
          \/ \E r \in DOMAIN record : record[r].retries > 0 \/ record[r].status = "ADJUSTED")
=============================================================================
