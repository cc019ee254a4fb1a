------------------------------ MODULE OrderPull ------------------------------
(***************************************************************************)
(* The synchronisation of one channel's orders (order_sync_service.py,     *)
(* order_sync_dao.py): windows of time from a cursor in Redis to the       *)
(* present are pulled through the channel's circuit breaker and stored;    *)
(* after each one the cursor moves to its end.  A window that fails its    *)
(* last attempt is put on a queue in Redis and ends the run.               *)
(*                                                                         *)
(* The scheduled job and the endpoint /sync both run pull_channel_orders   *)
(* and share no lock; the endpoint may set the cursor first.  The endpoint *)
(* /retry takes windows from the queue.  Order o is created at time o and  *)
(* the channel lists it by that time from then on.                         *)
(***************************************************************************)
EXTENDS Integers, Sequences, CircuitBreaker

CONSTANTS
    MaxTime,      \* bound on time; one order is created per unit
    WindowLen,    \* TASK_ORDER_SYNC_WINDOW_MINUTES
    MaxWindows,   \* TASK_ORDER_SYNC_MAX_WINDOWS_PER_RUN
    Lookback,     \* TASK_ORDER_SYNC_INITIAL_LOOKBACK_MINUTES
    MaxRetry,     \* TASK_ORDER_SYNC_MAX_RETRY
    Procs,        \* which of "job", "sync" and "retry" are in use
    Faults,       \* what may go wrong, see FaultKinds
    MaxFaults,    \* bound on how often something goes wrong, or /sync is used
    None

FaultKinds ==
    {"channel",   \* a call to the channel fails
     "page",      \* a window has more orders than the one page asked for
     "others",    \* other calls to the channel (search, conversion) fail
     "store",     \* a database write fails
     "redis",     \* a Redis command fails; RedisClient logs it and goes on
     "crash",     \* a worker dies
     "expiry"}    \* the cursor or the queue reaches its time to live

ASSUME PullAssumption ==
    /\ MaxTime \in Nat /\ Lookback \in Nat /\ MaxFaults \in Nat
    /\ WindowLen \in Nat \ {0} /\ MaxWindows \in Nat \ {0}
    /\ MaxRetry \in Nat \ {0}
    /\ Procs \subseteq {"job", "sync", "retry"} /\ Faults \subseteq FaultKinds
    /\ None \notin Int

VARIABLES
    now,       \* the time
    cursor,    \* Redis: the end of the last window pulled, or None
    breaker,   \* Redis: the channel's circuit breaker
    failed,    \* Redis: the queue of failed windows, oldest first
    stored,    \* rows of orders
    proc,      \* what each process is executing
    dropped,   \* history: orders given up, see LossHasCause
    faults     \* how much has gone wrong

vars == <<now, cursor, breaker, failed, stored, proc, dropped, faults>>

-----------------------------------------------------------------------------
Orders == 1 .. MaxTime
Least(a, b) == IF a < b THEN a ELSE b
Covers(w) == w.from + 1 .. w.to              \* the orders of a window

NoWindow == [from |-> 0, to |-> 0]
Idle == [pc |-> "idle", start |-> 0, until |-> 0, win |-> NoWindow,
         attempt |-> 0, got |-> {}]

(* The first window of what is left of a run (_split_time_windows). *)
Window(from, until) == [from |-> from, to |-> Least(from + WindowLen, until)]

Init ==
    /\ now = 0 /\ cursor = None /\ breaker = Closed /\ failed = <<>>
    /\ stored = {}
    /\ proc = [p \in Procs |-> Idle]
    /\ dropped = {} /\ faults = 0

Goto(p, pc) == proc' = [proc EXCEPT ![p].pc = pc]
End(p)      == proc' = [proc EXCEPT ![p] = Idle]

(* Something goes wrong that the constants allow, and not too often. *)
Fault(kind) ==
    /\ kind \in Faults /\ faults < MaxFaults
    /\ faults' = faults + 1
Smooth == UNCHANGED faults

(* A run that goes on without these orders, and whose cursor will pass     *)
(* them; a retry moves no cursor.                                          *)
Drop(p, orders) ==
    dropped' = IF p = "retry" THEN dropped ELSE dropped \cup orders

-----------------------------------------------------------------------------
(* Time, the channel's other callers, and what they do to the breaker. *)
Tick ==
    /\ now < MaxTime
    /\ now' = now + 1
    /\ UNCHANGED <<cursor, breaker, failed, stored, proc, dropped, faults>>

BreakerRipens ==
    /\ breaker' = Ripened(breaker)
    /\ UNCHANGED <<now, cursor, failed, stored, proc, dropped, faults>>

BreakerExpires ==
    /\ breaker' \in Expired(breaker)
    /\ UNCHANGED <<now, cursor, failed, stored, proc, dropped, faults>>

(* Another call to the channel, let through earlier, returns. *)
OtherCall ==
    /\ \/ Fault("others") /\ breaker' = Failed(breaker)
       \/ Smooth /\ breaker' = Succeeded(breaker)
    /\ UNCHANGED <<now, cursor, failed, stored, proc, dropped>>

(* A key of Redis reaches its time to live. *)
CursorExpires ==
    /\ Fault("expiry") /\ cursor # None
    /\ cursor' = None
    /\ UNCHANGED <<now, breaker, failed, stored, proc, dropped>>

QueueExpires ==
    /\ Fault("expiry") /\ failed # <<>>
    /\ failed' = <<>>
    /\ UNCHANGED <<now, cursor, breaker, stored, proc, dropped>>

-----------------------------------------------------------------------------
(* The cursor is set to "to" by somebody who has pulled from "from" on:    *)
(* what lies between the old cursor and that is never pulled.              *)
MoveCursor(from, to) ==
    /\ cursor' = to
    /\ dropped' = dropped \cup Covers([from |-> IF cursor = None THEN 0 ELSE cursor,
                               to |-> from])

(* manual_sync_channel: the endpoint sets the cursor to the start it is    *)
(* given, which may lie in the future (any later start acts like MaxTime), *)
(* and then runs the job's code.                                           *)
SyncFrom(start) ==
    /\ "sync" \in Procs /\ proc["sync"] = Idle
    /\ faults < MaxFaults /\ faults' = faults + 1
    /\ MoveCursor(start, start)
    /\ Goto("sync", "begin")
    /\ UNCHANGED <<now, breaker, failed, stored>>

(* pull_channel_orders up to its first window.  An open breaker ends the   *)
(* run; without a cursor, or when reading it fails, it starts Lookback     *)
(* before the present; it ends with the present or after MaxWindows.       *)
Begin(p) ==
    /\ p \in {"job", "sync"}
    /\ proc[p].pc = IF p = "job" THEN "idle" ELSE "begin"
    /\ breaker' = Probed(breaker)
    /\ \E known \in BOOLEAN :
          /\ known => cursor # None
          /\ IF known \/ cursor = None THEN Smooth ELSE Fault("redis")
          /\ LET back  == IF now < Lookback THEN 0 ELSE now - Lookback
                 start == IF known THEN cursor ELSE back
                 until == Least(now, start + MaxWindows * WindowLen)
             IN IF Blocks(breaker) \/ start >= now
                THEN End(p)
                ELSE proc' = [proc EXCEPT ![p] =
                        [pc |-> "pull", start |-> start, until |-> until,
                         win |-> Window(start, until), attempt |-> 1, got |-> {}]]
    /\ UNCHANGED <<now, cursor, failed, stored, dropped>>

(* manual_retry_failed: RPOP, then one attempt. *)
Pop ==
    /\ "retry" \in Procs /\ proc["retry"] = Idle
    /\ failed # <<>>
    /\ failed' = Tail(failed)
    /\ proc' = [proc EXCEPT !["retry"] = [Idle EXCEPT !.pc = "pull",
                    !.win = Head(failed), !.attempt = MaxRetry]]
    /\ UNCHANGED <<now, cursor, breaker, stored, dropped, faults>>

(* CircuitBreakerAdapter.pull_order: when the breaker is open it answers   *)
(* with no orders and no exception.                                        *)
Call(p) ==
    /\ proc[p].pc = "pull"
    /\ breaker' = Probed(breaker)
    /\ IF Blocks(breaker)
       THEN /\ proc' = [proc EXCEPT ![p].pc = "save", ![p].got = {}]
            /\ Drop(p, Covers(proc[p].win))
       ELSE Goto(p, "calling") /\ UNCHANGED dropped
    /\ UNCHANGED <<now, cursor, failed, stored, faults>>

(* The channel answers with the first page of the window. *)
Answer(p) ==
    /\ proc[p].pc = "calling"
    /\ breaker' = Succeeded(breaker)
    /\ \E page \in SUBSET Covers(proc[p].win) :
          /\ IF page = Covers(proc[p].win) THEN Smooth ELSE Fault("page")
          /\ proc' = [proc EXCEPT ![p].pc = "sort", ![p].got = page]
          /\ Drop(p, Covers(proc[p].win) \ page)
    /\ UNCHANGED <<now, cursor, failed, stored>>

(* MUTANT of CallFails: the attempts are not counted against the limit. *)
CallFailsForever(p) ==
    /\ proc[p].pc = "calling"
    /\ Fault("channel")
    /\ breaker' = Failed(breaker)
    /\ proc' = [proc EXCEPT ![p].pc = "pull", ![p].attempt = @ + 1]
    /\ UNCHANGED <<now, cursor, failed, stored, dropped>>

(* The call fails: the next attempt, or the queue. *)
CallFails(p) ==
    /\ proc[p].pc = "calling"
    /\ Fault("channel")
    /\ breaker' = Failed(breaker)
    /\ IF proc[p].attempt < MaxRetry
       THEN proc' = [proc EXCEPT ![p].pc = "pull", ![p].attempt = @ + 1]
       ELSE Goto(p, "queue")
    /\ UNCHANGED <<now, cursor, failed, stored, dropped>>

(* MUTANT of Queue: the cursor moves on, the queue being there for that. *)
QueueAndPass(p) ==
    /\ proc[p].pc = "queue"
    /\ failed' = Append(failed, proc[p].win)
    /\ cursor' = IF p = "retry" THEN cursor ELSE proc[p].win.to
    /\ End(p) /\ Smooth
    /\ UNCHANGED <<now, breaker, stored, dropped>>

(* _push_failed_queue, and the LPUSH of the entry the endpoint has popped. *)
(* The run ends; its cursor stays before the window.                       *)
Queue(p) ==
    /\ proc[p].pc = "queue"
    /\ \/ Smooth /\ failed' = Append(failed, proc[p].win)
       \/ Fault("redis") /\ UNCHANGED failed
    /\ End(p)
    /\ UNCHANGED <<now, cursor, breaker, stored, dropped>>

-----------------------------------------------------------------------------
(* MUTANT of Sort: an order that fails is skipped like any other failure. *)
SortGoesOn(p) ==
    /\ proc[p].pc = "sort"
    /\ \E sorted \in SUBSET (proc[p].got \ stored) :
          proc' = [proc EXCEPT ![p].pc = "check", ![p].got = sorted]
    /\ Smooth
    /\ UNCHANGED <<now, cursor, breaker, failed, stored, dropped>>

(* _persist_orders: the orders that are not stored yet are attributed to   *)
(* users; one without a user is noted in abnormal_orders.  When that fails *)
(* the run ends without a queue entry; the endpoint puts its entry back.   *)
Sort(p) ==
    /\ proc[p].pc = "sort"
    /\ \/ /\ Smooth
          /\ proc' = [proc EXCEPT ![p].pc = "check", ![p].got = @ \ stored]
       \/ /\ Fault("store")
          /\ IF p = "retry" THEN Goto(p, "queue") ELSE End(p)
    /\ UNCHANGED <<now, cursor, breaker, failed, stored, dropped>>

(* batch_upsert_orders: duplicates are filtered again, *)
Check(p) ==
    /\ proc[p].pc = "check"
    /\ proc' = [proc EXCEPT ![p].pc = "insert", ![p].got = @ \ stored]
    /\ UNCHANGED <<now, cursor, breaker, failed, stored, dropped, faults>>

(* and the rest inserted in one batch, or one by one when another process  *)
(* has inserted one of them since (the unique index on out_order_no).      *)
(* What fails is logged and the window counts as done.                     *)
Insert(p) ==
    /\ proc[p].pc = "insert"
    /\ \/ /\ Smooth
          /\ stored' = stored \cup proc[p].got
          /\ UNCHANGED dropped
       \/ /\ Fault("store")
          /\ \E done \in SUBSET proc[p].got :
                /\ proc[p].got \cap stored = {} => done = {}
                /\ stored' = stored \cup done
                /\ Drop(p, proc[p].got \ stored')
    /\ Goto(p, "save")
    /\ UNCHANGED <<now, cursor, breaker, failed>>

(* Whether or not the cursor could be written, the run goes on. *)
NextWindow(p) ==
    LET done == proc[p].win.to IN
    IF p = "retry" \/ done = proc[p].until THEN End(p)
    ELSE proc' = [proc EXCEPT ![p].pc = "pull", ![p].attempt = 1, ![p].got = {},
                              ![p].win = Window(done, proc[p].until)]

Save(p) ==
    /\ proc[p].pc = "save"
    /\ \/ /\ Smooth
          /\ IF p = "retry" THEN UNCHANGED <<cursor, dropped>>
                            ELSE MoveCursor(proc[p].start, proc[p].win.to)
       \/ /\ p # "retry" /\ Fault("redis")
          /\ UNCHANGED <<cursor, dropped>>
    /\ NextWindow(p)
    /\ UNCHANGED <<now, breaker, failed, stored>>

(* A worker dies: a window taken from the queue is gone. *)
Crash(p) ==
    /\ proc[p] # Idle
    /\ Fault("crash")
    /\ End(p)
    /\ UNCHANGED <<now, cursor, breaker, failed, stored, dropped>>

-----------------------------------------------------------------------------
Step(p) ==
    \/ Call(p) \/ Answer(p) \/ CallFails(p) \/ Queue(p)
    \/ Sort(p) \/ Check(p) \/ Insert(p) \/ Save(p)

Next ==
    \/ Tick \/ BreakerRipens \/ BreakerExpires \/ OtherCall \/ CursorExpires
    \/ QueueExpires \/ Pop
    \/ \E start \in 0 .. MaxTime : SyncFrom(start)
    \/ \E p \in Procs : Begin(p) \/ Step(p) \/ Crash(p)

Spec == Init /\ [][Next]_vars

(* The schedule starts the job again and again, and every call returns.    *)
FairSpec ==
    /\ Spec
    /\ WF_vars(BreakerRipens)
    /\ \A p \in Procs : WF_vars(Begin(p)) /\ WF_vars(Step(p))

-----------------------------------------------------------------------------
Windows == [from : 0 .. MaxTime, to : 0 .. MaxTime]

TypeOK ==
    /\ now \in 0 .. MaxTime /\ cursor \in 0 .. MaxTime \cup {None}
    /\ breaker \in Breakers
    /\ failed \in Seq(Windows)
    /\ stored \subseteq Orders /\ dropped \subseteq Orders
    /\ proc \in [Procs ->
          [pc : {"idle", "begin", "pull", "calling", "queue", "sort", "check",
                 "insert", "save"},
           start : 0 .. MaxTime, until : 0 .. MaxTime, win : Windows,
           attempt : 0 .. MaxRetry, got : SUBSET Orders]]
    /\ faults \in 0 .. MaxFaults

Passed(o) == cursor # None /\ o <= cursor

(* The losses there are have a cause the code leaves alone: an open        *)
(* breaker that answers "no orders", a page that does not hold them all, a *)
(* write that fails, a cursor that /sync or a run sets past what nobody    *)
(* pulled.  No interleaving of the job, /sync and /retry                   *)
(* loses an order by itself, and none is lost with the queue: the cursor   *)
(* stays before every window that is put there.                            *)
LossHasCause == \A o \in Orders : Passed(o) => o \in stored \cup dropped

(* Once things stop going wrong every order is stored, or was dropped: a   *)
(* failed window, a lost queue, a restart delay the orders behind it only. *)
OrdersArrive ==
    \A o \in Orders :
        (now >= o) ~> (o \in stored \/ o \in dropped)
=============================================================================
