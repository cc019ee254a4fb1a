--------------------------- MODULE SchedulerLease ---------------------------
(***************************************************************************)
(* Redis leases (common/lock_util.py), the election of the worker that     *)
(* runs the scheduler (main.py), and the tasks the scheduler runs under a  *)
(* lease each (scheduler/scheduler_jobs.py).                               *)
(*                                                                         *)
(* A lease is a Redis key with the value "owner:expiry" and a time to live *)
(* of its own.  Both are kept as what is left of them, so that time passes *)
(* by counting down.  An owner is a fresh uuid per acquisition: the worker *)
(* as long as one of its coroutines knows the uuid, Gone afterwards.       *)
(***************************************************************************)
EXTENDS Integers

CONSTANTS
    Workers, None, Gone,
    Leader,       \* the key scheduler:leader
    Tasks,        \* the keys scheduler:{task}
    LeaderTTL,    \* _SCHEDULER_LEADER_TTL
    TaskTTL,      \* the lock timeout a task is registered with
    MaxRun,       \* bound on the duration of a task
    Faults,       \* Redis commands may fail
    Crashes       \* worker processes may die

ASSUME LeaseAssumption ==
    /\ Leader \notin Tasks
    /\ None \notin Workers /\ Gone \notin Workers /\ None # Gone
    /\ LeaderTTL \in Nat \ {0} /\ TaskTTL \in Nat \ {0} /\ MaxRun \in Nat
    /\ Faults \in BOOLEAN /\ Crashes \in BOOLEAN

VARIABLES
    lease,    \* Redis: each key's owner and what is left of its two expiries
    worker,   \* each worker process and its renewal coroutine
    run,      \* how long each worker has been running each task, or Idle
    missed    \* history: workers with a renewal that failed or came late, or
              \* whose lease such a renewal has overwritten

vars == <<lease, worker, run, missed>>

-----------------------------------------------------------------------------
Keys       == {Leader} \cup Tasks
Idle       == -1
Persistent == 0                       \* a key without a time to live
Expired    == -1                      \* the value's expiry is in the past

(* RedisClient.expire moves a time to live by up to 20 %; the loop sleeps  *)
(* half of the lease between renewals.                                     *)
Jitter     == LeaderTTL \div 5
RenewEvery == LeaderTTL \div 2

NoLease == [owner |-> None, left |-> Expired, ttl |-> Persistent]

(* MUTANT of Lease: the value is stamped with the present time. *)
LeaseStampNow(owner, timeout) == [owner |-> owner, left |-> 0, ttl |-> timeout]

(* What the acquire script writes: the value's expiry is a second later    *)
(* than Redis's.                                                           *)
Lease(owner, timeout) ==
    [owner |-> owner, left |-> timeout + 1, ttl |-> timeout]

(* MUTANT of Acquirable: a plain SET NX, as before the script. *)
OnlyWhenAbsent(k) == lease[k].owner = None

(* The acquire script takes a key that is absent or whose value's expiry   *)
(* has passed.                                                             *)
Acquirable(k) == lease[k].owner = None \/ lease[k].left < 0

Down  == [pc |-> "down", renew |-> "off", t |-> 0]
Plain == [pc |-> "plain", renew |-> "off", t |-> 0]
Scheduling(renew, t) == [pc |-> "scheduling", renew |-> renew, t |-> t]
Schedules(w) == worker[w].pc = "scheduling"
Runs(w, k)   == run[w][k] # Idle

Init ==
    /\ lease = [k \in Keys |-> NoLease]
    /\ worker = [w \in Workers |-> Down]
    /\ run = [w \in Workers |-> [k \in Tasks |-> Idle]]
    /\ missed = {}

-----------------------------------------------------------------------------
(* The lifespan of a worker: one attempt to become the leader at startup,  *)
(* and none later.  A command that fails may have been executed, in which  *)
(* case nobody knows the owner it wrote.                                   *)
Start(w) ==
    /\ worker[w].pc = "down"
    /\ \/ /\ Acquirable(Leader)
          /\ lease' = [lease EXCEPT ![Leader] = Lease(w, LeaderTTL)]
          /\ worker' = [worker EXCEPT ![w] = Scheduling("sleep", RenewEvery)]
       \/ /\ ~Acquirable(Leader) \/ Faults
          /\ worker' = [worker EXCEPT ![w] = Plain]
          /\ UNCHANGED lease
       \/ /\ Acquirable(Leader) /\ Faults
          /\ worker' = [worker EXCEPT ![w] = Plain]
          /\ lease' = [lease EXCEPT ![Leader] = Lease(Gone, LeaderTTL)]
    /\ missed' = missed \ {w}
    /\ UNCHANGED run

(* The process of w ends.  Of the leases it owned, those in "released" are *)
(* deleted and the others stay behind.                                     *)
Leave(w, released) ==
    /\ lease' = [k \in Keys |->
          IF lease[k].owner # w THEN lease[k]
          ELSE IF k \in released THEN NoLease ELSE [lease[k] EXCEPT !.owner = Gone]]
    /\ worker' = [worker EXCEPT ![w] = Down]
    /\ run' = [run EXCEPT ![w] = [k \in Tasks |-> Idle]]
    /\ missed' = missed \ {w}

(* Shutdown cancels the renewal and the running tasks and releases the     *)
(* leader lease; a cancelled task may not get to release its own.          *)
Shutdown(w) ==
    /\ worker[w].pc # "down"
    /\ \E released \in SUBSET Keys :
          /\ Leader \in released \/ Faults
          /\ Leave(w, released)

Crash(w) ==
    /\ Crashes
    /\ worker[w].pc # "down"
    /\ Leave(w, {})

-----------------------------------------------------------------------------
Sleeping(w) == worker[w].renew = "sleep" /\ worker[w].t <= 0

(* The renewal wakes up and reads the key.  It goes on if the owner is its *)
(* own, with the expiry it is going to write; otherwise, and when the read *)
(* fails, the loop ends and the scheduler goes on without it.              *)
RenewRead(w) ==
    /\ Sleeping(w)
    /\ \/ /\ lease[Leader].owner = w
          /\ worker' = [worker EXCEPT ![w] = Scheduling("set", LeaderTTL + 1)]
          /\ UNCHANGED missed
       \/ /\ lease[Leader].owner # w \/ Faults
          /\ worker' = [worker EXCEPT ![w] = Scheduling("off", 0)]
          /\ missed' = missed \cup {w}
    /\ UNCHANGED <<lease, run>>

(* MUTANT of RenewSet: the value keeps the expiry it had. *)
RenewKeepsExpiry(w) ==
    /\ worker[w].renew = "set"
    /\ worker' = [worker EXCEPT ![w] = Scheduling("expire", 0)]
    /\ lease' = [lease EXCEPT ![Leader].owner = w, ![Leader].ttl = Persistent]
    /\ UNCHANGED <<run, missed>>

(* SET writes the value whatever the key holds by now, and drops its time  *)
(* to live.  Its result is not looked at.                                  *)
RenewSet(w) ==
    /\ worker[w].renew = "set"
    /\ worker' = [worker EXCEPT ![w] = Scheduling("expire", 0)]
    /\ \/ /\ lease' = [lease EXCEPT ![Leader] =
                [owner |-> w, left |-> worker[w].t, ttl |-> Persistent]]
          /\ missed' = missed \cup ({lease[Leader].owner} \cap (Workers \ {w}))
       \/ /\ Faults
          /\ missed' = missed \cup {w}
          /\ UNCHANGED lease
    /\ UNCHANGED run

(* EXPIRE gives the key a time to live, again whoever owns it by now.  If  *)
(* it fails the value's expiry is what ends the lease.                     *)
RenewExpire(w) ==
    /\ worker[w].renew = "expire"
    /\ worker' = [worker EXCEPT ![w] = Scheduling("sleep", RenewEvery)]
    /\ \/ /\ lease[Leader].owner # None
          /\ \E j \in -Jitter..Jitter :
                lease' = [lease EXCEPT ![Leader].ttl = LeaderTTL + j]
       \/ /\ lease[Leader].owner = None \/ Faults
          /\ UNCHANGED lease
    /\ UNCHANGED <<run, missed>>

-----------------------------------------------------------------------------
(* MUTANT of TaskStart: every worker registers the tasks. *)
TaskStartAnywhere(w, k) ==
    /\ worker[w].pc # "down" /\ ~Runs(w, k) /\ Acquirable(k)
    /\ lease' = [lease EXCEPT ![k] = Lease(w, TaskTTL)]
    /\ run' = [run EXCEPT ![w][k] = 0]
    /\ UNCHANGED <<worker, missed>>

(* The scheduler runs one instance of a task at a time (max_instances).    *)
(* One that does not get the lease is skipped: nothing happens then.       *)
TaskStart(w, k) ==
    /\ Schedules(w) /\ ~Runs(w, k) /\ Acquirable(k)
    /\ \/ /\ lease' = [lease EXCEPT ![k] = Lease(w, TaskTTL)]
          /\ run' = [run EXCEPT ![w][k] = 0]
       \/ /\ Faults
          /\ lease' = [lease EXCEPT ![k] = Lease(Gone, TaskTTL)]
          /\ UNCHANGED run
    /\ UNCHANGED <<worker, missed>>

(* The release script deletes the key if the owner is the caller's. *)
TaskEnd(w, k) ==
    /\ Runs(w, k)
    /\ run' = [run EXCEPT ![w][k] = Idle]
    /\ \/ lease[k].owner = w /\ lease' = [lease EXCEPT ![k] = NoLease]
       \/ lease[k].owner # w /\ UNCHANGED lease
       \/ /\ lease[k].owner = w /\ Faults
          /\ lease' = [lease EXCEPT ![k].owner = Gone]
    /\ UNCHANGED <<worker, missed>>

-----------------------------------------------------------------------------
(* One unit of time: Redis drops a key whose time to live ends; the expiry *)
(* in the value comes closer, and so does the next renewal.                *)
Aged(l) ==
    IF l.owner = None \/ l.ttl = 1 THEN NoLease
    ELSE [owner |-> l.owner,
          left  |-> IF l.left >= 0 THEN l.left - 1 ELSE l.left,
          ttl   |-> IF l.ttl > 0 THEN l.ttl - 1 ELSE l.ttl]

Later(r) ==
    [pc |-> r.pc, renew |-> r.renew,
     t |-> IF r.renew \in {"sleep", "set"} /\ r.t >= 0 THEN r.t - 1 ELSE r.t]

RenewalDue(w) == Sleeping(w) \/ worker[w].renew \in {"set", "expire"}

Tick ==
    /\ \A w \in Workers, k \in Tasks : run[w][k] < MaxRun
    /\ lease' = [k \in Keys |-> Aged(lease[k])]
    /\ worker' = [w \in Workers |-> Later(worker[w])]
    /\ run' = [w \in Workers |->
          [k \in Tasks |-> IF Runs(w, k) THEN run[w][k] + 1 ELSE Idle]]
    /\ missed' = missed \cup {w \in Workers : RenewalDue(w)}

Next ==
    \/ Tick
    \/ \E w \in Workers :
          \/ Start(w) \/ Shutdown(w) \/ Crash(w)
          \/ RenewRead(w) \/ RenewSet(w) \/ RenewExpire(w)
          \/ \E k \in Tasks : TaskStart(w, k) \/ TaskEnd(w, k)

Spec == Init /\ [][Next]_vars

(* Time goes on and a task ends. *)
FairSpec ==
    /\ Spec
    /\ WF_vars(Tick)
    /\ \A w \in Workers, k \in Tasks : WF_vars(TaskEnd(w, k))

-----------------------------------------------------------------------------
(* Types, and who does what: only a worker with a scheduler renews or runs *)
(* tasks.                                                                  *)
TypeOK ==
    /\ lease \in [Keys -> [owner : Workers \cup {None, Gone},
                           left : Nat \cup {Expired}, ttl : Nat]]
    /\ worker \in [Workers -> [pc : {"down", "plain", "scheduling"},
                               renew : {"off", "sleep", "set", "expire"},
                               t : Nat \cup {Expired}]]
    /\ run \in [Workers -> [Tasks -> Nat \cup {Idle}]]
    /\ missed \subseteq Workers
    /\ \A w \in Workers :
          /\ worker[w].renew # "off" => Schedules(w)
          /\ \A k \in Tasks : Runs(w, k) => Schedules(w)

(* Two workers run a scheduler at the same time only if a renewal failed   *)
(* or came late: the two expiries of the lease, the jitter of one of them, *)
(* the unconditional SET, crashes and restarts are harmless otherwise.     *)
OneScheduler ==
    \A w, v \in Workers :
        Schedules(w) /\ Schedules(v) /\ w # v => w \in missed \/ v \in missed

(* However many schedulers there are, a task runs in one worker at a time, *)
(* as long as it ends before its lease.                                    *)
OneRunPerTask ==
    \A w, v \in Workers, k \in Tasks : Runs(w, k) /\ Runs(v, k) => w = v

(* A lease that nobody owns any more does not keep its key for good, also  *)
(* when its owner died between the SET that drops the time to live and the *)
(* EXPIRE: it is free again or a late renewal has made it its own.         *)
LeasesDrain ==
    \A k \in Keys : lease[k].owner = Gone ~> Acquirable(k) \/ lease[k].owner # Gone

=============================================================================
