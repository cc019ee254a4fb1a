------------------------ MODULE SchedulerLeaseProofs ------------------------
(***************************************************************************)
(* Theorems about SchedulerLease: its types; one worker per task, however  *)
(* many schedulers there are; one scheduler, unless a renewal was missed.  *)
(***************************************************************************)
EXTENDS SchedulerLease, TLAPS

LeaseRecords == [owner : Workers \cup {None, Gone},
                 left : Nat \cup {Expired}, ttl : Nat]

(* The shortest time to live that a renewal can set outlasts the sleep     *)
(* until the next one.                                                     *)
LEMMA RenewalInTime ==
    /\ RenewEvery \in Nat /\ Jitter \in Nat
    /\ RenewEvery < LeaderTTL
    /\ \A j \in -Jitter..Jitter :
          LeaderTTL + j \in Nat /\ LeaderTTL + j > RenewEvery
  BY LeaseAssumption, SMT DEF Jitter, RenewEvery

LEMMA LeaseType ==
    ASSUME NEW o \in Workers \cup {Gone}, NEW n \in Nat
    PROVE  Lease(o, n) \in LeaseRecords
  BY DEF Lease, LeaseRecords

LEMMA NoLeaseType == NoLease \in LeaseRecords
  BY DEF NoLease, LeaseRecords, Expired, Persistent

LEMMA AgedType ==
    ASSUME NEW l \in LeaseRecords
    PROVE  Aged(l) \in LeaseRecords
  <1>1. CASE l.owner = None \/ l.ttl = 1
    BY <1>1, NoLeaseType DEF Aged
  <1>2. CASE ~(l.owner = None \/ l.ttl = 1)
    BY <1>2, SMT DEF Aged, LeaseRecords, Expired
  <1> QED  BY <1>1, <1>2

-----------------------------------------------------------------------------
WorkerRecords == [pc : {"down", "plain", "scheduling"},
                  renew : {"off", "sleep", "set", "expire"}, t : Nat \cup {Expired}]

LEMMA LaterType ==
    ASSUME NEW r \in WorkerRecords
    PROVE  Later(r) \in WorkerRecords
  <1>1. (IF r.renew \in {"sleep", "set"} /\ r.t >= 0 THEN r.t - 1 ELSE r.t)
           \in Nat \cup {Expired}
    BY SMT DEF WorkerRecords, Expired
  <1> QED  BY <1>1 DEF Later, WorkerRecords

(* The process of a worker ends: types, and it does nothing any more. *)
LEMMA LeaveType ==
    ASSUME TypeOK, NEW w \in Workers, NEW S, Leave(w, S)
    PROVE  TypeOK'
  <1> USE DEF TypeOK, Leave
  <1>1. lease' \in [Keys -> LeaseRecords]
    <2> SUFFICES ASSUME NEW k \in Keys
                 PROVE  (IF lease[k].owner # w THEN lease[k]
                         ELSE IF k \in S THEN NoLease
                              ELSE [lease[k] EXCEPT !.owner = Gone]) \in LeaseRecords
      OBVIOUS
    <2> QED  BY NoLeaseType DEF LeaseRecords
  <1>2. worker' \in [Workers -> WorkerRecords]
    BY DEF WorkerRecords, Down
  <1>3. run' \in [Workers -> [Tasks -> Nat \cup {Idle}]] /\ missed' \subseteq Workers
    OBVIOUS
  <1>4. ASSUME NEW v \in Workers
        PROVE  /\ worker'[v].renew # "off" => worker'[v].pc = "scheduling"
               /\ \A k \in Tasks : run'[v][k] # Idle => worker'[v].pc = "scheduling"
    BY DEF Down, Schedules, Runs
  <1> QED  BY <1>1, <1>2, <1>3, <1>4 DEF LeaseRecords, WorkerRecords, Schedules, Runs

(* Type correctness: only a worker with a scheduler renews or runs tasks. *)
LEMMA TypeStep == TypeOK /\ [Next]_vars => TypeOK'
  <1> SUFFICES ASSUME TypeOK, [Next]_vars PROVE TypeOK'
    OBVIOUS
  <1>a. Leader \in Keys /\ Tasks \subseteq Keys
    BY DEF Keys
  <1>b. LeaderTTL \in Nat /\ TaskTTL \in Nat
    BY LeaseAssumption
  <1>c. lease \in [Keys -> LeaseRecords] /\ worker \in [Workers -> WorkerRecords]
    BY DEF TypeOK, LeaseRecords, WorkerRecords
  <1>1. CASE Tick
    <2>1. lease' \in [Keys -> LeaseRecords]
      BY <1>1, <1>c, AgedType DEF Tick
    <2>2. worker' \in [Workers -> WorkerRecords]
      BY <1>1, <1>c, LaterType DEF Tick
    <2>3. run' \in [Workers -> [Tasks -> Nat \cup {Idle}]]
      BY <1>1 DEF Tick, TypeOK, Runs, Idle
    <2>4. missed' \subseteq Workers
      BY <1>1 DEF Tick, TypeOK
    <2>5. ASSUME NEW v \in Workers
          PROVE  /\ worker'[v].renew = worker[v].renew /\ worker'[v].pc = worker[v].pc
                 /\ \A k \in Tasks : run'[v][k] # Idle => run[v][k] # Idle
      BY <1>1, <1>c DEF Tick, Later, WorkerRecords, Runs
    <2> QED
      BY <2>1, <2>2, <2>3, <2>4, <2>5
      DEF TypeOK, LeaseRecords, WorkerRecords, Schedules, Runs
  <1>2. ASSUME NEW w \in Workers, Start(w) PROVE TypeOK'
    <2>0. Lease(w, LeaderTTL) \in LeaseRecords /\ Lease(Gone, LeaderTTL) \in LeaseRecords
      BY <1>b, LeaseType
    <2>1. lease' \in [Keys -> LeaseRecords]
      BY <1>2, <1>a, <1>c, <2>0 DEF Start
    <2>2. worker' \in [Workers -> WorkerRecords]
      BY <1>2, <1>c, RenewalInTime DEF Start, WorkerRecords, Plain, Scheduling
    <2>3. \A v \in Workers : v # w => worker'[v] = worker[v]
      BY <1>2, <1>c DEF Start
    <2>4. worker'[w].renew # "off" => worker'[w].pc = "scheduling"
      BY <1>2, <1>c DEF Start, Plain, Scheduling
    <2>5. \A k \in Tasks : run[w][k] = Idle
      BY <1>2 DEF Start, TypeOK, Runs, Schedules
    <2> QED
      BY <1>2, <2>1, <2>2, <2>3, <2>4, <2>5
      DEF Start, TypeOK, LeaseRecords, WorkerRecords, Schedules, Runs
  <1>3. ASSUME NEW w \in Workers, Shutdown(w) PROVE TypeOK'
    BY <1>3, LeaveType DEF Shutdown
  <1>4. ASSUME NEW w \in Workers, Crash(w) PROVE TypeOK'
    BY <1>4, LeaveType DEF Crash
  <1>e. ASSUME NEW w \in Workers, NEW r \in {"off", "sleep", "set", "expire"}, NEW n \in Nat,
               worker[w].renew # "off", run' = run, missed' \subseteq Workers,
               worker' = [worker EXCEPT ![w] = Scheduling(r, n)],
               lease' \in [Keys -> LeaseRecords]
        PROVE  TypeOK'
    <2>1. worker' \in [Workers -> WorkerRecords]
      BY <1>e, <1>c DEF WorkerRecords, Scheduling
    <2>2. \A v \in Workers : /\ worker'[v].pc = worker[v].pc
                             /\ worker'[v].renew # "off" => worker[v].renew # "off"
      BY <1>e, <1>c DEF Scheduling, TypeOK, Schedules
    <2> QED
      BY <1>e, <2>1, <2>2 DEF TypeOK, LeaseRecords, WorkerRecords, Schedules, Runs
  <1>5. ASSUME NEW w \in Workers, RenewRead(w) PROVE TypeOK'
    <2>1. /\ worker[w].renew # "off" /\ run' = run /\ lease' = lease
          /\ missed' \subseteq Workers
      BY <1>5 DEF RenewRead, Sleeping, TypeOK
    <2>2. \/ worker' = [worker EXCEPT ![w] = Scheduling("set", LeaderTTL + 1)]
          \/ worker' = [worker EXCEPT ![w] = Scheduling("off", 0)]
      BY <1>5 DEF RenewRead
    <2>3. LeaderTTL + 1 \in Nat
      BY <1>b
    <2> QED  BY <1>c, <1>e, <2>1, <2>2, <2>3
  <1>6. ASSUME NEW w \in Workers, RenewSet(w) PROVE TypeOK'
    <2>1. worker[w].renew = "set" /\ worker[w].t \in Nat \cup {Expired}
      BY <1>6, <1>c DEF RenewSet, WorkerRecords
    <2>2. [owner |-> w, left |-> worker[w].t, ttl |-> Persistent] \in LeaseRecords
      BY <2>1 DEF LeaseRecords, Persistent
    <2>3. lease' \in [Keys -> LeaseRecords]
      BY <1>6, <1>a, <1>c, <2>2 DEF RenewSet
    <2>4. missed' \subseteq Workers
      BY <1>6 DEF RenewSet, TypeOK
    <2> QED
      BY <1>6, <1>e, <2>1, <2>3, <2>4 DEF RenewSet
  <1>7. ASSUME NEW w \in Workers, RenewExpire(w) PROVE TypeOK'
    <2>1. lease' \in [Keys -> LeaseRecords]
      BY <1>7, <1>a, <1>c, RenewalInTime DEF RenewExpire, LeaseRecords
    <2>2. worker[w].renew # "off" /\ missed' \subseteq Workers
      BY <1>7 DEF RenewExpire, TypeOK
    <2> QED
      BY <1>7, <1>e, <2>1, <2>2, RenewalInTime DEF RenewExpire
  <1>8. ASSUME NEW w \in Workers, NEW k \in Tasks, TaskStart(w, k) PROVE TypeOK'
    <2>1. lease' \in [Keys -> LeaseRecords]
      BY <1>8, <1>a, <1>b, <1>c, LeaseType DEF TaskStart
    <2>2. run' \in [Workers -> [Tasks -> Nat \cup {Idle}]]
      <3>1. run' = run \/ run' = [run EXCEPT ![w] = [run[w] EXCEPT ![k] = 0]]
        BY <1>8 DEF TaskStart
      <3>2. run \in [Workers -> [Tasks -> Nat \cup {Idle}]]
        BY DEF TypeOK
      <3> QED  BY ONLY <3>1, <3>2, w \in Workers, k \in Tasks
    <2>3. \A v \in Workers, m \in Tasks :
             run'[v][m] # Idle => run[v][m] # Idle \/ Schedules(v)
      BY <1>8 DEF TaskStart, TypeOK
    <2> QED
      BY <1>8, <2>1, <2>2, <2>3
      DEF TaskStart, TypeOK, LeaseRecords, Schedules, Runs
  <1>9. ASSUME NEW w \in Workers, NEW k \in Tasks, TaskEnd(w, k) PROVE TypeOK'
    <2>1. lease' \in [Keys -> LeaseRecords]
      BY <1>9, <1>a, <1>c, NoLeaseType DEF TaskEnd, LeaseRecords
    <2>2. run' \in [Workers -> [Tasks -> Nat \cup {Idle}]]
      BY <1>9 DEF TaskEnd, TypeOK
    <2>3. \A v \in Workers, m \in Tasks : run'[v][m] # Idle => run[v][m] # Idle
      BY <1>9 DEF TaskEnd, TypeOK
    <2> QED
      BY <1>9, <2>1, <2>2, <2>3
      DEF TaskEnd, TypeOK, LeaseRecords, Schedules, Runs
  <1>10. CASE UNCHANGED vars
    BY <1>10 DEF vars, TypeOK, Schedules, Runs
  <1> QED
    BY <1>1, <1>2, <1>3, <1>4, <1>5, <1>6, <1>7, <1>8, <1>9, <1>10 DEF Next

LEMMA InitType == Init => TypeOK
  BY NoLeaseType
  DEF Init, TypeOK, LeaseRecords, Down, Runs, Schedules, Idle, Expired

(* Leases, workers and runs are well typed, and only a worker with a       *)
(* scheduler renews or runs tasks.                                         *)
THEOREM TypeCorrect == Spec => []TypeOK
  BY InitType, TypeStep, PTL DEF Spec

-----------------------------------------------------------------------------
(* A running task owns its lease, and what is left of both expiries covers *)
(* the rest of its run.                                                    *)
RunOwns(w, k) ==
    /\ run[w][k] \in 0..MaxRun
    /\ lease[k].owner = w
    /\ lease[k].left >= TaskTTL - run[w][k]
    /\ lease[k].ttl >= TaskTTL - run[w][k]

RunInv == \A w \in Workers, k \in Tasks : Runs(w, k) => RunOwns(w, k)

LEMMA RunStep ==
    ASSUME MaxRun < TaskTTL, TypeOK, RunInv, [Next]_vars
    PROVE  RunInv'
  <1>a. Leader \notin Tasks /\ Leader \in Keys /\ Tasks \subseteq Keys
    BY LeaseAssumption DEF Keys
  <1>b. TaskTTL \in Nat /\ MaxRun \in Nat
    BY LeaseAssumption
  <1>c. lease \in [Keys -> LeaseRecords]
    BY DEF TypeOK, LeaseRecords
  <1>d. ASSUME NEW v \in Workers, NEW m \in Tasks, run' = run, lease'[m] = lease[m],
               Runs(v, m)'
        PROVE  RunOwns(v, m)'
    BY <1>d DEF RunInv, RunOwns, Runs
  <1>e. ASSUME NEW v \in Workers, NEW m \in Tasks, Runs(v, m)
        PROVE  ~Acquirable(m)
    BY <1>e, <1>a, <1>b, <1>c, LeaseAssumption
    DEF RunInv, RunOwns, Acquirable, LeaseRecords, Expired
  <1> SUFFICES ASSUME NEW v \in Workers, NEW m \in Tasks, Runs(v, m)'
               PROVE  RunOwns(v, m)'
    BY DEF RunInv
  <1>1. CASE Tick
    <2>1. Runs(v, m) /\ run'[v][m] = run[v][m] + 1
      BY <1>1 DEF Tick, Runs
    <2>2. RunOwns(v, m) /\ run[v][m] < MaxRun
      BY <1>1, <2>1 DEF Tick, RunInv
    <2>3. lease[m] \in LeaseRecords /\ lease'[m] = Aged(lease[m])
      BY <1>1, <1>a, <1>c DEF Tick
    <2>4. run[v][m] \in Nat /\ run[v][m] + 1 < TaskTTL
      BY <2>2, <1>b DEF RunOwns
    <2>5. lease[m].left \in Int /\ lease[m].ttl \in Int
      BY <2>3, SMT DEF LeaseRecords, Expired
    <2>6. lease[m].owner # None
      BY <2>2, LeaseAssumption DEF RunOwns
    <2>7. lease[m].ttl > 1 /\ lease[m].left > 0
      BY <2>2, <2>4, <2>5, <1>b DEF RunOwns
    <2>8. /\ lease'[m].owner = lease[m].owner
          /\ lease'[m].left = lease[m].left - 1 /\ lease'[m].ttl = lease[m].ttl - 1
      BY <2>3, <2>5, <2>6, <2>7 DEF Aged
    <2> QED
      BY <2>1, <2>2, <2>4, <2>5, <2>8, <1>b DEF RunOwns
  <1>2. ASSUME NEW w \in Workers, Start(w) \/ RenewRead(w) \/ RenewSet(w) \/ RenewExpire(w)
        PROVE  RunOwns(v, m)'
    BY <1>2, <1>a, <1>c, <1>d DEF Start, RenewRead, RenewSet, RenewExpire
  <1>3. ASSUME NEW w \in Workers, NEW S, Leave(w, S) PROVE RunOwns(v, m)'
    <2>1. v # w /\ run'[v] = run[v]
      BY <1>3 DEF Leave, TypeOK, Runs
    <2>2. RunOwns(v, m)
      BY <2>1 DEF RunInv, Runs
    <2>3. lease'[m] = lease[m]
      BY <1>3, <2>1, <2>2, <1>a DEF Leave, RunOwns
    <2> QED  BY <2>1, <2>2, <2>3 DEF RunOwns
  <1>4. ASSUME NEW w \in Workers, NEW k \in Tasks, TaskStart(w, k)
        PROVE  RunOwns(v, m)'
    <2>1. CASE m # k
      <3>1. lease'[m] = lease[m] /\ run'[v][m] = run[v][m]
        BY <1>4, <2>1, <1>a, <1>c DEF TaskStart, TypeOK
      <3> QED  BY <3>1 DEF RunInv, RunOwns, Runs
    <2>2. CASE m = k
      <3>1. ~Runs(v, k)
        BY <1>4, <1>e DEF TaskStart
      <3>2. v = w /\ lease' = [lease EXCEPT ![k] = Lease(w, TaskTTL)] /\ run'[v][k] = 0
        BY <1>4, <2>2, <3>1 DEF TaskStart, TypeOK, Runs
      <3> QED  BY <2>2, <3>2, <1>a, <1>b, <1>c DEF RunOwns, Lease
    <2> QED  BY <2>1, <2>2
  <1>5. ASSUME NEW w \in Workers, NEW k \in Tasks, TaskEnd(w, k)
        PROVE  RunOwns(v, m)'
    <2>1. Runs(v, m) /\ run'[v][m] = run[v][m] /\ (m = k => v # w)
      BY <1>5 DEF TaskEnd, TypeOK, Runs
    <2>2. RunOwns(v, m)
      BY <2>1 DEF RunInv
    <2>3. lease'[m] = lease[m]
      BY <1>5, <2>1, <2>2, <1>a, <1>c DEF TaskEnd, RunOwns
    <2> QED  BY <2>1, <2>2, <2>3 DEF RunOwns
  <1>6. CASE UNCHANGED vars
    BY <1>6, <1>d DEF vars
  <1> QED
    BY <1>1, <1>2, <1>3, <1>4, <1>5, <1>6 DEF Next, Shutdown, Crash

(* A task that ends before its lease runs in one worker at a time, however *)
(* many workers have a scheduler and whatever fails.                       *)
THEOREM SingleRun ==
    ASSUME MaxRun < TaskTTL
    PROVE  Spec => []OneRunPerTask
  <1>1. Init => TypeOK /\ RunInv
    BY InitType DEF Init, RunInv, Runs
  <1>2. TypeOK /\ RunInv /\ [Next]_vars => (TypeOK /\ RunInv)'
    BY TypeStep, RunStep
  <1>3. TypeOK /\ RunInv => OneRunPerTask
    BY DEF RunInv, RunOwns, OneRunPerTask
  <1> QED  BY <1>1, <1>2, <1>3, PTL DEF Spec

-----------------------------------------------------------------------------
(* A worker whose renewals were all in time owns the leader lease: while   *)
(* it sleeps both expiries are later than its next renewal, and while it   *)
(* renews the key cannot expire before time goes on.                       *)
LeaderOwns(w) ==
    /\ lease[Leader].owner = w
    /\ lease[Leader].left >= 0
    /\ \/ /\ worker[w].renew = "sleep"
          /\ worker[w].t \in 0..RenewEvery
          /\ lease[Leader].left >= worker[w].t
          /\ lease[Leader].ttl = Persistent \/ lease[Leader].ttl > worker[w].t
       \/ worker[w].renew = "set" /\ worker[w].t = LeaderTTL + 1
       \/ /\ worker[w].renew = "expire"
          /\ lease[Leader].left >= RenewEvery
          /\ lease[Leader].ttl = Persistent \/ lease[Leader].ttl > RenewEvery

InTime(w) == Schedules(w) /\ w \notin missed

LeaderInv == \A w \in Workers : InTime(w) => LeaderOwns(w)

LEMMA LeaderStep ==
    ASSUME TypeOK, LeaderInv, [Next]_vars
    PROVE  LeaderInv'
  <1>a. Leader \notin Tasks /\ Leader \in Keys /\ Tasks \subseteq Keys
    BY LeaseAssumption DEF Keys
  <1>b. LeaderTTL \in Nat /\ RenewEvery \in Nat /\ RenewEvery < LeaderTTL
    BY LeaseAssumption, RenewalInTime
  <1>c. lease \in [Keys -> LeaseRecords] /\ worker \in [Workers -> WorkerRecords]
    BY DEF TypeOK, LeaseRecords, WorkerRecords
  <1>d. /\ lease[Leader].left \in Int /\ lease[Leader].ttl \in Int
        /\ \A u \in Workers : worker[u].t \in Int
    <2>1. lease[Leader] \in LeaseRecords
      BY <1>a, <1>c
    <2>2. \A u \in Workers : worker[u] \in WorkerRecords
      BY <1>c
    <2> QED  BY <2>1, <2>2, SMT DEF LeaseRecords, WorkerRecords, Expired
  <1> SUFFICES ASSUME NEW v \in Workers, InTime(v)' PROVE LeaderOwns(v)'
    BY DEF LeaderInv
  <1>e. ASSUME InTime(v), worker'[v] = worker[v], lease'[Leader] = lease[Leader]
        PROVE  LeaderOwns(v)'
    BY <1>e DEF LeaderInv, LeaderOwns
  <1>f. InTime(v) => ~Acquirable(Leader) /\ lease[Leader].owner = v
    BY <1>d, LeaseAssumption DEF LeaderInv, LeaderOwns, Acquirable
  <1>1. CASE Tick
    <2>1. InTime(v) /\ ~RenewalDue(v)
      BY <1>1 DEF Tick, InTime, Schedules, Later
    <2>2. LeaderOwns(v) /\ worker[v].renew = "sleep" /\ worker[v].t > 0
      BY <2>1, <1>d DEF LeaderInv, LeaderOwns, RenewalDue, Sleeping
    <2>3. lease[Leader].owner # None /\ lease[Leader].ttl # 1 /\ lease[Leader].left >= 1
      BY <2>2, <1>d, LeaseAssumption DEF LeaderOwns, Persistent
    <2>4. lease'[Leader] = [owner |-> v, left |-> lease[Leader].left - 1,
             ttl |-> IF lease[Leader].ttl > 0 THEN lease[Leader].ttl - 1
                     ELSE lease[Leader].ttl]
      BY <1>1, <1>a, <1>d, <2>2, <2>3 DEF Tick, Aged, LeaderOwns
    <2>5. worker'[v].renew = "sleep" /\ worker'[v].t = worker[v].t - 1
      BY <1>1, <1>d, <2>2 DEF Tick, Later
    <2> QED
      BY <1>b, <1>d, <2>2, <2>3, <2>4, <2>5 DEF LeaderOwns, Persistent
  <1>2. ASSUME NEW w \in Workers, Start(w) PROVE LeaderOwns(v)'
    <2>1. CASE v # w
      <3>1. worker'[v] = worker[v] /\ InTime(v)
        BY <1>2, <1>c, <2>1 DEF Start, InTime, Schedules
      <3> QED  BY <1>2, <1>e, <1>f, <3>1 DEF Start
    <2>2. CASE v = w
      <3>1. /\ lease' = [lease EXCEPT ![Leader] = Lease(w, LeaderTTL)]
            /\ worker' = [worker EXCEPT ![w] = Scheduling("sleep", RenewEvery)]
        BY <1>2, <1>c, <2>2 DEF Start, InTime, Schedules, Plain
      <3>2. lease'[Leader] = Lease(v, LeaderTTL) /\ worker'[v] = Scheduling("sleep", RenewEvery)
        BY <1>a, <1>c, <2>2, <3>1
      <3> QED  BY <1>b, <3>2 DEF LeaderOwns, Lease, Scheduling
    <2> QED  BY <2>1, <2>2
  <1>3. ASSUME NEW w \in Workers, NEW S, Leave(w, S) PROVE LeaderOwns(v)'
    <2>1. v # w /\ worker'[v] = worker[v] /\ InTime(v)
      BY <1>3, <1>c DEF Leave, InTime, Schedules, Down
    <2>2. lease'[Leader] = lease[Leader]
      BY <1>3, <1>a, <1>f, <2>1 DEF Leave
    <2> QED  BY <1>e, <2>1, <2>2
  <1>4. ASSUME NEW w \in Workers, RenewRead(w) PROVE LeaderOwns(v)'
    <2>1. CASE v # w
      <3>1. worker'[v] = worker[v] /\ InTime(v)
        BY <1>4, <1>c, <2>1 DEF RenewRead, InTime, Schedules
      <3> QED  BY <1>4, <1>e, <3>1 DEF RenewRead
    <2>2. CASE v = w
      <3>1. /\ worker'[v] = Scheduling("set", LeaderTTL + 1) /\ v \notin missed
            /\ lease' = lease
        BY <1>4, <1>c, <2>2 DEF RenewRead, InTime
      <3>2. InTime(v)
        BY <1>4, <2>2, <3>1 DEF InTime, RenewRead, Sleeping, TypeOK
      <3>3. LeaderOwns(v)
        BY <3>2 DEF LeaderInv
      <3> QED  BY <3>1, <3>3 DEF LeaderOwns, Scheduling
    <2> QED  BY <2>1, <2>2
  <1>5. ASSUME NEW w \in Workers, RenewSet(w) PROVE LeaderOwns(v)'
    <2>1. v \notin missed /\ worker[w].renew = "set"
      BY <1>5 DEF RenewSet, InTime
    <2>2. CASE v # w
      <3>1. worker'[v] = worker[v] /\ InTime(v)
        BY <1>5, <1>c, <2>1, <2>2 DEF RenewSet, InTime, Schedules
      <3>2. lease' = lease
        BY <1>5, <1>f, <2>2, <3>1 DEF RenewSet, InTime
      <3> QED  BY <1>e, <3>1, <3>2
    <2>3. CASE v = w
      <3>1. InTime(v)
        BY <2>1, <2>3 DEF InTime, TypeOK
      <3>2. worker[v].t = LeaderTTL + 1
        BY <2>1, <2>3, <3>1 DEF LeaderInv, LeaderOwns
      <3>3. lease'[Leader] = [owner |-> v, left |-> LeaderTTL + 1, ttl |-> Persistent]
        BY <1>5, <1>a, <1>c, <2>3, <3>2 DEF RenewSet, InTime
      <3>4. worker'[v] = Scheduling("expire", 0)
        BY <1>5, <1>c, <2>3 DEF RenewSet
      <3> QED  BY <1>b, <3>3, <3>4 DEF LeaderOwns, Scheduling
    <2> QED  BY <2>2, <2>3
  <1>6. ASSUME NEW w \in Workers, RenewExpire(w) PROVE LeaderOwns(v)'
    <2>1. InTime(v)
      <3>1. worker'[v].pc = worker[v].pc /\ missed' = missed
        BY <1>6, <1>c DEF RenewExpire, Scheduling, TypeOK, Schedules
      <3> QED  BY <3>1 DEF InTime, Schedules
    <2>2. LeaderOwns(v)
      BY <2>1 DEF LeaderInv
    <2>3. /\ lease'[Leader].owner = v /\ lease'[Leader].left = lease[Leader].left
          /\ \/ lease'[Leader].ttl = lease[Leader].ttl
             \/ lease'[Leader].ttl \in Nat /\ lease'[Leader].ttl > RenewEvery
      BY <1>6, <1>a, <1>c, <1>f, <2>1, RenewalInTime DEF RenewExpire, LeaseRecords
    <2>4. CASE v # w
      <3>1. worker'[v] = worker[v]
        BY <1>6, <1>c, <2>4 DEF RenewExpire
      <3> QED  BY <1>b, <1>d, <2>2, <2>3, <3>1 DEF LeaderOwns
    <2>5. CASE v = w
      <3>1. worker[v].renew = "expire" /\ worker'[v] = Scheduling("sleep", RenewEvery)
        BY <1>6, <1>c, <2>5 DEF RenewExpire
      <3> QED  BY <1>b, <1>d, <2>2, <2>3, <3>1 DEF LeaderOwns, Scheduling
    <2> QED  BY <2>4, <2>5
  <1>7. ASSUME NEW w \in Workers, NEW k \in Tasks, TaskStart(w, k) \/ TaskEnd(w, k)
        PROVE  LeaderOwns(v)'
    <2>1. lease'[Leader] = lease[Leader]
      BY <1>7, <1>a, <1>c DEF TaskStart, TaskEnd
    <2> QED  BY <1>7, <1>e, <2>1 DEF TaskStart, TaskEnd, InTime, Schedules
  <1>8. CASE UNCHANGED vars
    BY <1>8, <1>e DEF vars, InTime, Schedules
  <1> QED
    BY <1>1, <1>2, <1>3, <1>4, <1>5, <1>6, <1>7, <1>8 DEF Next, Shutdown, Crash

(* Two workers run a scheduler at the same time only if a renewal failed   *)
(* or came late.                                                           *)
THEOREM SingleScheduler == Spec => []OneScheduler
  <1>1. Init => TypeOK /\ LeaderInv
    BY InitType DEF Init, LeaderInv, InTime, Schedules, Down
  <1>2. TypeOK /\ LeaderInv /\ [Next]_vars => (TypeOK /\ LeaderInv)'
    BY TypeStep, LeaderStep
  <1>3. TypeOK /\ LeaderInv => OneScheduler
    BY DEF LeaderInv, LeaderOwns, InTime, OneScheduler
  <1> QED  BY <1>1, <1>2, <1>3, PTL DEF Spec

=============================================================================
