--------------------------- MODULE Reconciliation ---------------------------
(***************************************************************************)
(* The two reconciliations of a day: B13 (orders, settlements, accounts,   *)
(* withdrawals) and B17 (per channel).  Each one has a lock per date and a *)
(* circuit breaker of its own, but both keep their runs in one table, and  *)
(* B17's error handling looks its record up there by date.  A run creates  *)
(* a record, commits the differences it finds, and then the result; admins *)
(* review the differences and repeat runs, without a lock.                 *)
(*                                                                         *)
(* All runs here are of one date.  What the books say is left open: a run  *)
(* finds differences or none, and one difference stands for all of a run.  *)
(***************************************************************************)
EXTENDS CircuitBreaker, Sequences, FiniteSetsExt

CONSTANTS
    Workers,
    Faults,      \* what may fail: "db", "redis" commands of the breaker, "crash"
    LocksHold,   \* no run outlives its lock of 600 s
    MaxFaults,   \* bound on such failures
    MaxRuns,     \* bound on the records of the date
    MaxReviews,  \* bound on the reviews that are begun
    None

Services == {"b13", "b17"}

ASSUME ReconciliationAssumption ==
    /\ Faults \subseteq {"db", "redis", "crash"}
    /\ None \notin Workers \cup {"PENDING", "REVIEWING", "RESOLVED", "IGNORED"}
    /\ LocksHold \in BOOLEAN
    /\ MaxFaults \in Nat /\ MaxRuns \in Nat /\ MaxReviews \in Nat

VARIABLES
    record,    \* reconciliation_record rows of the date, and their difference
    lock,      \* reconciliation:{date} and B17's: who holds it
    breaker,   \* the breaker of each service
    job,       \* what each worker is executing
    faults, reviews

vars == <<record, lock, breaker, job, faults, reviews>>

-----------------------------------------------------------------------------
(* DIFF_TRANSITIONS *)
Transitions == [PENDING   |-> {"REVIEWING", "RESOLVED", "IGNORED"},
                REVIEWING |-> {"RESOLVED", "IGNORED"},
                RESOLVED  |-> {}, IGNORED |-> {}]

Idle == [pc |-> "idle", service |-> None, rec |-> 0, seen |-> None, action |-> None]

Init ==
    /\ record = <<>>
    /\ lock = [s \in Services |-> None]
    /\ breaker = [s \in Services |-> Closed]
    /\ job = [w \in Workers |-> Idle]
    /\ faults = 0 /\ reviews = 0

Goto(w, pc) == job' = [job EXCEPT ![w].pc = pc]
Mine(w) == job[w].service

Fault(kind) ==
    /\ kind \in Faults /\ faults < MaxFaults
    /\ faults' = faults + 1
Smooth == UNCHANGED faults

(* An exception anywhere in a run takes it to its handler. *)
Raise(w) == Fault("db") /\ Goto(w, "fail")

-----------------------------------------------------------------------------
(* run_reconciliation / run_channel_reconciliation: SET NX of the date's   *)
(* lock; a run that finds it taken raises before it has done anything.     *)
Begin(w, s) ==
    /\ job[w] = Idle /\ lock[s] = None
    /\ lock' = [lock EXCEPT ![s] = w]
    /\ job' = [job EXCEPT ![w] = [Idle EXCEPT !.pc = "check", !.service = s]]
    /\ UNCHANGED <<record, breaker, faults, reviews>>

(* _check_breaker: an open breaker raises, inside the run's try; an error  *)
(* of Redis lets the run through.                                          *)
CheckBreaker(w) ==
    /\ job[w].pc = "check"
    /\ \/ /\ Smooth
          /\ breaker' = [breaker EXCEPT ![Mine(w)] = Probed(@)]
          /\ Goto(w, IF Blocks(breaker[Mine(w)]) THEN "fail" ELSE "create")
       \/ Fault("redis") /\ Goto(w, "create") /\ UNCHANGED breaker
    /\ UNCHANGED <<record, lock, reviews>>

Create(w) ==
    /\ job[w].pc = "create" /\ Len(record) < MaxRuns
    /\ \/ /\ Smooth
          /\ record' = Append(record, [service |-> Mine(w), status |-> "RUNNING",
                                       diff |-> None])
          /\ job' = [job EXCEPT ![w].pc = "compare", ![w].rec = Len(record) + 1]
       \/ Raise(w) /\ UNCHANGED record
    /\ UNCHANGED <<lock, breaker, reviews>>

(* The differences found, if any, are inserted and committed.              *)
Compare(w) ==
    /\ job[w].pc = "compare"
    /\ \/ /\ Smooth
          /\ \E found \in {None, "PENDING"} :
                /\ record' = [record EXCEPT ![job[w].rec].diff = found]
                /\ job' = [job EXCEPT ![w].pc = "finish", ![w].action = found]
       \/ Raise(w) /\ UNCHANGED record
    /\ UNCHANGED <<lock, breaker, reviews>>

(* Orders, settlements, accounts and withdrawals; channel by channel. *)
FourWayCheck(w) == Mine(w) = "b13" /\ Compare(w)
ChannelCheck(w) == Mine(w) = "b17" /\ Compare(w)

(* MUTANT of Finish: the status of the difference becomes the record's. *)
FinishAsFound(w) ==
    /\ job[w].pc = "finish" /\ Smooth
    /\ record' = [record EXCEPT ![job[w].rec].status = job[w].action]
    /\ Goto(w, "succeed")
    /\ UNCHANGED <<lock, breaker, reviews>>

(* The result, whatever the record's status is by now. *)
Finish(w) ==
    /\ job[w].pc = "finish"
    /\ \/ /\ Smooth
          /\ record' = [record EXCEPT ![job[w].rec].status =
                           IF job[w].action = None THEN "SUCCESS" ELSE "PARTIAL"]
          /\ Goto(w, "succeed")
       \/ Raise(w) /\ UNCHANGED record
    /\ UNCHANGED <<lock, breaker, reviews>>

(* release_lock: only the holder's own lock. *)
Release(w) ==
    /\ lock' = [s \in Services |-> IF s = Mine(w) /\ lock[s] = w THEN None ELSE lock[s]]
    /\ job' = [job EXCEPT ![w] = Idle]

Succeed(w) ==
    /\ job[w].pc = "succeed"
    /\ \/ Smooth /\ breaker' = [breaker EXCEPT ![Mine(w)] = Succeeded(@)]
       \/ Fault("redis") /\ UNCHANGED breaker
    /\ Release(w)
    /\ UNCHANGED <<record, reviews>>

-----------------------------------------------------------------------------
(* _record_failure, for a run that the breaker has turned away as well. *)
Fail(w) ==
    /\ job[w].pc = "fail"
    /\ \/ Smooth /\ breaker' = [breaker EXCEPT ![Mine(w)] = Failed(@)]
       \/ Fault("redis") /\ UNCHANGED breaker
    /\ Goto(w, "pick")
    /\ UNCHANGED <<record, lock, reviews>>

(* MUTANT of Newest: the records are not filtered by their status. *)
NewestOfAll == IF record = <<>> THEN 0 ELSE Len(record)

(* list_with_filters: the newest RUNNING record of the date, of whichever  *)
(* service.                                                                *)
Newest ==
    LET running == {r \in DOMAIN record : record[r].status = "RUNNING"}
    IN  IF running = {} THEN 0 ELSE Max(running)

(* B17 picks the record to mark.  B13 asks for it with a parameter the DAO *)
(* does not have; the TypeError is swallowed and its record stays RUNNING. *)
Pick(w) ==
    /\ job[w].pc = "pick"
    /\ IF Mine(w) = "b17" /\ Newest # 0
       THEN /\ job' = [job EXCEPT ![w].pc = "mark", ![w].rec = Newest]
            /\ UNCHANGED lock
       ELSE Release(w)
    /\ UNCHANGED <<record, breaker, faults, reviews>>

Mark(w) ==
    /\ job[w].pc = "mark"
    /\ \/ Smooth /\ record' = [record EXCEPT ![job[w].rec].status = "FAILED"]
       \/ Fault("db") /\ UNCHANGED record
    /\ Release(w)
    /\ UNCHANGED <<breaker, reviews>>

-----------------------------------------------------------------------------
(* review_diff / review_channel_diff read the difference, ... *)
ReviewRead(w, r, action) ==
    /\ job[w] = Idle /\ reviews < MaxReviews
    /\ record[r].diff # None /\ action \in Transitions[record[r].diff]
    /\ job' = [job EXCEPT ![w] = [Idle EXCEPT !.pc = "review", !.rec = r,
                          !.seen = record[r].diff, !.action = action]]
    /\ reviews' = reviews + 1
    /\ UNCHANGED <<record, lock, breaker, faults>>

(* ... and set its status. *)
ReviewWrite(w) ==
    /\ job[w].pc = "review"
    /\ record' = [record EXCEPT ![job[w].rec].diff = job[w].action]
    /\ job' = [job EXCEPT ![w] = Idle]
    /\ UNCHANGED <<lock, breaker, faults, reviews>>

-----------------------------------------------------------------------------
(* RECOVERY_TIMEOUT or a STATE_TTL passes. *)
Time(s) ==
    /\ \/ breaker' = [breaker EXCEPT ![s] = Ripened(@)]
       \/ \E b \in Expired(breaker[s]) : breaker' = [breaker EXCEPT ![s] = b]
    /\ UNCHANGED <<record, lock, job, faults, reviews>>

(* MUTANT of LockExpires: the lock is set without a time to live. *)
LockForGood(s) == FALSE /\ UNCHANGED vars

(* The lock's 600 s are over: its holder is dead, or has not finished yet. *)
LockExpires(s) ==
    /\ lock[s] # None
    /\ LocksHold => job[lock[s]].service # s
    /\ lock' = [lock EXCEPT ![s] = None]
    /\ UNCHANGED <<record, breaker, job, faults, reviews>>

Crash(w) ==
    /\ job[w] # Idle /\ Fault("crash")
    /\ job' = [job EXCEPT ![w] = Idle]
    /\ UNCHANGED <<record, lock, breaker, reviews>>

-----------------------------------------------------------------------------
Step(w) ==
    \/ CheckBreaker(w) \/ Create(w) \/ FourWayCheck(w) \/ ChannelCheck(w) \/ Finish(w) \/ Succeed(w)
    \/ Fail(w) \/ Pick(w) \/ Mark(w) \/ ReviewWrite(w)

Next ==
    \/ \E s \in Services : Time(s) \/ LockExpires(s)
    \/ \E w \in Workers :
          \/ Step(w) \/ Crash(w)
          \/ \E s \in Services : Begin(w, s)
          \/ \E r \in DOMAIN record, action \in DOMAIN Transitions : ReviewRead(w, r, action)

Spec == Init /\ [][Next]_vars

(* Handlers go on, a lock expires, and now and then two attempts are so    *)
(* far apart that an open breaker's recovery time passes between them: a   *)
(* rejected attempt starts that time anew, so one that always comes        *)
(* earlier, or reports its failure just after, keeps the breaker open.     *)
FairSpec ==
    /\ Spec
    /\ \A w \in Workers : WF_vars(Step(w))
    /\ \A s \in Services :
          /\ WF_vars(LockExpires(s))
          /\ SF_vars(lock[s] = None /\ breaker[s].state = "OPEN" /\ Time(s)
                     /\ breaker' = [breaker EXCEPT ![s] = Ripened(@)])

-----------------------------------------------------------------------------
TypeOK ==
    /\ record \in Seq([service : Services,
                       status : {"RUNNING", "SUCCESS", "PARTIAL", "FAILED"},
                       diff : DOMAIN Transitions \cup {None}])
    /\ Len(record) <= MaxRuns
    /\ lock \in [Services -> Workers \cup {None}]
    /\ breaker \in [Services -> Breakers]
    /\ job \in [Workers ->
          [pc : {"idle", "check", "create", "compare", "finish", "succeed", "fail",
                 "pick", "mark", "review"},
           service : Services \cup {None}, rec : DOMAIN record \cup {0},
           seen : DOMAIN Transitions \cup {None}, action : DOMAIN Transitions \cup {None}]]
    /\ faults \in 0 .. MaxFaults /\ reviews \in 0 .. MaxReviews

(* What was decided stands.  A result is only taken back by the error      *)
(* handling of a B17 run that had picked the record while it was RUNNING,  *)
(* possibly one of B13: never by a run that failed after the result was    *)
(* there.  A reviewed difference is final, unless two reviewers had read   *)
(* it before either of them decided.                                       *)
DecisionsStand ==
    [][/\ \A r \in DOMAIN record :
             (/\ record[r].status \in {"SUCCESS", "PARTIAL"}
              /\ record'[r].status # record[r].status)
             => \E w \in Workers : job[w].pc = "mark" /\ job[w].rec = r
       /\ \A w \in Workers :
             job[w].pc = "pick" /\ job'[w].pc = "mark"
             => record[job'[w].rec].status = "RUNNING"
       /\ \A r \in DOMAIN record :
             (/\ record[r].diff \in {"RESOLVED", "IGNORED"}
              /\ record'[r].diff # record[r].diff)
             => \E w \in Workers : /\ job[w].pc = "review" /\ job[w].rec = r
                                   /\ job[w].seen \in {"PENDING", "REVIEWING"}]_vars

(* A date that is attempted again and again gets a result, whatever has    *)
(* failed before: no lock and no breaker stays in the way.  A run that the *)
(* bound on records stops says nothing about it.                           *)
WithinBound == \A w \in Workers : job[w].pc = "create" => Len(record) < MaxRuns
DateIsReconciled ==
    []WithinBound =>
        \A s \in Services :
            SF_vars(\E w \in Workers : Begin(w, s))
                => <>(\E r \in DOMAIN record :
                         record[r].service = s /\ record[r].status \in {"SUCCESS", "PARTIAL"})
=============================================================================
