------------------------ MODULE ReconciliationProofs ------------------------
(***************************************************************************)
(* What holds of Reconciliation for any number of workers, runs, reviews   *)
(* and failures: types, and that what was decided stands.                  *)
(***************************************************************************)
EXTENDS Reconciliation, SumTheorems

Diffs      == {"PENDING", "REVIEWING", "RESOLVED", "IGNORED"}
RecordType == [service : Services,
               status  : {"RUNNING", "SUCCESS", "PARTIAL", "FAILED"},
               diff    : Diffs \cup {None}]
RunPCs == {"check", "create", "compare", "finish", "succeed", "fail", "pick", "mark"}

JobType == [pc : RunPCs \cup {"idle", "review"}, service : Services \cup {None},
            rec : 0 .. Len(record), seen : Diffs \cup {None}, action : Diffs \cup {None}]

(* What a worker at a step may rely on.  Only its own run writes a result  *)
(* into its record, a difference is reviewed only after it was committed,  *)
(* and a review moves on from a difference that is not decided.            *)
JobOK(j) ==
    /\ j \in JobType
    /\ j.pc \in RunPCs => j.service \in Services
    /\ j.pc \in {"compare", "finish", "mark", "review"} => j.rec \in 1 .. Len(record)
    /\ j.pc \in {"compare", "finish"} => record[j.rec].status \in {"RUNNING", "FAILED"}
    /\ j.pc = "compare" => record[j.rec].diff = None
    /\ j.pc = "finish" => j.action \in {None, "PENDING"}
    /\ j.pc = "review" => /\ record[j.rec].diff # None
                          /\ j.seen \in {"PENDING", "REVIEWING"}
                          /\ j.action \in Diffs

(* No two runs work on one record. *)
OwnRecords ==
    \A v, w \in Workers :
        /\ v # w
        /\ job[v].pc \in {"compare", "finish"} /\ job[w].pc \in {"compare", "finish"}
        => job[v].rec # job[w].rec

Inv ==
    /\ record \in Seq(RecordType) /\ Len(record) <= MaxRuns
    /\ DOMAIN job = Workers /\ job = [w \in Workers |-> job[w]]
    /\ \A w \in Workers : JobOK(job[w])
    /\ OwnRecords

USE DEF RunPCs, Diffs

-----------------------------------------------------------------------------
(* The greatest of some numbers up to a bound. *)
LEMMA Greatest ==
    ASSUME NEW n \in Nat, NEW T \in SUBSET (1 .. n), T # {}
    PROVE  Max(T) \in T /\ \A t \in T : Max(T) >= t
<1> DEFINE D == {n - t : t \in T}
<1>1. D \in SUBSET Nat /\ D # {}
  <2>1. \A t \in T : n - t \in Nat
    OBVIOUS
  <2> QED BY <2>1
<1>2. PICK d \in D : \A e \in D : d <= e
  BY <1>1, LeastNat
<1>3. PICK t \in T : d = n - t
  BY <1>2
<1>4. \A u \in T : t >= u
  <2> SUFFICES ASSUME NEW u \in T PROVE t >= u
    OBVIOUS
  <2>1. d <= n - u
    BY <1>2
  <2> QED BY <1>3, <2>1
<1> QED BY <1>4 DEF Max

(* The record that B17's error handling picks is one that is RUNNING. *)
LEMMA NewestIsRunning ==
    ASSUME record \in Seq(RecordType), Newest # 0
    PROVE  Newest \in 1 .. Len(record) /\ record[Newest].status = "RUNNING"
<1> DEFINE R == {r \in DOMAIN record : record[r].status = "RUNNING"}
<1>1. R # {} /\ Newest = Max(R)
  BY DEF Newest
<1>2. R \in SUBSET (1 .. Len(record)) /\ Len(record) \in Nat
  OBVIOUS
<1>3. Max(R) \in R
  BY <1>1, <1>2, Greatest
<1> QED BY <1>1, <1>2, <1>3

(* A record that is overwritten leaves the others alone. *)
LEMMA Overwritten ==
    ASSUME NEW S, NEW s \in Seq(S), NEW r \in 1 .. Len(s), NEW x \in S
    PROVE  /\ [s EXCEPT ![r] = x] \in Seq(S) /\ Len([s EXCEPT ![r] = x]) = Len(s)
           /\ [s EXCEPT ![r] = x][r] = x
           /\ \A q \in 1 .. Len(s) : q # r => [s EXCEPT ![r] = x][q] = s[q]
OBVIOUS

LEMMA ElementType ==
    ASSUME NEW S, NEW s \in Seq(S), NEW r \in 1 .. Len(s) PROVE s[r] \in S
OBVIOUS

-----------------------------------------------------------------------------
(* The steps, by what they do to the records.  Some leave them alone and   *)
(* take one worker to a step other than a run's two writes; ...            *)
Moves(w) ==
    /\ record' = record
    /\ \E j : /\ JobOK(j) /\ j.pc \notin {"compare", "finish"}
              /\ j.pc = "mark" => record[j.rec].status = "RUNNING"
              /\ job' = [job EXCEPT ![w] = j]

(* ... one adds a record; ... *)
Adds(w) ==
    /\ job[w].pc = "create" /\ Len(record) < MaxRuns
    /\ record' = Append(record, [service |-> Mine(w), status |-> "RUNNING", diff |-> None])
    /\ job' = [job EXCEPT ![w].pc = "compare", ![w].rec = Len(record) + 1]

(* ... and four write to one that is there. *)
Writes(w, x) ==
    LET r == job[w].rec IN
    /\ record' = [record EXCEPT ![r] = x]
    /\ x.service = record[r].service
    /\ \/ /\ job[w].pc = "compare"
          /\ x.status = record[r].status /\ x.diff \in {None, "PENDING"}
          /\ job' = [job EXCEPT ![w].pc = "finish", ![w].action = x.diff]
       \/ /\ job[w].pc = "finish" /\ x.diff = record[r].diff
          /\ job' = [job EXCEPT ![w].pc = "succeed"]
       \/ /\ job[w].pc = "mark" /\ x.diff = record[r].diff /\ x.status = "FAILED"
          /\ job' = [job EXCEPT ![w] = Idle]
       \/ /\ job[w].pc = "review"
          /\ x.status = record[r].status /\ x.diff = job[w].action
          /\ job' = [job EXCEPT ![w] = Idle]

LEMMA StepKinds ==
    ASSUME Inv, [Next]_vars
    PROVE  \/ UNCHANGED <<record, job>>
           \/ \E w \in Workers : Moves(w) \/ Adds(w) \/ \E x \in RecordType : Writes(w, x)
<1> DEFINE Goal(w) == Moves(w) \/ Adds(w) \/ \E x \in RecordType : Writes(w, x)
<1>1. JobOK(Idle) /\ Idle.pc = "idle"
  BY DEF JobOK, JobType, Idle, Inv
<1>2. ASSUME NEW w \in Workers, job' = [job EXCEPT ![w] = Idle], record' = record
      PROVE  Moves(w)
  BY <1>1, <1>2 DEF Moves
<1>3. ASSUME NEW w \in Workers, NEW pc \in {"create", "fail", "succeed", "pick"},
             job[w].pc \in RunPCs, Goto(w, pc), record' = record
      PROVE  Moves(w)
  <2> DEFINE j == [job[w] EXCEPT !.pc = pc]
  <2>1. JobOK(j) /\ j.pc = pc
    BY <1>3 DEF Inv, JobOK, JobType
  <2>2. job' = [job EXCEPT ![w] = j]
    BY <1>3 DEF Goto
  <2> HIDE DEF j
  <2> QED BY <1>3, <2>1, <2>2 DEF Moves
<1>4. ASSUME NEW w \in Workers, NEW s \in Services, Begin(w, s) PROVE Moves(w)
  <2> DEFINE j == [Idle EXCEPT !.pc = "check", !.service = s]
  <2>1. 0 \in 0 .. Len(record)
    BY DEF Inv
  <2>2. j \in JobType /\ j.pc = "check" /\ j.service = s
    BY <2>1 DEF Idle, JobType
  <2>3. JobOK(j) /\ j.pc = "check"
    BY <2>2 DEF JobOK
  <2> QED BY <1>4, <2>3 DEF Moves, Begin
<1>5. ASSUME NEW w \in Workers, CheckBreaker(w) PROVE Moves(w)
  BY <1>3, <1>5 DEF CheckBreaker
<1>6. ASSUME NEW w \in Workers, Create(w) PROVE Goal(w)
  BY <1>3, <1>6 DEF Create, Adds, Raise
<1>7. ASSUME NEW w \in Workers, Compare(w) PROVE Goal(w)
  <2>1. job[w].pc = "compare" /\ JobOK(job[w])
    BY <1>7 DEF Compare, Inv
  <2>2. ASSUME NEW found \in {None, "PENDING"},
               record' = [record EXCEPT ![job[w].rec].diff = found],
               job' = [job EXCEPT ![w].pc = "finish", ![w].action = found]
        PROVE  \E x \in RecordType : Writes(w, x)
    <3> DEFINE r == record[job[w].rec]
               x == [r EXCEPT !.diff = found]
    <3>1. r \in RecordType
      BY <2>1, ElementType DEF JobOK, Inv
    <3>2. x \in RecordType /\ x.service = r.service /\ x.status = r.status /\ x.diff = found
      BY <3>1 DEF RecordType
    <3>3. record' = [record EXCEPT ![job[w].rec] = x]
      BY <2>2
    <3> HIDE DEF x
    <3> QED BY <2>1, <2>2, <3>2, <3>3 DEF Writes
  <2> QED BY <1>3, <1>7, <2>1, <2>2 DEF Compare, Raise
<1>8. ASSUME NEW w \in Workers, Finish(w) PROVE Goal(w)
  <2>1. job[w].pc = "finish" /\ JobOK(job[w])
    BY <1>8 DEF Finish, Inv
  <2>2. ASSUME NEW status \in {"SUCCESS", "PARTIAL"},
               record' = [record EXCEPT ![job[w].rec].status = status], Goto(w, "succeed")
        PROVE  \E x \in RecordType : Writes(w, x)
    <3> DEFINE r == record[job[w].rec]
               x == [r EXCEPT !.status = status]
    <3>1. r \in RecordType
      BY <2>1, ElementType DEF JobOK, Inv
    <3>2. x \in RecordType /\ x.service = r.service /\ x.diff = r.diff
      BY <3>1 DEF RecordType
    <3>3. record' = [record EXCEPT ![job[w].rec] = x]
      BY <2>2
    <3> HIDE DEF x
    <3> QED BY <2>1, <2>2, <3>2, <3>3 DEF Writes, Goto
  <2> QED BY <1>3, <1>8, <2>1, <2>2 DEF Finish, Raise
<1>9. ASSUME NEW w \in Workers, Succeed(w) \/ Crash(w) PROVE Moves(w)
  BY <1>2, <1>9 DEF Succeed, Release, Crash
<1>10. ASSUME NEW w \in Workers, Fail(w) PROVE Moves(w)
  BY <1>3, <1>10 DEF Fail
<1>11. ASSUME NEW w \in Workers, Pick(w) PROVE Moves(w)
  <2>1. CASE Release(w)
    BY <1>2, <1>11, <2>1 DEF Pick, Release
  <2>2. CASE /\ Newest # 0
             /\ job' = [job EXCEPT ![w].pc = "mark", ![w].rec = Newest]
    <3> DEFINE j == [job[w] EXCEPT !.pc = "mark", !.rec = Newest]
    <3>1. Newest \in 1 .. Len(record) /\ record[Newest].status = "RUNNING"
      BY <2>2, NewestIsRunning DEF Inv
    <3>2. JobOK(job[w]) /\ job[w].pc = "pick"
      BY <1>11 DEF Pick, Inv
    <3>3. JobOK(j) /\ j.pc = "mark" /\ j.rec = Newest
      <4>1. Newest \in 0 .. Len(record)
        BY <3>1 DEF Inv
      <4>2. /\ j \in JobType
            /\ j.pc = "mark" /\ j.rec = Newest /\ j.service = job[w].service
        BY <3>2, <4>1 DEF JobOK, JobType
      <4> HIDE DEF j
      <4> QED BY <3>1, <3>2, <4>2 DEF JobOK
    <3>4. job' = [job EXCEPT ![w] = j]
      BY <2>2
    <3> HIDE DEF j
    <3> QED BY <1>11, <3>1, <3>3, <3>4 DEF Moves, Pick
  <2> QED BY <1>11, <2>1, <2>2 DEF Pick
<1>12. ASSUME NEW w \in Workers, Mark(w) PROVE Goal(w)
  <2>1. job[w].pc = "mark" /\ JobOK(job[w]) /\ job' = [job EXCEPT ![w] = Idle]
    BY <1>12 DEF Mark, Inv, Release
  <2>2. ASSUME record' = [record EXCEPT ![job[w].rec].status = "FAILED"]
        PROVE  \E x \in RecordType : Writes(w, x)
    <3> DEFINE r == record[job[w].rec]
               x == [r EXCEPT !.status = "FAILED"]
    <3>1. r \in RecordType
      BY <2>1, ElementType DEF JobOK, Inv
    <3>2. /\ x \in RecordType /\ x.service = r.service
          /\ x.diff = r.diff /\ x.status = "FAILED"
      BY <3>1 DEF RecordType
    <3>3. record' = [record EXCEPT ![job[w].rec] = x]
      BY <2>2
    <3> HIDE DEF x
    <3> QED BY <2>1, <2>2, <3>2, <3>3 DEF Writes
  <2> QED BY <1>2, <1>12, <2>1, <2>2 DEF Mark
<1>13. ASSUME NEW w \in Workers, NEW r \in DOMAIN record, NEW action \in DOMAIN Transitions,
              ReviewRead(w, r, action)
       PROVE  Moves(w)
  <2> DEFINE j == [Idle EXCEPT !.pc = "review", !.rec = r, !.seen = record[r].diff,
                               !.action = action]
  <2>1. r \in 1 .. Len(record) /\ record[r] \in RecordType
    BY ElementType DEF Inv
  <2>2. record[r].diff # None /\ action \in Transitions[record[r].diff]
    BY <1>13 DEF ReviewRead
  <2>3. record[r].diff \in {"PENDING", "REVIEWING"} /\ action \in Diffs
    BY <2>1, <2>2 DEF RecordType, Transitions
  <2>4. r \in 0 .. Len(record)
    BY <2>1
  <2>5. /\ j \in JobType /\ j.pc = "review" /\ j.rec = r
        /\ j.seen = record[r].diff /\ j.action = action
    BY <2>3, <2>4 DEF Idle, JobType
  <2>6. JobOK(j) /\ j.pc = "review"
    BY <2>1, <2>2, <2>3, <2>5 DEF JobOK
  <2> QED BY <1>13, <2>6 DEF ReviewRead, Moves
<1>14. ASSUME NEW w \in Workers, ReviewWrite(w) PROVE Goal(w)
  <2>1. /\ job[w].pc = "review" /\ JobOK(job[w]) /\ job' = [job EXCEPT ![w] = Idle]
        /\ record' = [record EXCEPT ![job[w].rec].diff = job[w].action]
    BY <1>14 DEF ReviewWrite, Inv
  <2> DEFINE r == record[job[w].rec]
             x == [r EXCEPT !.diff = job[w].action]
  <2>2. r \in RecordType /\ job[w].action \in Diffs
    BY <2>1, ElementType DEF JobOK, Inv
  <2>3. /\ x \in RecordType /\ x.service = r.service
        /\ x.status = r.status /\ x.diff = job[w].action
    BY <2>2 DEF RecordType
  <2>4. record' = [record EXCEPT ![job[w].rec] = x]
    BY <2>1
  <2> HIDE DEF x
  <2> QED BY <2>1, <2>3, <2>4 DEF Writes
<1>15. ASSUME NEW s \in Services, Time(s) \/ LockExpires(s) PROVE UNCHANGED <<record, job>>
  BY <1>15 DEF Time, LockExpires
<1>16. CASE UNCHANGED vars
  BY <1>16 DEF vars
<1>17. CASE Next
  BY <1>4, <1>5, <1>6, <1>7, <1>8, <1>9, <1>10, <1>11, <1>12, <1>13, <1>14, <1>15, <1>17
     DEF Next, Step, FourWayCheck, ChannelCheck
<1> QED BY <1>16, <1>17
-----------------------------------------------------------------------------
(* Every kind of step keeps the invariant. *)
LEMMA InvStep == Inv /\ [Next]_vars => Inv'
<1> SUFFICES ASSUME Inv, [Next]_vars PROVE Inv'
  OBVIOUS
<1> USE ReconciliationAssumption
<1>1. CASE UNCHANGED <<record, job>>
  BY <1>1 DEF Inv, JobOK, JobType, OwnRecords
<1>2. ASSUME NEW w \in Workers, NEW j, job' = [job EXCEPT ![w] = j]
      PROVE  /\ DOMAIN job' = Workers /\ job' = [v \in Workers |-> job'[v]]
             /\ job'[w] = j /\ \A v \in Workers \ {w} : job'[v] = job[v]
  BY <1>2 DEF Inv
<1>3. ASSUME NEW w \in Workers, Moves(w) PROVE Inv'
  <2>1. PICK j : /\ JobOK(j) /\ j.pc \notin {"compare", "finish"}
                 /\ job' = [job EXCEPT ![w] = j]
    BY <1>3 DEF Moves
  <2>2. record' = record
    BY <1>3 DEF Moves
  <2>3. /\ DOMAIN job' = Workers /\ job' = [v \in Workers |-> job'[v]]
        /\ job'[w] = j /\ \A v \in Workers \ {w} : job'[v] = job[v]
    BY <1>2, <2>1
  <2>4. \A v \in Workers : JobOK(job[v])' 
    BY <2>1, <2>2, <2>3 DEF Inv, JobOK, JobType
  <2>5. OwnRecords'
    BY <2>1, <2>3 DEF Inv, OwnRecords
  <2> QED BY <2>2, <2>3, <2>4, <2>5 DEF Inv
<1>4. ASSUME NEW w \in Workers, Adds(w) PROVE Inv'
  <2> DEFINE n == Len(record)
             x == [service |-> Mine(w), status |-> "RUNNING", diff |-> None]
             j == [job[w] EXCEPT !.pc = "compare", !.rec = n + 1]
  <2>1. /\ JobOK(job[w]) /\ job[w].pc = "create" /\ n < MaxRuns
        /\ record' = Append(record, x) /\ job' = [job EXCEPT ![w] = j]
    BY <1>4 DEF Adds, Inv
  <2>2. record \in Seq(RecordType) /\ n \in Nat /\ x \in RecordType
    BY <2>1 DEF Inv, RecordType, Mine, JobOK
  <2>3. /\ record' \in Seq(RecordType) /\ Len(record') = n + 1 /\ record'[n + 1] = x
        /\ \A r \in 1 .. n : record'[r] = record[r]
    BY <2>1, <2>2
  <2>4. /\ DOMAIN job' = Workers /\ job' = [v \in Workers |-> job'[v]]
        /\ job'[w] = j /\ \A v \in Workers \ {w} : job'[v] = job[v]
    BY <1>2, <2>1
  <2>5. ASSUME NEW v \in Workers \ {w} PROVE JobOK(job[v])'
    <3>1. JobOK(job[v])
      BY DEF Inv
    <3>2. \A r : /\ r \in 1 .. n => r \in 1 .. Len(record')
                 /\ r \in 0 .. n => r \in 0 .. Len(record')
      BY <2>2, <2>3
    <3>3. job'[v] = job[v] /\ job[v] \in JobType'
      BY <2>4, <3>1, <3>2 DEF JobOK, JobType
    <3> QED BY <2>3, <3>1, <3>2, <3>3 DEF JobOK
  <2>6. JobOK(job[w])'
    <3>1. /\ j.pc = "compare" /\ j.rec = n + 1 /\ j.service \in Services
          /\ j.seen \in Diffs \cup {None} /\ j.action \in Diffs \cup {None}
      BY <2>1 DEF JobOK, JobType
    <3>2. j \in JobType'
      <4>1. n + 1 \in 0 .. Len(record')
        BY <2>2, <2>3
      <4> QED BY <2>1, <4>1 DEF JobOK, JobType
    <3> HIDE DEF j, x
    <3>3. x.status = "RUNNING" /\ x.diff = None
      BY DEF x
    <3>4. j.rec \in 1 .. Len(record') /\ record'[j.rec] = x
      BY <2>2, <2>3, <3>1
    <3> QED BY <2>4, <3>1, <3>2, <3>3, <3>4 DEF JobOK
  <2>7. OwnRecords'
    <3>1. \A v \in Workers \ {w} : job[v].pc \in {"compare", "finish"} => job[v].rec \in 1 .. n
      BY DEF Inv, JobOK
    <3>2. job'[w].rec = n + 1
      BY <2>1, <2>4 DEF JobOK, JobType
    <3>3. \A v \in Workers \ {w} : job'[v].pc \in {"compare", "finish"} => job'[v].rec # job'[w].rec
      BY <2>2, <2>4, <3>1, <3>2
    <3> HIDE DEF j
    <3>4. \A u, v \in Workers \ {w} : job'[u] = job[u] /\ job'[v] = job[v]
      BY <2>4
    <3> QED BY <3>3, <3>4 DEF Inv, OwnRecords
  <2>8. Len(record') <= MaxRuns
    BY <2>1, <2>2, <2>3
  <2> QED BY <2>3, <2>4, <2>5, <2>6, <2>7, <2>8 DEF Inv
<1>5. ASSUME NEW w \in Workers, NEW x \in RecordType, Writes(w, x) PROVE Inv'
  <2> DEFINE r == job[w].rec
             j == job'[w]
  <2>1. /\ JobOK(job[w]) /\ record' = [record EXCEPT ![r] = x]
        /\ r \in 1 .. Len(record)
        /\ \A v \in Workers : JobOK(job[v])
    BY <1>5 DEF Writes, Inv, JobOK
  <2>2. /\ record' \in Seq(RecordType) /\ Len(record') = Len(record) /\ record'[r] = x
        /\ \A q \in 1 .. Len(record) : q # r => record'[q] = record[q]
    BY <2>1, Overwritten DEF Inv
  <2>3. \E k : job' = [job EXCEPT ![w] = k]
    BY <1>5 DEF Writes
  <2>4. /\ DOMAIN job' = Workers /\ job' = [v \in Workers |-> job'[v]]
        /\ \A v \in Workers \ {w} : job'[v] = job[v]
    BY <1>2, <2>3
  <2>5. \/ job[w].pc = "compare" /\ x.status = record[r].status /\ x.diff \in {None, "PENDING"}
        \/ job[w].pc = "finish" /\ x.diff = record[r].diff
        \/ job[w].pc = "mark" /\ x.diff = record[r].diff /\ x.status = "FAILED"
        \/ /\ job[w].pc = "review" /\ x.status = record[r].status
           /\ x.diff \in Diffs /\ record[r].diff # None
    BY <1>5, <2>1 DEF Writes, JobOK
  <2>6. ASSUME NEW v \in Workers \ {w} PROVE JobOK(job[v])'
    <3>1. Len(record) \in Nat
      BY DEF Inv
    <3>2. job[v].pc \in {"compare", "finish"} /\ job[v].rec = r => job[w].pc \notin {"compare", "finish"}
      BY DEF Inv, OwnRecords
    <3>3. job[v].pc \in {"compare", "finish"} =>
             record'[job[v].rec].status \in {"RUNNING", "FAILED"}
      BY <2>1, <2>2, <2>5, <3>2 DEF JobOK
    <3>4. job[v].pc = "compare" => record'[job[v].rec].diff = None
      BY <2>1, <2>2, <2>5, <3>2 DEF JobOK
    <3>5. job[v].pc = "review" => record'[job[v].rec].diff # None
      BY ReconciliationAssumption, <2>1, <2>2, <2>5 DEF JobOK
    <3> QED BY <2>1, <2>2, <2>4, <3>1, <3>3, <3>4, <3>5 DEF JobOK, JobType
  <2>7. JobOK(job[w])' /\ job'[w].rec \in {0, r}
        /\ (job'[w].pc \in {"compare", "finish"} =>
               job[w].pc = "compare" /\ job'[w].rec = r)
    <3>1. job[w] \in JobType /\ job[w].service \in Services \cup {None}
      BY <2>1 DEF JobOK, JobType
    <3>2. Len(record) \in Nat /\ 0 \in 0 .. Len(record)
      BY DEF Inv
    <3>3. CASE /\ job[w].pc = "compare"
               /\ x.status = record[r].status /\ x.diff \in {None, "PENDING"}
               /\ job' = [job EXCEPT ![w].pc = "finish", ![w].action = x.diff]
      <4> DEFINE k == [job[w] EXCEPT !.pc = "finish", !.action = x.diff]
      <4>1. job'[w] = k
        BY <1>2, <3>3
      <4>2. k \in JobType /\ k.pc = "finish" /\ k.rec = r /\ k.action = x.diff
            /\ k.service = job[w].service
        BY <3>1, <3>3 DEF JobType
      <4> HIDE DEF k
      <4>3. k \in JobType'
        BY <2>2, <4>2 DEF JobType
      <4> QED BY <2>1, <2>2, <3>3, <4>1, <4>2, <4>3 DEF JobOK
    <3>4. CASE job[w].pc = "finish" /\ job' = [job EXCEPT ![w].pc = "succeed"]
      <4> DEFINE k == [job[w] EXCEPT !.pc = "succeed"]
      <4>1. job'[w] = k
        BY <1>2, <3>4
      <4>2. k \in JobType /\ k.pc = "succeed" /\ k.rec = r /\ k.service = job[w].service
        BY <3>1, <3>4 DEF JobType
      <4> HIDE DEF k
      <4>3. k \in JobType'
        BY <2>2, <4>2 DEF JobType
      <4> QED BY <2>1, <3>4, <4>1, <4>2, <4>3 DEF JobOK
    <3>5. CASE job' = [job EXCEPT ![w] = Idle]
      <4>1. job'[w] = Idle
        BY <1>2, <3>5
      <4>2. Idle \in JobType /\ Idle.pc = "idle" /\ Idle.rec = 0
        BY <3>2 DEF JobType, Idle
      <4>3. Idle \in JobType'
        BY <2>2, <4>2 DEF JobType
      <4> QED BY <4>1, <4>2, <4>3 DEF JobOK
    <3> QED BY <1>5, <3>3, <3>4, <3>5 DEF Writes
  <2>8. OwnRecords'
    <3>1. \A v \in Workers \ {w} :
             job'[v].pc \in {"compare", "finish"} /\ job'[w].pc \in {"compare", "finish"}
             => job'[v].rec # job'[w].rec
      BY <2>4, <2>7 DEF Inv, OwnRecords
    <3> QED BY <2>4, <3>1 DEF Inv, OwnRecords
  <2>9. Len(record') <= MaxRuns
    BY <2>2 DEF Inv
  <2> QED BY <2>2, <2>4, <2>6, <2>7, <2>8, <2>9 DEF Inv
<1> QED BY StepKinds, <1>1, <1>3, <1>4, <1>5
LEMMA InitHolds == Init => Inv
<1> SUFFICES ASSUME Init PROVE Inv
  OBVIOUS
<1>1. record \in Seq(RecordType) /\ Len(record) = 0
  BY DEF Init
<1>2. Idle \in JobType /\ Idle.pc = "idle"
  BY <1>1 DEF Idle, JobType
<1> QED BY <1>1, <1>2, ReconciliationAssumption DEF Init, Inv, JobOK, OwnRecords

LEMMA InvHolds == Spec => []Inv
  BY InitHolds, InvStep, PTL DEF Spec

-----------------------------------------------------------------------------
(* Every reachable state is well typed, and no worker refers to a record   *)
(* that does not exist.                                                    *)
LEMMA BreakerSteps ==
    ASSUME NEW b \in Breakers
    PROVE  /\ Probed(b) \in Breakers /\ Succeeded(b) \in Breakers
           /\ Failed(b) \in Breakers /\ Ripened(b) \in Breakers
           /\ Expired(b) \subseteq Breakers
<1> USE ThresholdAssumption DEF Breakers
<1>1. Probed(b) \in Breakers
  BY DEF Probed
<1>2. Closed \in Breakers
  BY DEF Closed
<1>3. \A n \in 0 .. Threshold : Opened(n) \in Breakers
  BY DEF Opened
<1>4. b.fails \in 0 .. Threshold /\ (b.fails < Threshold => b.fails + 1 \in 0 .. Threshold)
  OBVIOUS
<1>5. \A c \in Breakers, n \in 0 .. Threshold : [c EXCEPT !.fails = n] \in Breakers
  OBVIOUS
<1>6. Failed(b) \in Breakers
  BY <1>3, <1>4, <1>5 DEF Failed
<1>7. Ripened(b) \in Breakers
  BY DEF Ripened
<1>8. [Closed EXCEPT !.fails = b.fails] \in Breakers /\ [b EXCEPT !.fails = 0] \in Breakers
  BY <1>2, <1>4, <1>5
<1>9. Expired(b) \subseteq Breakers
  BY <1>8 DEF Expired
<1> QED BY <1>1, <1>2, <1>6, <1>7, <1>9 DEF Succeeded

RestTyped ==
    /\ lock \in [Services -> Workers \cup {None}]
    /\ breaker \in [Services -> Breakers]
    /\ faults \in 0 .. MaxFaults /\ reviews \in 0 .. MaxReviews

LEMMA RestStep == Inv /\ RestTyped /\ [Next]_vars => RestTyped'
<1> SUFFICES ASSUME Inv, RestTyped, [Next]_vars PROVE RestTyped'
  OBVIOUS
<1> USE ReconciliationAssumption
<1>1. ASSUME NEW kind, Fault(kind) PROVE faults' \in 0 .. MaxFaults
  BY <1>1 DEF Fault, RestTyped
<1>2. ASSUME Smooth PROVE faults' \in 0 .. MaxFaults
  BY <1>2 DEF Smooth, RestTyped
<1>3. ASSUME NEW w, Raise(w) PROVE faults' \in 0 .. MaxFaults
  BY <1>1, <1>3 DEF Raise
<1>4. ASSUME NEW w \in Workers, Release(w) PROVE lock' \in [Services -> Workers \cup {None}]
  BY <1>4 DEF Release, RestTyped
<1>5. ASSUME NEW s, NEW b \in Breakers, breaker' = [breaker EXCEPT ![s] = b]
      PROVE  breaker' \in [Services -> Breakers]
  BY <1>5 DEF RestTyped
<1>6. ASSUME NEW w \in Workers, job[w].pc \in RunPCs
      PROVE  Mine(w) \in Services /\ breaker[Mine(w)] \in Breakers
  BY <1>6 DEF Inv, JobOK, Mine, RestTyped
<1>7. ASSUME NEW w \in Workers, NEW s \in Services, Begin(w, s) PROVE RestTyped'
  BY <1>7 DEF Begin, RestTyped
<1>8. ASSUME NEW w \in Workers, CheckBreaker(w) PROVE RestTyped'
  <2>1. breaker' \in [Services -> Breakers]
    <3>1. Mine(w) \in Services /\ breaker[Mine(w)] \in Breakers
      BY <1>6, <1>8 DEF CheckBreaker
    <3> QED BY <1>5, <1>8, <3>1, BreakerSteps DEF CheckBreaker, RestTyped
  <2> QED BY <1>1, <1>2, <1>8, <2>1 DEF CheckBreaker, RestTyped
<1>9. ASSUME NEW w \in Workers, Create(w) \/ Compare(w) \/ Finish(w) PROVE RestTyped'
  BY <1>2, <1>3, <1>9 DEF Create, Compare, Finish, RestTyped
<1>10. ASSUME NEW w \in Workers, Succeed(w) PROVE RestTyped'
  <2>1. breaker' \in [Services -> Breakers]
    <3>1. Mine(w) \in Services /\ breaker[Mine(w)] \in Breakers
      BY <1>6, <1>10 DEF Succeed
    <3> QED BY <1>5, <1>10, <3>1, BreakerSteps DEF Succeed, RestTyped
  <2> QED BY <1>1, <1>2, <1>4, <1>10, <2>1 DEF Succeed, RestTyped
<1>11. ASSUME NEW w \in Workers, Fail(w) PROVE RestTyped'
  <2>1. breaker' \in [Services -> Breakers]
    <3>1. Mine(w) \in Services /\ breaker[Mine(w)] \in Breakers
      BY <1>6, <1>11 DEF Fail
    <3> QED BY <1>5, <1>11, <3>1, BreakerSteps DEF Fail, RestTyped
  <2> QED BY <1>1, <1>2, <1>11, <2>1 DEF Fail, RestTyped
<1>12. ASSUME NEW w \in Workers, Pick(w) PROVE RestTyped'
  BY <1>4, <1>12 DEF Pick, RestTyped
<1>13. ASSUME NEW w \in Workers, Mark(w) PROVE RestTyped'
  BY <1>1, <1>2, <1>4, <1>13 DEF Mark, RestTyped
<1>14. ASSUME NEW w \in Workers, NEW r, NEW action, ReviewRead(w, r, action) PROVE RestTyped'
  BY <1>14 DEF ReviewRead, RestTyped
<1>15. ASSUME NEW w \in Workers, ReviewWrite(w) PROVE RestTyped'
  BY <1>15 DEF ReviewWrite, RestTyped
<1>16. ASSUME NEW w \in Workers, Crash(w) PROVE RestTyped'
  BY <1>1, <1>16 DEF Crash, RestTyped
<1>17. ASSUME NEW s \in Services, Time(s) PROVE RestTyped'
  <2>1. breaker[s] \in Breakers
    BY DEF RestTyped
  <2> QED BY <1>5, <1>17, <2>1, BreakerSteps DEF Time, RestTyped
<1>18. ASSUME NEW s \in Services, LockExpires(s) PROVE RestTyped'
  BY <1>18 DEF LockExpires, RestTyped
<1>19. CASE UNCHANGED vars
  BY <1>19 DEF vars, RestTyped
<1>20. CASE Next
  <2>1. \/ \E s \in Services : Time(s) \/ LockExpires(s)
        \/ \E w \in Workers :
              \/ CheckBreaker(w) \/ Create(w) \/ Compare(w) \/ Finish(w) \/ Succeed(w)
              \/ Fail(w) \/ Pick(w) \/ Mark(w) \/ ReviewWrite(w) \/ Crash(w)
              \/ \E s \in Services : Begin(w, s)
              \/ \E r \in DOMAIN record, action \in DOMAIN Transitions :
                    ReviewRead(w, r, action)
    BY <1>20 DEF Next, Step, FourWayCheck, ChannelCheck
  <2> QED BY <1>7, <1>8, <1>9, <1>10, <1>11, <1>12, <1>13, <1>14, <1>15, <1>16,
             <1>17, <1>18, <2>1
<1> QED BY <1>19, <1>20

THEOREM TypeCorrect == Spec => []TypeOK
<1>1. Init => RestTyped
  <2>1. Closed \in Breakers
    BY ThresholdAssumption DEF Closed, Breakers
  <2> QED BY <2>1, ReconciliationAssumption DEF Init, RestTyped
<1>2. Inv /\ RestTyped => TypeOK
  <2> SUFFICES ASSUME Inv, RestTyped PROVE TypeOK
    OBVIOUS
  <2>1. DOMAIN Transitions = Diffs /\ DOMAIN record = 1 .. Len(record) /\ Len(record) \in Nat
    BY DEF Transitions, Inv
  <2>2. 0 .. Len(record) = DOMAIN record \cup {0}
    BY <2>1
  <2>3. job \in [Workers -> JobType]
    BY DEF Inv, JobOK
  <2> QED BY <2>1, <2>2, <2>3 DEF TypeOK, RestTyped, Inv, JobType, RecordType
<1> QED BY <1>1, <1>2, RestStep, InvHolds, PTL DEF Spec

(* What was decided stands: a result is only taken back by the error       *)
(* handling of a B17 run, which had picked a record that was RUNNING, and a *)
(* final review only by a reviewer who had read the difference before it   *)
(* (reconciliation_b13_service.py, b17_channel_reconciliation_service.py). *)
THEOREM DecisionsAlwaysStand == Spec => DecisionsStand
<1> DEFINE A == \A r \in DOMAIN record :
                   (/\ record[r].status \in {"SUCCESS", "PARTIAL"}
                    /\ record'[r].status # record[r].status)
                   => \E w \in Workers : job[w].pc = "mark" /\ job[w].rec = r
           B == \A w \in Workers :
                   job[w].pc = "pick" /\ job'[w].pc = "mark"
                   => record[job'[w].rec].status = "RUNNING"
           C == \A r \in DOMAIN record :
                   (/\ record[r].diff \in {"RESOLVED", "IGNORED"}
                    /\ record'[r].diff # record[r].diff)
                   => \E w \in Workers : /\ job[w].pc = "review" /\ job[w].rec = r
                                         /\ job[w].seen \in {"PENDING", "REVIEWING"}
<1>1. ASSUME Inv, [Next]_vars PROVE A /\ B /\ C
  <2>0. DOMAIN record = 1 .. Len(record) /\ \A v \in Workers : JobOK(job[v])
    BY <1>1 DEF Inv
  <2>1. CASE UNCHANGED <<record, job>>
    BY <2>1
  <2>2. ASSUME NEW w \in Workers, NEW j, job' = [job EXCEPT ![w] = j]
        PROVE  job'[w] = j /\ \A v \in Workers \ {w} : job'[v] = job[v]
    BY <1>1, <2>2 DEF Inv
  <2>3. ASSUME NEW w \in Workers, Moves(w) PROVE A /\ B /\ C
    BY <2>2, <2>3 DEF Moves
  <2>4. ASSUME NEW w \in Workers, Adds(w) PROVE A /\ B /\ C
    <3>1. \A r \in DOMAIN record : record'[r] = record[r]
      BY <1>1, <2>4 DEF Adds, Inv
    <3>2. job[w].pc = "create" /\ \A v \in Workers \ {w} : job'[v] = job[v]
      BY <1>1, <2>4 DEF Adds, Inv
    <3> QED BY <3>1, <3>2
  <2>5. ASSUME NEW w \in Workers, NEW x \in RecordType, Writes(w, x) PROVE A /\ B /\ C
    <3>1. /\ JobOK(job[w]) /\ job[w].rec \in 1 .. Len(record)
          /\ record' = [record EXCEPT ![job[w].rec] = x]
      BY <2>0, <2>5 DEF Writes, JobOK
    <3>2. /\ record'[job[w].rec] = x
          /\ \A q \in 1 .. Len(record) : q # job[w].rec => record'[q] = record[q]
      BY <1>1, <3>1, Overwritten DEF Inv
    <3>3. /\ \A v \in Workers \ {w} : job'[v] = job[v]
          /\ job[w].pc # "pick"
      BY <2>2, <2>5 DEF Writes
    <3>4. A
      BY <2>0, <2>5, <3>1, <3>2 DEF Writes, JobOK
    <3>5. B
      BY <3>3
    <3>6. C
      BY <2>0, <2>5, <3>1, <3>2, ReconciliationAssumption DEF Writes, JobOK
    <3> QED BY <3>4, <3>5, <3>6
  <2> QED BY <1>1, <2>1, <2>3, <2>4, <2>5, StepKinds
<1> QED BY <1>1, InvHolds, PTL DEF DecisionsStand, Spec
=============================================================================
