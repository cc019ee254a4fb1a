------------------------ MODULE AccountLedgerProofs ------------------------
(***************************************************************************)
(* Theorems about AccountLedger, whatever fails and for any number of      *)
(* workers, operations and failures: its types, that the flows explain the *)
(* balances, and that whoever holds the gap where a user's row would be    *)
(* inserts the first row.                                                  *)
(***************************************************************************)
EXTENDS AccountLedger, TLAPS

(* Who is to write has a movement and a row to compute from, and who fills *)
(* the cache has read one.                                                 *)
HasRow(j)  == j.seen \in Rows /\ j.op \in Movements
Creates(j) == j.op \in Creators \cup {"register"}
Ready(j) ==
    /\ j.pc \in {"read", "locked"} => HasRow(j)
    /\ j.pc = "read" => j.op = "reverse"
    /\ j.pc = "create" => Creates(j)
    /\ j.pc = "fill" => j.seen \in Rows
Shape ==
    /\ rows \in Seq(Rows)
    /\ flows \in [Balances -> Int]
    /\ job \in [Workers -> Jobs]
    /\ \A w \in Workers : Ready(job[w])

(* Nobody has inserted a row beside a gap that is held. *)
GapIsEmpty == \A w \in Workers : HoldsGap(w) => Len(rows) = 0

(* One worker has the row locked, it is the only row, and unless it is a   *)
(* reversal the worker computes from what the row holds.                   *)
OneWriter == \A v, w \in Workers : job[v].pc = "locked" /\ job[w].pc = "locked" => v = w
SeesRow ==
    \A w \in Workers :
        job[w].pc = "locked"
            => Len(rows) = 1 /\ (job[w].op # "reverse" => rows[1] = job[w].seen)

Inv == Shape /\ GapIsEmpty /\ OneWriter /\ SeesRow /\ FlowsExplainBalances

-----------------------------------------------------------------------------
(* What a movement adds to the balances are integers; it never takes back  *)
(* what was paid out, and a reversal moves two of the balances only.       *)
LEMMA DeltaType ==
    ASSUME NEW op \in Movements
    PROVE  /\ Delta(op) \in [Balances -> Int] /\ Delta(op)["out"] >= 0
           /\ op = "reverse" => Delta(op)["frozen"] = 0 /\ Delta(op)["out"] = 0
BY DEF Movements, Delta, Balances

(* What a settlement or a freeze brings makes a row. *)
LEMMA NewRowType == ASSUME NEW op \in {"settle", "promise"} PROVE Delta(op) \in Rows
BY DEF Delta, Rows, Balances

(* So are the balances of a new row. *)
LEMMA ZeroType == Zero \in Rows
BY DEF Zero, Rows

(* At first there is no row and no gap is held. *)
LEMMA InitHolds == Init => Inv
<1> SUFFICES ASSUME Init PROVE Inv
    OBVIOUS
<1>1. Shape
    BY DEF Init, Shape, Idle, Jobs, Zero, Rows, Ready
<1>2. FlowsExplainBalances
    BY DEF Init, FlowsExplainBalances, Sum, Zero
<1> QED BY <1>1, <1>2 DEF Init, Inv, GapIsEmpty, HoldsGap, OneWriter, SeesRow, Idle

-----------------------------------------------------------------------------
(* The first of the rows. *)
LEMMA RowType ==
    ASSUME NEW S, NEW s \in Seq(S), Len(s) = 1 PROVE s[1] \in S
OBVIOUS

(* Replacing the only row. *)
LEMMA ReplaceFirst ==
    ASSUME NEW S, NEW s \in Seq(S), Len(s) = 1, NEW x \in S, NEW t, t = [s EXCEPT ![1] = x]
    PROVE  t \in Seq(S) /\ Len(t) = 1 /\ t[1] = x
OBVIOUS

(* What an action does to the row: nothing, or one of two things. *)
NewRow(w) == IF job[w].op \in Movements THEN Delta(job[w].op) ELSE Zero
Inserts(w) ==
    /\ job[w].pc = "create" /\ MayInsert(w)
    /\ rows' = Append(rows, NewRow(w))
    /\ flows' = [b \in Balances |-> flows[b] + NewRow(w)[b]]
    /\ stale' = stale
    /\ IF job[w].op \in Movements
       THEN job' = [job EXCEPT ![w].pc = "invalidate"]
       ELSE job' = [job EXCEPT ![w] = Idle]

Overwrites(w) ==
    /\ job[w].pc = "locked" /\ Enough(w)
    /\ rows' = [rows EXCEPT ![1] = [b \in Balances |->
                   IF Delta(job[w].op)[b] = 0 THEN rows[1][b]
                   ELSE job[w].seen[b] + Delta(job[w].op)[b]]]
    /\ flows' = [b \in Balances |-> flows[b] + Delta(job[w].op)[b]]
    /\ stale' = (stale \/ Outdated(w))
    /\ job' = [job EXCEPT ![w].pc = "invalidate"]

(* Every other step leaves the rows alone and takes one worker on. *)
Leaves(w) ==
    /\ rows' = rows /\ flows' = flows /\ stale' = stale
    /\ \E j \in Jobs :
          /\ job' = [job EXCEPT ![w] = j] /\ Ready(j)
          /\ (j.pc = "create" /\ j.op \in Creators) => Len(rows) = 0
          /\ j.pc = "locked" => /\ Unlocked /\ Len(rows) = 1
                                /\ j.op # "reverse" => rows[1] = j.seen

(* The steps of a worker, sorted that way. *)
LEMMA StepKinds ==
    ASSUME Inv, [Next]_vars
    PROVE  \/ UNCHANGED <<rows, flows, job, stale>>
           \/ \E w \in Workers : Inserts(w) \/ Overwrites(w) \/ Leaves(w)
<1> USE DEF Inv, Shape
<1> DEFINE Goal(w) == Inserts(w) \/ Overwrites(w) \/ Leaves(w)
<1>0. Idle \in Jobs /\ Idle.pc = "idle"
    BY DEF Idle, Jobs
<1>1. ASSUME NEW w \in Workers, Finish(w), UNCHANGED <<rows, flows, stale>> PROVE Leaves(w)
    BY <1>0, <1>1 DEF Finish, Leaves, Ready
<1>2. ASSUME NEW w \in Workers, NEW pc \in {"invalidate", "expire"}, Goto(w, pc),
             UNCHANGED <<rows, flows, stale>>
      PROVE  Leaves(w)
  <2> DEFINE j == [job[w] EXCEPT !.pc = pc]
  <2>1. j \in Jobs /\ j.pc = pc
      BY DEF Jobs
  <2>2. job' = [job EXCEPT ![w] = j]
      BY <1>2 DEF Goto
  <2> HIDE DEF j
  <2> QED BY <1>2, <2>1, <2>2 DEF Leaves, Ready
<1>3. ASSUME NEW w \in Workers, Register(w) PROVE Leaves(w)
  <2> DEFINE j == [pc |-> "create", op |-> "register", seen |-> None]
  <2>1. j \in Jobs
      BY DEF Jobs
  <2> QED BY <1>3, <2>1 DEF Register, Start, Leaves, Ready, Creates
<1>4. ASSUME NEW w \in Workers, NEW op, Lock(w, op) PROVE Leaves(w)
  <2>1. CASE Len(rows) = 1 /\ op \in Movements /\ Start(w, "locked", op, rows[1])
    <3> DEFINE j == [pc |-> "locked", op |-> op, seen |-> rows[1]]
    <3>1. rows[1] \in Rows
        BY <2>1, RowType
    <3>2. j \in Jobs /\ HasRow(j)
        BY <2>1, <3>1 DEF Jobs, HasRow
    <3> QED BY <1>4, <2>1, <3>2 DEF Lock, Start, Leaves, Ready
  <2>2. CASE rows = <<>> /\ op \in Creators /\ Start(w, "create", op, None)
    <3> DEFINE j == [pc |-> "create", op |-> op, seen |-> None]
    <3>1. j \in Jobs
        BY <2>2 DEF Jobs, Creators, Movements
    <3> QED BY <1>4, <2>2, <3>1 DEF Lock, Start, Leaves, Ready, Creates
  <2> QED BY <1>4, <2>1, <2>2 DEF Lock
<1>5. ASSUME NEW w \in Workers, ReadMiss(w) PROVE Leaves(w)
  <2> DEFINE seen == IF rows = <<>> THEN Zero ELSE rows[1]
             j == [pc |-> "fill", op |-> None, seen |-> seen]
  <2>1. seen \in Rows
    <3>1. rows # <<>> => rows[1] \in Rows
        OBVIOUS
    <3> QED BY <3>1, ZeroType
  <2>2. j \in Jobs /\ j.pc = "fill" /\ j.seen = seen
      BY <2>1 DEF Jobs
  <2>3. job' = [job EXCEPT ![w] = j] /\ UNCHANGED <<rows, flows, stale>>
      BY <1>5 DEF ReadMiss, Start
  <2> HIDE DEF seen, j
  <2> QED BY <2>1, <2>2, <2>3 DEF Leaves, Ready
<1>6. ASSUME NEW w \in Workers, Create(w) PROVE Goal(w)
  <2>1. CASE Finish(w) /\ UNCHANGED <<rows, flows>>
    BY <2>1, <1>1, <1>6 DEF Create
  <2>2. CASE ~(Finish(w) /\ UNCHANGED <<rows, flows>>)
    <3>1. /\ job[w].pc = "create" /\ MayInsert(w) /\ stale' = stale
          /\ rows' = Append(rows, NewRow(w))
          /\ flows' = [b \in Balances |-> flows[b] + NewRow(w)[b]]
      BY <1>6, <2>2 DEF Create, NewRow
    <3>2. IF job[w].op \in Movements THEN Goto(w, "invalidate") ELSE Finish(w)
      BY <1>6, <2>2 DEF Create
    <3> QED BY <3>1, <3>2 DEF Inserts, Goto, Finish
  <2> QED BY <2>1, <2>2
<1>7. ASSUME NEW w \in Workers, ReadAccount(w) \/ LockLate(w) PROVE Leaves(w)
  <2>1. CASE ReadAccount(w)
    <3> DEFINE j == [pc |-> "read", op |-> "reverse", seen |-> rows[1]]
    <3>1. rows[1] \in Rows
        BY <2>1, RowType DEF ReadAccount
    <3>2. j \in Jobs /\ HasRow(j)
        BY <3>1 DEF Jobs, HasRow, Movements
    <3> QED BY <2>1, <3>2 DEF ReadAccount, Start, Leaves, Ready
  <2>2. CASE LockLate(w) /\ Len(rows) = 1
    <3> DEFINE j == [job[w] EXCEPT !.pc = "locked"]
    <3>1. job[w].pc = "read" /\ Ready(job[w]) /\ job[w] \in Jobs
        BY <2>2 DEF LockLate
    <3>2. j \in Jobs /\ j.pc = "locked" /\ HasRow(j) /\ j.op = "reverse"
        BY <3>1 DEF Jobs, HasRow, Ready
    <3>3. job' = [job EXCEPT ![w] = j] /\ Unlocked /\ UNCHANGED <<rows, flows, stale>>
        BY <2>2 DEF LockLate, Goto
    <3> HIDE DEF j
    <3> QED BY <2>2, <3>2, <3>3 DEF Leaves, Ready
  <2>3. CASE LockLate(w) /\ Len(rows) # 1
      BY <2>3, <1>1 DEF LockLate
  <2> QED BY <1>7, <2>1, <2>2, <2>3
<1>8. ASSUME NEW w \in Workers, Write(w) PROVE Goal(w)
  <2>1. CASE Finish(w) /\ UNCHANGED <<rows, flows, stale>>
    BY <2>1, <1>1
  <2>2. CASE ~(Finish(w) /\ UNCHANGED <<rows, flows, stale>>)
    BY <1>8, <2>2 DEF Write, Overwrites, Goto
  <2> QED BY <2>1, <2>2
<1>9. ASSUME NEW w \in Workers, Invalidate(w) \/ Fill(w) \/ Expire(w) PROVE Leaves(w)
    BY <1>9, <1>1, <1>2 DEF Invalidate, Fill, Expire
<1>10. ASSUME NEW w \in Workers, Deadlock(w) \/ Crash(w) PROVE Leaves(w)
    BY <1>10, <1>1 DEF Deadlock, Crash
<1>11. CacheExpires \/ UNCHANGED vars => UNCHANGED <<rows, flows, job, stale>>
    BY DEF CacheExpires, vars
<1> QED
    BY <1>3, <1>4, <1>5, <1>6, <1>7, <1>8, <1>9, <1>10, <1>11 DEF Next, Step

-----------------------------------------------------------------------------
(* What flows explain of a balance that a stale reversal may have spoiled. *)
Exact(b) == stale => b \in {"frozen", "out"}

(* A worker that overwrites the row keeps it the only one, well typed, and *)
(* adds to each balance what its flow says, unless it wrote that balance   *)
(* from an outdated object.                                                *)
LEMMA OverwriteShape ==
    ASSUME Inv, NEW w \in Workers, Overwrites(w)
    PROVE  /\ rows' \in Seq(Rows) /\ Len(rows) = 1 /\ Len(rows') = 1
           /\ flows' \in [Balances -> Int]
           /\ \A b \in Balances :
                 Exact(b)' => Exact(b) /\ rows'[1][b] - rows[1][b] = flows'[b] - flows[b]
<1> DEFINE d == Delta(job[w].op)
           new == [b \in Balances |-> IF d[b] = 0 THEN rows[1][b]
                                      ELSE job[w].seen[b] + d[b]]
<1>1. /\ d \in [Balances -> Int] /\ d["out"] >= 0 /\ job[w].seen \in Rows
      /\ job[w].op = "reverse" => d["frozen"] = 0 /\ d["out"] = 0
    BY DeltaType DEF Overwrites, Inv, Shape, HasRow, Ready
<1>2. Len(rows) = 1 /\ (job[w].op # "reverse" => rows[1] = job[w].seen)
    BY DEF Overwrites, Inv, SeesRow
<1>3. rows[1] \in Rows /\ flows \in [Balances -> Int]
  <2>1. rows \in Seq(Rows) /\ flows \in [Balances -> Int]
      BY DEF Inv, Shape
  <2> QED BY <1>2, <2>1, RowType
<1>4. rows' = [rows EXCEPT ![1] = new] /\ flows' = [b \in Balances |-> flows[b] + d[b]]
    BY DEF Overwrites
<1>5. \A b \in {"available", "frozen"} : job[w].seen[b] + d[b] >= 0
    BY DEF Overwrites, Enough
<1> HIDE DEF d
<1>6. new \in Rows
  <2>1. ASSUME NEW b \in Balances PROVE new[b] \in Int /\ (b # "total" => new[b] >= 0)
    <3>1. /\ rows[1][b] \in Int /\ job[w].seen[b] \in Int /\ d[b] \in Int
          /\ b # "total" => rows[1][b] >= 0 /\ job[w].seen[b] >= 0
        BY <1>1, <1>3 DEF Rows
    <3>2. b \in {"available", "frozen"} => job[w].seen[b] + d[b] >= 0
        BY <1>5
    <3>3. b = "out" => d[b] >= 0
        BY <1>1
    <3> QED BY <3>1, <3>2, <3>3 DEF Balances
  <2>2. new \in [Balances -> Int]
      BY <2>1
  <2> QED BY <2>1, <2>2 DEF Rows
<1>7. ASSUME NEW b \in Balances, Exact(b)' PROVE new[b] = rows[1][b] + d[b]
  <2>1. rows[1][b] \in Int /\ d[b] \in Int
      BY <1>1, <1>3 DEF Rows
  <2>2. d[b] # 0 => rows[1][b] = job[w].seen[b]
    <3>1. CASE job[w].op # "reverse"
        BY <1>2, <3>1
    <3>2. CASE job[w].op = "reverse" /\ stale'
        BY <1>1, <1>7, <3>2 DEF Exact
    <3>3. CASE job[w].op = "reverse" /\ ~stale'
      <4>1. ~Outdated(w)
          BY <3>3 DEF Overwrites
      <4> QED BY <1>1, <3>3, <4>1 DEF Outdated, Balances
    <3> QED BY <3>1, <3>2, <3>3
  <2> QED BY <2>1, <2>2
<1> HIDE DEF new
<1>8. rows' \in Seq(Rows) /\ Len(rows') = 1 /\ rows'[1] = new
  <2>1. rows \in Seq(Rows)
      BY DEF Inv, Shape
  <2> QED BY <1>2, <1>4, <1>6, <2>1, ReplaceFirst
<1>9. flows' \in [Balances -> Int]
    BY <1>1, <1>3, <1>4
<1>10. ASSUME NEW b \in Balances, Exact(b)'
       PROVE  Exact(b) /\ rows'[1][b] - rows[1][b] = flows'[b] - flows[b]
  <2>1. d[b] \in Int /\ rows[1][b] \in Int /\ flows[b] \in Int
      BY <1>1, <1>3 DEF Rows
  <2>2. rows'[1][b] = rows[1][b] + d[b] /\ flows'[b] = flows[b] + d[b]
      BY <1>4, <1>7, <1>8, <1>10
  <2>3. Exact(b)
      BY <1>10 DEF Exact, Overwrites
  <2> QED BY <2>1, <2>2, <2>3
<1> QED BY <1>2, <1>8, <1>9, <1>10

(* A new row adds its own balances to what the rows hold together. *)
LEMMA InsertSum ==
    ASSUME Inv, NEW w \in Workers, Inserts(w)
    PROVE  /\ rows' \in Seq(Rows) /\ flows' \in [Balances -> Int]
           /\ FlowsExplainBalances'
<1> DEFINE row == NewRow(w)
<1>1. row \in Rows
  <2>1. job[w].op \in {"settle", "promise"} \/ job[w].op \notin Movements
      BY DEF Inserts, Inv, Shape, Ready, Creates, Creators, Movements
  <2> QED BY <2>1, NewRowType, ZeroType DEF NewRow, Movements
<1>2. rows' = Append(rows, row) /\ flows' = [b \in Balances |-> flows[b] + row[b]]
      /\ stale' = stale
    BY DEF Inserts
<1>3. rows \in Seq(Rows) /\ flows \in [Balances -> Int]
    BY DEF Inv, Shape
<1> HIDE DEF row
<1>4. rows' \in Seq(Rows) /\ Len(rows') = Len(rows) + 1 /\ rows'[Len(rows) + 1] = row
      /\ \A i \in 1 .. Len(rows) : rows'[i] = rows[i] /\ rows[i] \in Rows
    BY <1>1, <1>2, <1>3
<1>5. flows' \in [Balances -> Int]
    BY <1>1, <1>2, <1>3 DEF Rows
<1>6. ASSUME Len(rows') <= 2, NEW b \in Balances, Exact(b)' PROVE Sum(b)' = flows'[b]
  <2>1. Len(rows) \in {0, 1} /\ Sum(b) = flows[b]
    <3>1. Len(rows) \in Nat /\ Len(rows) + 1 <= 2 /\ Exact(b)
        BY <1>2, <1>3, <1>4, <1>6 DEF Exact
    <3>2. Len(rows) \in {0, 1} /\ Len(rows) <= 2
      <4>1. ASSUME NEW n \in Nat, n + 1 <= 2 PROVE n \in {0, 1} /\ n <= 2
          BY <4>1
      <4> QED BY <3>1, <4>1
    <3>3. FlowsExplainBalances
        BY DEF Inv
    <3> QED BY <1>6, <3>1, <3>2, <3>3 DEF FlowsExplainBalances, Exact
  <2>2. flows'[b] = flows[b] + row[b] /\ row[b] \in Int
      BY <1>1, <1>2 DEF Rows
  <2>3. CASE Len(rows) = 0
      BY <1>4, <2>1, <2>2, <2>3 DEF Sum
  <2>4. CASE Len(rows) = 1
    <3>1. rows'[1] = rows[1] /\ rows[1][b] \in Int
        BY <1>4, <2>4 DEF Rows
    <3> QED BY <1>4, <2>1, <2>2, <2>4, <3>1 DEF Sum
  <2> QED BY <2>1, <2>3, <2>4
<1> QED BY <1>4, <1>5, <1>6 DEF FlowsExplainBalances, Exact

(* Each kind of step keeps the invariant. *)
LEMMA InvStep == Inv /\ [Next]_vars => Inv'
<1> SUFFICES ASSUME Inv, [Next]_vars PROVE Inv'
    OBVIOUS
<1>1. CASE UNCHANGED <<rows, flows, job, stale>>
    BY <1>1 DEF Inv, Shape, GapIsEmpty, HoldsGap, OneWriter, SeesRow, FlowsExplainBalances, Sum
<1>2. ASSUME NEW w \in Workers, Inserts(w) PROVE Inv'
  <2>1. rows' \in Seq(Rows) /\ flows' \in [Balances -> Int] /\ FlowsExplainBalances'
      BY <1>2, InsertSum
  <2>2. /\ job' \in [Workers -> Jobs]
        /\ \A v \in Workers \ {w} : job'[v] = job[v]
        /\ job'[w].pc \in {"invalidate", "idle"}
    <3>1. CASE job' = [job EXCEPT ![w].pc = "invalidate"]
        BY <3>1 DEF Inv, Shape, Jobs
    <3>2. CASE job' = [job EXCEPT ![w] = Idle]
        BY <3>2 DEF Inv, Shape, Jobs, Idle
    <3> QED BY <1>2, <3>1, <3>2 DEF Inserts
  <2>3. Shape'
      BY <2>1, <2>2 DEF Inv, Shape, Ready
  <2>4. \A v \in Workers : ~HoldsGap(v)' /\ job'[v].pc # "locked"
      BY <1>2, <2>2 DEF Inserts, MayInsert, HoldsGap, Unlocked
  <2> QED BY <2>1, <2>3, <2>4 DEF Inv, GapIsEmpty, OneWriter, SeesRow
<1>3. ASSUME NEW w \in Workers, Overwrites(w) PROVE Inv'
  <2>1. /\ rows' \in Seq(Rows) /\ Len(rows) = 1 /\ Len(rows') = 1
        /\ flows' \in [Balances -> Int]
        /\ \A b \in Balances :
              Exact(b)' => Exact(b) /\ rows'[1][b] - rows[1][b] = flows'[b] - flows[b]
      BY <1>3, OverwriteShape
  <2>2. /\ job' \in [Workers -> Jobs]
        /\ \A v \in Workers \ {w} : job'[v] = job[v]
        /\ job'[w].pc = "invalidate" /\ job[w].pc = "locked"
      BY <1>3 DEF Overwrites, Inv, Shape, Jobs
  <2>3. Shape'
      BY <2>1, <2>2 DEF Inv, Shape, Ready
  <2>4. \A v \in Workers : job'[v].pc # "locked" /\ ~HoldsGap(v)'
      BY <2>1, <2>2 DEF Inv, OneWriter, GapIsEmpty, HoldsGap
  <2>5. ASSUME NEW b \in Balances, Exact(b)' PROVE Sum(b)' = flows'[b]
    <3>1. rows[1][b] \in Int /\ rows'[1][b] \in Int /\ flows[b] \in Int /\ flows'[b] \in Int
      <4>1. rows[1] \in Rows /\ rows'[1] \in Rows
        <5>1. rows \in Seq(Rows)
            BY DEF Inv, Shape
        <5> QED BY <2>1, <5>1, RowType
      <4> QED BY <2>1, <4>1 DEF Rows, Inv, Shape
    <3>2. Sum(b) = flows[b]
        BY <2>1, <2>5 DEF Inv, FlowsExplainBalances, Exact
    <3> QED BY <2>1, <2>5, <3>1, <3>2 DEF Sum
  <2>6. FlowsExplainBalances'
      BY <2>5 DEF FlowsExplainBalances, Exact
  <2> QED BY <2>3, <2>4, <2>6 DEF Inv, GapIsEmpty, OneWriter, SeesRow
<1>4. ASSUME NEW w \in Workers, Leaves(w) PROVE Inv'
  <2>1. PICK j \in Jobs :
          /\ job' = [job EXCEPT ![w] = j] /\ Ready(j)
          /\ (j.pc = "create" /\ j.op \in Creators) => Len(rows) = 0
          /\ j.pc = "locked" => /\ Unlocked /\ Len(rows) = 1
                                /\ j.op # "reverse" => rows[1] = j.seen
      BY <1>4 DEF Leaves
  <2>2. UNCHANGED <<rows, flows, stale>>
      BY <1>4 DEF Leaves
  <2>3. Shape'
      BY <2>1, <2>2 DEF Inv, Shape, Ready
  <2>4. GapIsEmpty'
      BY <2>1, <2>2 DEF Inv, Shape, GapIsEmpty, HoldsGap
  <2>5. job'[w] = j /\ \A v \in Workers \ {w} : job'[v] = job[v]
      BY <2>1 DEF Inv, Shape
  <2>6. OneWriter' /\ SeesRow'
    <3>1. CASE j.pc = "locked"
        BY <2>1, <2>2, <2>5, <3>1 DEF Unlocked, OneWriter, SeesRow
    <3>2. CASE j.pc # "locked"
        BY <2>1, <2>2, <2>5, <3>2 DEF Inv, OneWriter, SeesRow
    <3> QED BY <3>1, <3>2
  <2>7. FlowsExplainBalances'
      BY <2>2 DEF Inv, FlowsExplainBalances, Sum
  <2> QED BY <2>3, <2>4, <2>6, <2>7 DEF Inv
<1> QED BY StepKinds, <1>1, <1>2, <1>3, <1>4

(* The invariant holds in every state. *)
LEMMA InvHolds == Spec => []Inv
BY InitHolds, InvStep, PTL DEF Spec

-----------------------------------------------------------------------------
(* What the invariant leaves open of the types: the cache and the counters. *)
RestTyped ==
    /\ cache \in [val : Nat \cup {None}, expires : BOOLEAN]
    /\ stale \in BOOLEAN /\ leaked \in BOOLEAN
    /\ faults \in 0 .. MaxFaults /\ ops \in 0 .. MaxOps

LEMMA RestStep ==
    ASSUME Inv, RestTyped, [Next]_vars PROVE RestTyped'
<1> USE LedgerAssumption
<1>2. ASSUME NEW kind, Fault(kind) PROVE faults' \in 0 .. MaxFaults
    BY <1>2 DEF RestTyped, Fault
<1>3. ASSUME Smooth PROVE faults' \in 0 .. MaxFaults
    BY <1>3 DEF RestTyped, Smooth
<1>4. ASSUME ops < MaxOps, ops' = ops + 1 PROVE ops' \in 0 .. MaxOps
    BY <1>4 DEF RestTyped
<1>5. Uncached \in [val : Nat \cup {None}, expires : BOOLEAN]
    BY DEF Uncached
<1>6. CASE UNCHANGED vars
    BY <1>6 DEF RestTyped, vars
<1>7. CASE CacheExpires
    BY <1>5, <1>7 DEF RestTyped, CacheExpires
<1>8. ASSUME NEW w \in Workers, Register(w) \/ ReadAccount(w) \/ \E op : Lock(w, op) PROVE RestTyped'
    BY <1>4, <1>8 DEF RestTyped, Register, ReadAccount, Lock
<1>9. ASSUME NEW w \in Workers, ReadMiss(w) \/ Create(w) \/ Deadlock(w) \/ Write(w)
      PROVE  RestTyped'
    BY <1>2, <1>3, <1>9 DEF RestTyped, ReadMiss, Create, Deadlock, Write
<1>10. ASSUME NEW w \in Workers, LockLate(w) PROVE RestTyped'
    BY <1>10 DEF RestTyped, LockLate
<1>11. ASSUME NEW w \in Workers, Invalidate(w) PROVE RestTyped'
    BY <1>2, <1>3, <1>5, <1>11 DEF RestTyped, Invalidate
<1>12. ASSUME NEW w \in Workers, Fill(w) PROVE RestTyped'
  <2>1. job[w].seen.available \in Nat
    <3>1. job[w].seen \in Rows
        BY <1>12 DEF Fill, Inv, Shape, Ready
    <3> QED BY <3>1 DEF Rows, Balances
  <2>2. [val |-> job[w].seen.available, expires |-> FALSE]
           \in [val : Nat \cup {None}, expires : BOOLEAN]
      BY <2>1
  <2>3. UNCHANGED <<stale, leaked, ops>>
      BY <1>12 DEF Fill
  <2>4. cache' \in [val : Nat \cup {None}, expires : BOOLEAN] /\ faults' \in 0 .. MaxFaults
      BY <1>2, <1>3, <1>12, <2>2 DEF Fill, RestTyped
  <2> QED BY <2>3, <2>4 DEF RestTyped
<1>13. ASSUME NEW w \in Workers, Expire(w) PROVE RestTyped'
    BY <1>2, <1>3, <1>13 DEF RestTyped, Expire
<1>14. ASSUME NEW w \in Workers, Crash(w) PROVE RestTyped'
    BY <1>2, <1>14 DEF RestTyped, Crash
<1> QED
  <2>1. \/ UNCHANGED vars \/ CacheExpires
        \/ \E w \in Workers :
              \/ Register(w) \/ ReadAccount(w) \/ \E op : Lock(w, op)
              \/ ReadMiss(w) \/ Create(w) \/ Deadlock(w) \/ Write(w)
              \/ LockLate(w) \/ Invalidate(w) \/ Fill(w) \/ Expire(w) \/ Crash(w)
      BY DEF Next, Step
  <2> QED BY <2>1, <1>6, <1>7, <1>8, <1>9, <1>10, <1>11, <1>12, <1>13, <1>14

(* Every state is well typed; in particular neither the available nor the  *)
(* frozen balance is ever negative (Enough), although a reversal may       *)
(* compute from an outdated object.                                        *)
THEOREM TypeCorrect == Spec => []TypeOK
<1> USE LedgerAssumption
<1>1. Init => TypeOK
  <2> SUFFICES ASSUME Init PROVE TypeOK
      OBVIOUS
  <2>1. rows \in Seq(Rows) /\ flows \in [Balances -> Int] /\ job \in [Workers -> Jobs]
      BY InitHolds DEF Inv, Shape
  <2>2. cache \in [val : Nat \cup {None}, expires : BOOLEAN]
      BY DEF Init, Uncached
  <2>3. faults \in 0 .. MaxFaults /\ ops \in 0 .. MaxOps
      BY DEF Init
  <2> QED BY <2>1, <2>2, <2>3 DEF Init, TypeOK
<1>2. ASSUME Inv, Inv', TypeOK, [Next]_vars PROVE TypeOK'
  <2>1. rows' \in Seq(Rows) /\ flows' \in [Balances -> Int] /\ job' \in [Workers -> Jobs]
      BY <1>2 DEF Inv, Shape
  <2>2. RestTyped'
      BY <1>2, RestStep DEF TypeOK, RestTyped
  <2> QED BY <2>1, <2>2 DEF TypeOK, RestTyped
<1> QED BY <1>1, <1>2, InvHolds, PTL DEF Spec

(* The flows explain the balances, whatever fails, dies or is repeated     *)
(* (user_commission_account_dao.py, commission_settlement_dao.py,          *)
(* settlement_atomic_dao.py, b08_1_account_service.py): every committed    *)
(* movement is in the row and in the flows exactly once; only a reversal   *)
(* that was overtaken (refund_deduction_service.py) takes the available    *)
(* and the total balance out of this, never what is frozen or paid out.    *)
THEOREM FlowsAlwaysExplain == Spec => []FlowsExplainBalances
<1>1. Inv => FlowsExplainBalances
    BY DEF Inv
<1> QED BY <1>1, InvHolds, PTL

(* A second row comes only from the registration's or the order endpoint's *)
(* plain get_or_create (user_commission_account_dao.py): of the creators   *)
(* that lock the gap, none ever adds one.                                  *)
THEOREM SecondRowIsRegistered == Spec => SecondRowHasCause
<1> DEFINE Caused == Len(rows) > 0 /\ Len(rows') > Len(rows)
                     => \E w \in Workers : job[w].pc = "create" /\ job[w].op = "register"
                                           /\ job'[w] = Idle
<1>1. ASSUME Inv, [Next]_vars PROVE Caused
  <2>1. CASE UNCHANGED <<rows, flows, job, stale>>
      BY <2>1, <1>1 DEF Inv, Shape
  <2>2. ASSUME NEW w \in Workers, Inserts(w) PROVE Caused
    <3>1. CASE HoldsGap(w)
        BY <1>1, <2>2, <3>1 DEF Inv, GapIsEmpty
    <3>2. CASE ~HoldsGap(w)
      <4>1. job[w].pc = "create" /\ job[w].op = "register" /\ job \in [Workers -> Jobs]
          BY <1>1, <2>2, <3>2 DEF Inv, Shape, HoldsGap, Ready, Creates, Inserts
      <4>2. job' = [job EXCEPT ![w] = Idle]
          BY <4>1, <2>2 DEF Inserts, Movements
      <4> QED BY <4>1, <4>2
    <3> QED BY <3>1, <3>2
  <2>3. ASSUME NEW w \in Workers, Overwrites(w) PROVE Caused
      BY <1>1, <2>3, OverwriteShape DEF Inv, Shape
  <2>4. ASSUME NEW w \in Workers, Leaves(w) PROVE Caused
      BY <1>1, <2>4 DEF Leaves, Inv, Shape
  <2> QED BY <1>1, StepKinds, <2>1, <2>2, <2>3, <2>4
<1> QED BY <1>1, InvHolds, PTL DEF SecondRowHasCause, Spec
=============================================================================
