------------------------- MODULE WithdrawFlowProofs -------------------------
(***************************************************************************)
(* What holds of WithdrawFlow for every number of users, applications,     *)
(* workers, amounts and faults.  Type correctness and the conservation of  *)
(* money need no assumption.  The other theorems say under which scheduling *)
(* assumption they hold: leases outlive handlers (LeaseHolds), and the     *)
(* unlocked back-office path is not in use (AdminOps = {}).                *)
(***************************************************************************)
EXTENDS WithdrawFlow, SumTheorems

USE DEF OpenStatuses, Statuses, ReviewOps, B13Ops, SubmitPCs, LockedPCs, PCs

(* One step of the system, named for the case analyses below. *)
LEMMA StepCases ==
    ASSUME Next
    PROVE  \/ \E u \in Users, n \in Credits : Credit(u, n)
           \/ \E w \in Workers, u \in Users, n \in Amounts, a \in Applies :
                 SubmitBegin(w, u, n, a)
           \/ \E w \in Workers, op \in ReviewOps, a \in Applies : ReviewAcquire(w, op, a)
           \/ \E w \in Workers, op \in AdminOps, a \in Applies : B13Read(w, op, a)
           \/ \E w \in Workers :
                 \/ SubmitExpire(w) \/ SubmitLock(w) \/ SubmitValidate(w)
                 \/ SubmitDeduct(w) \/ SubmitCreate(w) \/ SubmitInvalidate(w)
                 \/ ReviewRead(w) \/ ReviewStatus(w) \/ ReviewAdjust(w)
                 \/ B13Write(w) \/ Release(w) \/ Crash(w)
           \/ \E k \in LockKeys : LeaseExpire(k)
           \/ \E u \in Users : SubmitKeyExpire(u)
  BY DEF Next, HandlerStep

-----------------------------------------------------------------------------
(* Types.  Moving amounts between the balances of one account keeps every  *)
(* account well typed as long as no balance is driven below zero.          *)
LEMMA MovedType ==
    ASSUME account \in [Users -> AccountType],
           NEW u, NEW dA \in Int, NEW dF \in Int, NEW dW \in Int, NEW dFee \in Nat,
           u \in Users => account[u].available + dA >= 0 /\ account[u].frozen + dF >= 0
    PROVE  Ledger!Moved(u, dA, dF, dW, dFee) \in [Users -> AccountType]
<1>1. CASE u \in Users
  <2>1. account[u] \in AccountType
    BY <1>1
  <2>2. [available |-> account[u].available + dA, frozen |-> account[u].frozen + dF,
         total |-> account[u].total, withdrawn |-> account[u].withdrawn + dW,
         fee |-> account[u].fee + dFee] \in AccountType
    BY <1>1, <2>1 DEF AccountType
  <2> QED BY <1>1, <2>2 DEF Ledger!Moved
<1>2. CASE u \notin Users
  BY <1>2 DEF Ledger!Moved
<1> QED BY <1>1, <1>2

LEMMA InitType == Init => TypeOK
<1> SUFFICES ASSUME Init PROVE TypeOK
  OBVIOUS
<1>1. Ledger!ZeroAccount \in AccountType
  BY DEF Ledger!ZeroAccount, AccountType
<1>2. Ledger!NoHold \in HoldType
  BY DEF Ledger!NoHold, HoldType
<1>3. Idle \in JobType
  BY DEF Idle, JobType
<1>4. NoApply \in ApplyType
  BY DEF NoApply, ApplyType
<1>5. Idle.pc = "idle"
  BY DEF Idle
<1> QED BY <1>1, <1>2, <1>3, <1>4, <1>5 DEF Init, TypeOK

(* A worker that moves to another step, or back to idle, keeps its job typed. *)
JobsTyped ==
    /\ job \in [Workers -> JobType]
    /\ \A v \in Workers :
          /\ job[v].pc \in {"read", "status", "adjust"} =>
                job[v].op \in ReviewOps /\ job[v].apply \in Applies
          /\ job[v].pc = "b13" => job[v].op \in AdminOps
          /\ job[v].pc \in SubmitPCs => job[v].user \in Users

LEMMA JobStep ==
    ASSUME JobsTyped, NEW w \in Workers, NEW j \in JobType,
           j.pc \in {"read", "status", "adjust"} => j.op \in ReviewOps /\ j.apply \in Applies,
           j.pc = "b13" => j.op \in AdminOps,
           j.pc \in SubmitPCs => j.user \in Users,
           job' = [job EXCEPT ![w] = j]
    PROVE  JobsTyped'
  BY DEF JobsTyped

LEMMA FinishType ==
    ASSUME JobsTyped, NEW w \in Workers, Finish(w)
    PROVE  JobsTyped'
<1>1. Idle \in JobType /\ Idle.pc = "idle"
  BY DEF Idle, JobType
<1> QED BY <1>1, JobStep DEF Finish

LEMMA GotoType ==
    ASSUME JobsTyped, NEW w \in Workers, NEW pc \in PCs \ {"read", "status", "b13"},
           pc = "adjust" => job[w].op \in ReviewOps /\ job[w].apply \in Applies,
           pc \in SubmitPCs => job[w].pc \in SubmitPCs,
           Goto(w, pc)
    PROVE  JobsTyped'
<1> DEFINE j == [job[w] EXCEPT !.pc = pc]
<1>1. job[w] \in JobType
  BY DEF JobsTyped
<1>2. /\ j \in JobType /\ j.pc = pc /\ j.op = job[w].op
      /\ j.apply = job[w].apply /\ j.user = job[w].user
  BY <1>1 DEF JobType
<1>3. job' = [job EXCEPT ![w] = j]
  BY DEF Goto
<1> HIDE DEF j
<1>4. j.pc \in SubmitPCs => j.user \in Users
  BY <1>2 DEF JobsTyped
<1> QED BY <1>2, <1>3, <1>4, JobStep

LEMMA StepType == TypeOK /\ [Next]_vars => TypeOK'
<1> SUFFICES ASSUME TypeOK, [Next]_vars PROVE TypeOK'
  OBVIOUS
<1> USE ConstantsAssumption
<1>t. JobsTyped
  BY DEF TypeOK, JobsTyped
<1>0. CASE UNCHANGED vars
  BY <1>0 DEF TypeOK, vars
<1>1. ASSUME NEW u \in Users, NEW n \in Credits, Credit(u, n) PROVE TypeOK'
  <2>1. account[u] \in AccountType /\ n \in Nat
    BY DEF TypeOK
  <2>2. [account[u] EXCEPT !.available = account[u].available + n,
                           !.total = account[u].total + n] \in AccountType
    <3>1. account[u].available + n \in Nat /\ account[u].total + n \in Nat
      BY <2>1 DEF AccountType
    <3> QED BY <2>1, <3>1 DEF AccountType
  <2>3. account' = [account EXCEPT ![u] =
                       [account[u] EXCEPT !.available = account[u].available + n,
                                          !.total = account[u].total + n]]
    BY <1>1, <2>1 DEF Credit, Ledger!Credit, AccountType, TypeOK
  <2>4. account' \in [Users -> AccountType]
    BY <2>2, <2>3 DEF TypeOK
  <2> QED BY <1>1, <2>4 DEF Credit, Ledger!Credit, TypeOK
<1>2. ASSUME NEW w \in Workers, NEW u \in Users, NEW n \in Amounts, NEW a \in Applies,
             SubmitBegin(w, u, n, a)
      PROVE  TypeOK'
  <2>1. [pc |-> "expire", op |-> "submit", apply |-> a, user |-> u,
         amount |-> n, fee |-> 0] \in JobType
    BY DEF JobType
  <2> QED BY <1>2, <2>1 DEF SubmitBegin, TypeOK
<1>3. ASSUME NEW w \in Workers, NEW op \in ReviewOps, NEW a \in Applies,
             ReviewAcquire(w, op, a)
      PROVE  TypeOK'
  <2>1. [Idle EXCEPT !.pc = "read", !.op = op, !.apply = a] \in JobType
    BY DEF JobType, Idle
  <2>2. [Idle EXCEPT !.pc = "read", !.op = op, !.apply = a].op = op
        /\ [Idle EXCEPT !.pc = "read", !.op = op, !.apply = a].pc = "read"
        /\ [Idle EXCEPT !.pc = "read", !.op = op, !.apply = a].apply = a
    BY DEF Idle
  <2>3. JobsTyped'
    BY <1>3, <1>t, <2>1, <2>2, JobStep DEF ReviewAcquire
  <2> QED BY <1>3, <2>3 DEF ReviewAcquire, JobsTyped, TypeOK
<1>4. ASSUME NEW w \in Workers, NEW op \in AdminOps, NEW a \in Applies, B13Read(w, op, a)
      PROVE  TypeOK'
  <2>1. [Idle EXCEPT !.pc = "b13", !.op = op, !.apply = a] \in JobType
    BY DEF JobType, Idle
  <2>2. [Idle EXCEPT !.pc = "b13", !.op = op, !.apply = a].op = op
        /\ [Idle EXCEPT !.pc = "b13", !.op = op, !.apply = a].pc = "b13"
    BY DEF Idle
  <2> QED BY <1>4, <2>1, <2>2 DEF B13Read, TypeOK
<1>5. ASSUME NEW w \in Workers, SubmitExpire(w) PROVE TypeOK'
  <2>1. JobsTyped'
    BY <1>5, <1>t, FinishType, GotoType DEF SubmitExpire
  <2> QED BY <1>5, <2>1 DEF SubmitExpire, JobsTyped, TypeOK
<1>6. ASSUME NEW w \in Workers, SubmitLock(w) PROVE TypeOK'
  <2>1. JobsTyped'
    BY <1>6, <1>t, FinishType, GotoType DEF SubmitLock
  <2> QED BY <1>6, <2>1 DEF SubmitLock, JobsTyped, TypeOK
<1>7. ASSUME NEW w \in Workers, SubmitValidate(w) PROVE TypeOK'
  <2>1. DOMAIN dailyUsed' = Users
    BY <1>7 DEF SubmitValidate, TypeOK
  <2>2. /\ job[w] \in JobType /\ job[w].pc = "validate" /\ job[w].user \in Users
        /\ blind' \subseteq Users
    BY <1>7 DEF SubmitValidate, TypeOK
  <2>3. Goto(w, "release") => JobsTyped'
    BY <1>t, GotoType
  <2>4. ASSUME NEW f \in Fees, job' = [job EXCEPT ![w].pc = "deduct", ![w].fee = f]
        PROVE  JobsTyped'
    <3> DEFINE j == [job[w] EXCEPT !.pc = "deduct", !.fee = f]
    <3>1. f \in Nat
      OBVIOUS
    <3>2. j \in JobType /\ j.pc = "deduct" /\ j.user = job[w].user
      BY <2>2, <3>1 DEF JobType
    <3>3. job' = [job EXCEPT ![w] = j]
      BY <2>4
    <3> HIDE DEF j
    <3> QED BY <2>2, <3>2, <3>3, <1>t, JobStep
  <2>5. JobsTyped'
    BY <1>7, <2>3, <2>4 DEF SubmitValidate
  <2> QED BY <1>7, <2>1, <2>2, <2>5 DEF SubmitValidate, JobsTyped, TypeOK
<1>8. ASSUME NEW w \in Workers, SubmitDeduct(w) PROVE TypeOK'
  <2> DEFINE j == job[w]
  <2>1. j \in JobType /\ j.amount \in Nat
    BY DEF TypeOK, JobType
  <2>2. JobsTyped'
    BY <1>8, <1>t, GotoType DEF SubmitDeduct
  <2>3. account' \in [Users -> AccountType]
    <3>1. CASE UNCHANGED account
      BY <3>1 DEF TypeOK
    <3>2. CASE account[j.user].available >= j.amount
               /\ account' = Ledger!Moved(j.user, -j.amount, j.amount, 0, 0)
      <4>1. j.user \in Users => account[j.user] \in AccountType
        BY DEF TypeOK
      <4>2. j.user \in Users =>
               account[j.user].available + (-j.amount) >= 0
               /\ account[j.user].frozen + j.amount >= 0
        BY <2>1, <3>2, <4>1 DEF AccountType
      <4>3. -j.amount \in Int /\ 0 \in Nat /\ 0 \in Int
        BY <2>1
      <4>4. account \in [Users -> AccountType]
        BY DEF TypeOK
      <4>5. Ledger!Moved(j.user, -j.amount, j.amount, 0, 0) \in [Users -> AccountType]
        BY ONLY <2>1, <4>2, <4>3, <4>4, MovedType
      <4> QED BY <3>2, <4>5
    <3> QED BY <1>8, <3>1, <3>2 DEF SubmitDeduct
  <2>4. hold' \in [Applies -> HoldType]
    BY <1>8, <2>1 DEF SubmitDeduct, TypeOK, JobType, HoldType
  <2> QED BY <1>8, <2>2, <2>3, <2>4 DEF SubmitDeduct, JobsTyped, TypeOK
<1>9. ASSUME NEW w \in Workers, SubmitCreate(w) PROVE TypeOK'
  <2>1. job[w] \in JobType
    BY DEF TypeOK
  <2>2. JobsTyped'
    BY <1>9, <1>t, GotoType DEF SubmitCreate
  <2>3. apply' \in [Applies -> ApplyType]
    BY <1>9, <2>1 DEF SubmitCreate, TypeOK, JobType, ApplyType
  <2> QED BY <1>9, <2>2, <2>3 DEF SubmitCreate, JobsTyped, TypeOK
<1>10. ASSUME NEW w \in Workers, SubmitInvalidate(w) PROVE TypeOK'
  <2>1. JobsTyped'
    BY <1>10, <1>t, GotoType DEF SubmitInvalidate
  <2>2. blind' \subseteq Users /\ DOMAIN dailyUsed' = Users
    BY <1>10 DEF SubmitInvalidate, LeftBehind, TypeOK
  <2> QED BY <1>10, <2>1, <2>2 DEF SubmitInvalidate, JobsTyped, TypeOK
<1>11. ASSUME NEW w \in Workers, ReviewRead(w) PROVE TypeOK'
  <2> DEFINE r == apply[job[w].apply]
             k == [job[w] EXCEPT !.pc = "status", !.user = r.user,
                                 !.amount = r.amount, !.fee = r.fee]
  <2>1. job[w] \in JobType /\ job[w].op \in ReviewOps /\ job[w].apply \in Applies
    BY <1>11 DEF ReviewRead, TypeOK
  <2>2. /\ k \in JobType /\ k.op = job[w].op
        /\ k.apply = job[w].apply /\ k.pc = "status"
    BY <2>1 DEF JobType, ApplyType, TypeOK
  <2>3. Goto(w, "release") \/ job' = [job EXCEPT ![w] = k]
    BY <1>11 DEF ReviewRead
  <2> HIDE DEF k
  <2>4. JobsTyped'
    BY <1>t, <2>1, <2>2, <2>3, GotoType, JobStep
  <2> QED BY <1>11, <2>4 DEF ReviewRead, JobsTyped, TypeOK
<1>12. ASSUME NEW w \in Workers, ReviewStatus(w) PROVE TypeOK'
  <2>1. /\ job[w] \in JobType /\ job[w].op \in ReviewOps
        /\ job[w].apply \in Applies
    BY <1>12 DEF ReviewStatus, TypeOK
  <2>2. WritesStatus[job[w].op] \in Statuses
    BY <2>1 DEF WritesStatus
  <2>3. Goto(w, "release") \/ Goto(w, "adjust")
    BY <1>12 DEF ReviewStatus
  <2>4. JobsTyped'
    BY <1>t, <2>1, <2>3, GotoType
  <2>5. apply' \in [Applies -> ApplyType]
    <3>1. apply[job[w].apply] \in ApplyType
      BY <2>1 DEF TypeOK
    <3>2. [apply[job[w].apply] EXCEPT !.status = WritesStatus[job[w].op]] \in ApplyType
      BY <2>2, <3>1 DEF ApplyType
    <3> QED BY <1>12, <3>2 DEF ReviewStatus, TypeOK
  <2> QED BY <1>12, <2>4, <2>5 DEF ReviewStatus, JobsTyped, TypeOK
<1>13. ASSUME NEW w \in Workers, ReviewAdjust(w) PROVE TypeOK'
  <2> DEFINE j == job[w]
  <2>1. j \in JobType /\ j.amount \in Nat /\ j.fee \in Nat
    BY DEF TypeOK, JobType
  <2>3. account' \in [Users -> AccountType]
    <3>1. CASE UNCHANGED account
      BY <3>1 DEF TypeOK
    <3>2. CASE account[j.user].frozen >= j.amount
               /\ account' = IF j.op = "complete"
                    THEN Ledger!Moved(j.user, 0, -j.amount, j.amount - j.fee, j.fee)
                    ELSE Ledger!Moved(j.user, j.amount, -j.amount, 0, 0)
      <4>1. j.user \in Users => account[j.user] \in AccountType
        BY DEF TypeOK
      <4>2. j.user \in Users =>
               /\ account[j.user].available + 0 >= 0
               /\ account[j.user].available + j.amount >= 0
               /\ account[j.user].frozen + (-j.amount) >= 0
        BY <2>1, <3>2, <4>1 DEF AccountType
      <4>5. account \in [Users -> AccountType]
        BY DEF TypeOK
      <4>6. /\ 0 \in Nat /\ 0 \in Int /\ j.amount \in Int /\ -j.amount \in Int
            /\ j.amount - j.fee \in Int
        BY <2>1
      <4> HIDE DEF j
      <4>3. Ledger!Moved(j.user, 0, -j.amount, j.amount - j.fee, j.fee)
               \in [Users -> AccountType]
        BY ONLY <2>1, <4>2, <4>5, <4>6, MovedType
      <4>4. Ledger!Moved(j.user, j.amount, -j.amount, 0, 0) \in [Users -> AccountType]
        BY ONLY <4>2, <4>5, <4>6, MovedType
      <4> QED BY <3>2, <4>3, <4>4
    <3> QED BY <1>13, <3>1, <3>2 DEF ReviewAdjust
  <2>4. hold' \in [Applies -> HoldType]
    <3> DEFINE st == IF j.op = "complete" THEN "paid" ELSE "refunded"
    <3>1. hold[j.apply] \in HoldType
      BY <1>13 DEF ReviewAdjust, TypeOK
    <3>2. [hold[j.apply] EXCEPT !.state = st] \in HoldType
      BY <3>1 DEF HoldType
    <3> QED BY <1>13, <3>2 DEF ReviewAdjust, TypeOK
  <2>5. JobsTyped'
    BY <1>13, <1>t, GotoType DEF ReviewAdjust
  <2> QED BY <1>13, <2>3, <2>4, <2>5 DEF ReviewAdjust, JobsTyped, TypeOK
<1>14. ASSUME NEW w \in Workers, B13Write(w) PROVE TypeOK'
  <2>1. WritesStatus[job[w].op] \in Statuses
    BY <1>14 DEF B13Write, TypeOK, WritesStatus
  <2>2. JobsTyped'
    BY <1>14, <1>t, FinishType DEF B13Write
  <2>3. apply' \in [Applies -> ApplyType]
    <3>1. CASE job[w].apply \in Applies
      <4>1. [apply[job[w].apply] EXCEPT !.status = WritesStatus[job[w].op]] \in ApplyType
        BY <2>1, <3>1 DEF TypeOK, ApplyType
      <4> QED BY <1>14, <3>1, <4>1 DEF B13Write, TypeOK
    <3>2. CASE job[w].apply \notin Applies
      BY <1>14, <3>2 DEF B13Write, TypeOK
    <3> QED BY <3>1, <3>2
  <2> QED BY <1>14, <2>2, <2>3 DEF B13Write, JobsTyped, TypeOK
<1>15. ASSUME NEW w \in Workers, Release(w) PROVE TypeOK'
  <2>1. JobsTyped'
    BY <1>15, <1>t, FinishType DEF Release
  <2> QED BY <1>15, <2>1 DEF Release, JobsTyped, TypeOK
<1>16. ASSUME NEW w \in Workers, Crash(w) PROVE TypeOK'
  <2>1. JobsTyped'
    BY <1>16, <1>t, FinishType DEF Crash
  <2>2. blind' \subseteq Users
    BY <1>16 DEF Crash, LeftBehind, TypeOK
  <2> QED BY <1>16, <2>1, <2>2 DEF Crash, JobsTyped, TypeOK
<1>17. ASSUME NEW k \in LockKeys, LeaseExpire(k) PROVE TypeOK'
  BY <1>17 DEF LeaseExpire, TypeOK
<1>18. ASSUME NEW u \in Users, SubmitKeyExpire(u) PROVE TypeOK'
  BY <1>18 DEF SubmitKeyExpire, TypeOK
<1> QED BY <1>0, <1>1, <1>2, <1>3, <1>4, <1>5, <1>6, <1>7, <1>8, <1>9, <1>10, <1>11,
           <1>12, <1>13, <1>14, <1>15, <1>16, <1>17, <1>18, StepCases

(* Every variable keeps its type, for every instance. *)
THEOREM TypeCorrect == Spec => []TypeOK
  BY InitType, StepType, PTL DEF Spec

-----------------------------------------------------------------------------
(* Money.  Only three steps touch an account at all. *)
LEMMA AccountSteps ==
    ASSUME [Next]_vars
    PROVE  \/ UNCHANGED account
           \/ \E u \in Users, n \in Credits : Credit(u, n)
           \/ \E w \in Workers : SubmitDeduct(w) \/ ReviewAdjust(w)
<1>1. CASE UNCHANGED vars
  BY <1>1 DEF vars
<1>2. CASE Next
  BY <1>2, StepCases DEF SubmitBegin, ReviewAcquire, B13Read, SubmitExpire, SubmitLock,
     SubmitValidate, SubmitCreate, SubmitInvalidate, ReviewRead, ReviewStatus, B13Write,
     Release, Crash, LeaseExpire, SubmitKeyExpire
<1> QED BY <1>1, <1>2

Balanced(r) == r.available + r.frozen + r.withdrawn + r.fee = r.total

LEMMA MovedBalanced ==
    ASSUME account \in [Users -> AccountType], NEW x, NEW u \in Users,
           NEW n \in Nat, NEW f \in Nat, Balanced(account[u])
    PROVE  /\ Balanced(Ledger!Moved(x, -n, n, 0, 0)[u])
           /\ Balanced(Ledger!Moved(x, n, -n, 0, 0)[u])
           /\ Balanced(Ledger!Moved(x, 0, -n, n - f, f)[u])
<1>1. account[u] \in AccountType
  OBVIOUS
<1>2. CASE x = u
  BY <1>1, <1>2 DEF Ledger!Moved, AccountType, Balanced
<1>3. CASE x # u
  BY <1>3 DEF Ledger!Moved
<1> QED BY <1>2, <1>3

LEMMA StepConserves == TypeOK /\ Conservation /\ [Next]_vars => Conservation'
<1> SUFFICES ASSUME TypeOK, Conservation, [Next]_vars, NEW u \in Users
             PROVE  Balanced(account'[u])
  BY DEF Conservation, Balanced
<1>1. account \in [Users -> AccountType] /\ account[u] \in AccountType
  BY DEF TypeOK
<1>2. Balanced(account[u])
  BY DEF Conservation, Balanced
<1>3. CASE UNCHANGED account
  BY <1>2, <1>3
<1>4. ASSUME NEW x \in Users, NEW n \in Credits, Credit(x, n) PROVE Balanced(account'[u])
  <2> DEFINE r == [account[u] EXCEPT !.available = account[u].available + n,
                                    !.total = account[u].total + n]
  <2>1. n \in Nat
    BY ConstantsAssumption
  <2>2. Balanced(r)
    BY <1>1, <1>2, <2>1 DEF Balanced, AccountType
  <2>3. account'[u] = IF x = u THEN r ELSE account[u]
    BY <1>1, <1>4 DEF Credit, Ledger!Credit, AccountType
  <2> QED BY <1>2, <2>2, <2>3
<1>5. ASSUME NEW w \in Workers, SubmitDeduct(w) PROVE Balanced(account'[u])
  <2>1. job[w].amount \in Nat
    BY DEF TypeOK, JobType
  <2>2. Balanced(Ledger!Moved(job[w].user, -job[w].amount, job[w].amount, 0, 0)[u])
    BY <1>1, <1>2, <2>1, MovedBalanced
  <2> QED BY <1>2, <1>5, <2>2 DEF SubmitDeduct
<1>6. ASSUME NEW w \in Workers, ReviewAdjust(w) PROVE Balanced(account'[u])
  <2> DEFINE j == job[w]
  <2>1. j.amount \in Nat /\ j.fee \in Nat
    BY DEF TypeOK, JobType
  <2>2. /\ Balanced(Ledger!Moved(j.user, 0, -j.amount, j.amount - j.fee, j.fee)[u])
        /\ Balanced(Ledger!Moved(j.user, j.amount, -j.amount, 0, 0)[u])
    BY <1>1, <1>2, <2>1, MovedBalanced
  <2> QED BY <1>2, <1>6, <2>2 DEF ReviewAdjust
<1> QED BY <1>3, <1>4, <1>5, <1>6, AccountSteps

(* Money credited to a user is never lost or created, whatever fails,      *)
(* crashes or overruns its lease, and with the unlocked back-office path.  *)
THEOREM MoneyConserved == Spec => []Conservation
<1>1. Init => Conservation
  BY DEF Init, Conservation, Ledger!ZeroAccount
<1> QED BY <1>1, TypeCorrect, StepConserves, PTL DEF Spec

-----------------------------------------------------------------------------
(* The handlers under leases that hold and no unlocked path.  A step of    *)
(* worker w is judged by what it does to its own job (MoverOK), to the lock *)
(* it takes or frees, and to the one row and one hold it writes.           *)
Safe == OpenIsHeld /\ OutcomeMatchesMoney /\ HandlerInv

OthersKeep(w) == \A v \in Workers : v # w => job'[v] = job[v]

(* The next job of w: another pc, everything else kept. *)
Moves(w, pc) ==
    /\ OthersKeep(w)
    /\ job'[w].pc = pc /\ job'[w].op = job[w].op /\ job'[w].apply = job[w].apply
    /\ job'[w].user = job[w].user /\ job'[w].amount = job[w].amount
    /\ job'[w].fee = job[w].fee

LEMMA GotoMoves ==
    ASSUME TypeOK, NEW w \in Workers, NEW pc, Goto(w, pc)
    PROVE  Moves(w, pc)
  BY DEF TypeOK, Goto, JobType, Moves, OthersKeep

LEMMA FinishMoves ==
    ASSUME TypeOK, NEW w \in Workers, Finish(w)
    PROVE  OthersKeep(w) /\ job'[w].pc = "idle"
  BY DEF TypeOK, Finish, Idle, OthersKeep

LEMMA LocksKept ==
    ASSUME LocksAreHeld, NEW w \in Workers, OthersKeep(w),
           \A k \in LockKeys : lock[k] \in Workers \ {w} => lock'[k] = lock[k],
           job'[w].pc \in LockedPCs =>
               LockKey(job'[w]) \in LockKeys /\ lock'[LockKey(job'[w])] = w
    PROVE  LocksAreHeld'
<1> SUFFICES ASSUME NEW v \in Workers, job'[v].pc \in LockedPCs
             PROVE  LockKey(job'[v]) \in LockKeys /\ lock'[LockKey(job'[v])] = v
  BY DEF LocksAreHeld, LockKey, LockKeys
<1>1. CASE v = w
  BY <1>1
<1>2. CASE v # w
  <2>1. job'[v] = job[v]
    BY <1>2 DEF OthersKeep
  <2>2. LockKey(job[v]) \in LockKeys /\ lock[LockKey(job[v])] = v
    BY <2>1 DEF LocksAreHeld
  <2> QED BY <1>2, <2>1, <2>2
<1> QED BY <1>1, <1>2

(* ... a step that stays under the lock it works under, or leaves it. *)
LEMMA SameLock ==
    ASSUME LocksAreHeld, NEW w \in Workers, NEW pc, Moves(w, pc), UNCHANGED lock,
           pc \in LockedPCs => job[w].pc \in LockedPCs
    PROVE  LocksAreHeld'
<1>1. OthersKeep(w)
  BY DEF Moves
<1>2. pc \in LockedPCs =>
         LockKey(job'[w]) \in LockKeys /\ lock'[LockKey(job'[w])] = w
  BY DEF Moves, LocksAreHeld, LockKey
<1>3. job'[w].pc = pc
  BY DEF Moves
<1> QED BY <1>1, <1>2, <1>3, LocksKept

LEMMA FreshKept ==
    ASSUME FreshDistinct, NEW w \in Workers, OthersKeep(w),
           job'[w].pc \in FreshPCs => job[w].pc \in FreshPCs /\ job'[w].apply = job[w].apply
    PROVE  FreshDistinct'
<1> SUFFICES ASSUME NEW u \in Workers, NEW v \in Workers, u # v,
                    job'[u].pc \in FreshPCs, job'[v].pc \in FreshPCs
             PROVE  job'[u].apply # job'[v].apply
  BY DEF FreshDistinct, FreshPCs
<1>1. job[u].pc \in FreshPCs /\ job[u].apply = job'[u].apply
  BY DEF OthersKeep
<1>2. job[v].pc \in FreshPCs /\ job[v].apply = job'[v].apply
  BY DEF OthersKeep
<1> QED BY <1>1, <1>2 DEF FreshDistinct

(* What a job's invariant depends on: the job itself and its application. *)
LEMMA Undisturbed ==
    ASSUME NEW v \in Workers, SubmitInv(v), ReviewInv(v), job'[v] = job[v],
           job[v].pc \in FreshPCs \cup {"status", "adjust"} =>
               /\ apply'[job[v].apply] = apply[job[v].apply]
               /\ hold'[job[v].apply] = hold[job[v].apply]
    PROVE  SubmitInv(v)' /\ ReviewInv(v)'
  BY DEF SubmitInv, ReviewInv, FreshPCs, Matches

(* A step that writes neither an application nor a hold. *)
LEMMA QuietStep ==
    ASSUME Safe, NEW w \in Workers, OthersKeep(w), UNCHANGED <<apply, hold>>,
           LocksAreHeld', FreshDistinct', SubmitInv(w)', ReviewInv(w)', job'[w].pc # "b13"
    PROVE  Safe'
<1>1. \A v \in Workers : SubmitInv(v)' /\ ReviewInv(v)'
  BY Undisturbed DEF OthersKeep, Safe, HandlerInv
<1>2. \A v \in Workers : job'[v].pc # "b13"
  BY DEF OthersKeep, Safe, HandlerInv
<1>3. OpenIsHeld' /\ OutcomeMatchesMoney'
  BY DEF Safe, OpenIsHeld, OutcomeMatchesMoney
<1> QED BY <1>1, <1>2, <1>3 DEF Safe, HandlerInv

(* A step that writes only the application and the hold its worker owns. *)
LEMMA RowStep ==
    ASSUME Safe, NEW w \in Workers, OthersKeep(w), NEW a \in Applies,
           \A b \in Applies \ {a} : apply'[b] = apply[b] /\ hold'[b] = hold[b],
           \A v \in Workers \ {w} :
               job[v].pc \in FreshPCs \cup {"status", "adjust"} => job[v].apply \in Applies \ {a},
           hold'[a].state # "none" => hold'[a].user \in Users,
           apply'[a].status \in OpenStatuses =>
               /\ hold'[a].state = "held" /\ hold'[a].user = apply'[a].user
               /\ hold'[a].amount = apply'[a].amount /\ hold'[a].fee = apply'[a].fee,
           hold'[a].state = "paid" => apply'[a].status = "SUCCESS",
           hold'[a].state = "refunded" => apply'[a].status = "REJECTED",
           LocksAreHeld', FreshDistinct', SubmitInv(w)', ReviewInv(w)', job'[w].pc # "b13"
    PROVE  Safe'
<1>1. \A v \in Workers : SubmitInv(v)' /\ ReviewInv(v)'
  BY Undisturbed DEF OthersKeep, Safe, HandlerInv
<1>2. \A v \in Workers : job'[v].pc # "b13"
  BY DEF OthersKeep, Safe, HandlerInv
<1>3. OpenIsHeld'
  BY DEF Safe, OpenIsHeld
<1>4. OutcomeMatchesMoney'
  BY DEF Safe, OutcomeMatchesMoney
<1>5. \A b \in Applies : hold'[b].state # "none" => hold'[b].user \in Users
  BY DEF Safe, HandlerInv
<1> QED BY <1>1, <1>2, <1>3, <1>4, <1>5 DEF Safe, HandlerInv

LEMMA SubmitBeginSafe ==
    ASSUME TypeOK, Safe, NEW w \in Workers, NEW u \in Users, NEW n \in Amounts,
           NEW a \in Applies, SubmitBegin(w, u, n, a)
    PROVE  Safe'
<1>1. OthersKeep(w)
  BY DEF OthersKeep, SubmitBegin
<1>2. /\ job'[w].pc = "expire" /\ job'[w].op = "submit" /\ job'[w].apply = a
      /\ job'[w].user = u /\ job'[w].amount = n
  BY DEF SubmitBegin, TypeOK
<1>3. LocksAreHeld'
  BY <1>1, <1>2, LocksKept DEF SubmitBegin, Safe, HandlerInv
<1>4. FreshDistinct'
  BY <1>1, <1>2 DEF FreshDistinct, FreshPCs, OthersKeep, Safe, HandlerInv, SubmitBegin
<1>5. SubmitInv(w)' /\ ReviewInv(w)'
  BY <1>2 DEF SubmitInv, ReviewInv, FreshPCs, SubmitBegin
<1> QED BY <1>1, <1>2, <1>3, <1>4, <1>5, QuietStep DEF SubmitBegin

(* A worker that only moves on, under the lock it already works under. *)
LEMMA MoveSafe ==
    ASSUME TypeOK, Safe, NEW w \in Workers, NEW pc, Moves(w, pc),
           UNCHANGED <<apply, hold, lock>>,
           pc \in LockedPCs => job[w].pc \in LockedPCs,
           pc \in FreshPCs => job[w].pc \in FreshPCs,
           pc # "b13", SubmitInv(w)', ReviewInv(w)'
    PROVE  Safe'
<1>1. OthersKeep(w) /\ job'[w].pc = pc /\ job'[w].apply = job[w].apply
  BY DEF Moves
<1>2. LocksAreHeld'
  BY SameLock DEF Safe, HandlerInv
<1>3. FreshDistinct'
  BY <1>1, FreshKept DEF Safe, HandlerInv
<1> QED BY <1>1, <1>2, <1>3, QuietStep

(* A worker that returns to idle, freeing no lock but its own. *)
LEMMA FinishSafe ==
    ASSUME TypeOK, Safe, NEW w \in Workers, Finish(w), UNCHANGED <<apply, hold>>,
           \A k \in LockKeys : lock[k] \in Workers \ {w} => lock'[k] = lock[k]
    PROVE  Safe'
<1>1. OthersKeep(w) /\ job'[w].pc = "idle"
  BY FinishMoves
<1>2. LocksAreHeld' /\ FreshDistinct'
  BY <1>1, LocksKept, FreshKept DEF Safe, HandlerInv, FreshPCs
<1>3. SubmitInv(w)' /\ ReviewInv(w)'
  BY <1>1 DEF SubmitInv, ReviewInv, FreshPCs
<1> QED BY <1>1, <1>2, <1>3, QuietStep

LEMMA SubmitExpireSafe ==
    ASSUME TypeOK, Safe, NEW w \in Workers, SubmitExpire(w)
    PROVE  Safe'
<1>1. CASE Finish(w)
  BY <1>1, FinishSafe DEF SubmitExpire
<1>2. CASE Goto(w, "lock")
  <2>1. Moves(w, "lock")
    BY <1>2, GotoMoves
  <2>2. SubmitInv(w)' /\ ReviewInv(w)'
    BY <2>1 DEF SubmitExpire, Moves, Safe, HandlerInv, SubmitInv, ReviewInv, FreshPCs
  <2> QED BY <2>1, <2>2, MoveSafe DEF SubmitExpire, FreshPCs
<1> QED BY <1>1, <1>2 DEF SubmitExpire

LEMMA SubmitLockSafe ==
    ASSUME TypeOK, Safe, NEW w \in Workers, SubmitLock(w)
    PROVE  Safe'
<1>1. CASE Finish(w) /\ UNCHANGED lock
  BY <1>1, FinishSafe DEF SubmitLock
<1>2. CASE /\ lock[job[w].user] = None /\ Goto(w, "validate")
           /\ lock' = [lock EXCEPT ![job[w].user] = w]
  <2> DEFINE u == job[w].user
  <2>1. Moves(w, "validate") /\ OthersKeep(w)
    BY <1>2, GotoMoves DEF Moves
  <2>2. u \in Users /\ job[w].op = "submit"
    BY DEF SubmitLock, Safe, HandlerInv, SubmitInv
  <2>3. LockKey(job'[w]) = u /\ u \in LockKeys
    BY <2>1, <2>2 DEF Moves, LockKey, LockKeys
  <2>4. lock'[u] = w /\ \A k \in LockKeys : lock[k] \in Workers \ {w} => lock'[k] = lock[k]
    BY <1>2, <2>3, ConstantsAssumption DEF TypeOK
  <2>5. LocksAreHeld'
    BY <2>1, <2>3, <2>4, LocksKept DEF Safe, HandlerInv
  <2>6. FreshDistinct'
    BY <2>1, FreshKept DEF Safe, HandlerInv, Moves, SubmitLock, FreshPCs
  <2>7. SubmitInv(w)' /\ ReviewInv(w)'
    BY <2>1 DEF SubmitLock, Moves, Safe, HandlerInv, SubmitInv, ReviewInv, FreshPCs
  <2> QED BY <2>1, <2>5, <2>6, <2>7, QuietStep DEF SubmitLock, Moves
<1> QED BY <1>1, <1>2 DEF SubmitLock

LEMMA SubmitValidateSafe ==
    ASSUME TypeOK, Safe, NEW w \in Workers, SubmitValidate(w)
    PROVE  Safe'
<1>1. SubmitInv(w) /\ ReviewInv(w) /\ job[w].pc = "validate"
  BY DEF Safe, HandlerInv, SubmitValidate
<1>2. ASSUME NEW pc \in {"release"}, Goto(w, pc) PROVE Safe'
  <2>1. Moves(w, pc)
    BY <1>2, GotoMoves
  <2>2. SubmitInv(w)' /\ ReviewInv(w)'
    BY <1>1, <2>1 DEF SubmitValidate, Moves, SubmitInv, ReviewInv, FreshPCs
  <2> QED BY <1>1, <2>1, <2>2, MoveSafe DEF SubmitValidate, FreshPCs
<1>3. ASSUME NEW f \in Fees, job' = [job EXCEPT ![w].pc = "deduct", ![w].fee = f]
      PROVE  Safe'
  <2>1. /\ OthersKeep(w) /\ job'[w].pc = "deduct" /\ job'[w].fee = f
        /\ job'[w].op = job[w].op /\ job'[w].apply = job[w].apply
        /\ job'[w].user = job[w].user /\ job'[w].amount = job[w].amount
    BY <1>3 DEF OthersKeep, TypeOK, JobType
  <2>2. LocksAreHeld'
    BY <1>1, <2>1, LocksKept DEF Safe, HandlerInv, LocksAreHeld, LockKey, SubmitValidate
  <2>3. FreshDistinct'
    BY <1>1, <2>1, FreshKept DEF Safe, HandlerInv, FreshPCs
  <2>4. SubmitInv(w)' /\ ReviewInv(w)'
    BY <1>1, <1>3, <2>1 DEF SubmitInv, ReviewInv, FreshPCs, SubmitValidate
  <2> QED BY <2>1, <2>2, <2>3, <2>4, QuietStep DEF SubmitValidate
<1> QED BY <1>2, <1>3 DEF SubmitValidate

(* No other job is concerned with the application a submission still owns. *)
LEMMA FreshOwns ==
    ASSUME Safe, NEW w \in Workers, job[w].pc \in FreshPCs, TypeOK,
           NEW v \in Workers \ {w}, job[v].pc \in FreshPCs \cup {"status", "adjust"}
    PROVE  job[v].apply \in Applies \ {job[w].apply}
<1>1. apply[job[w].apply].status = "NONE"
  BY DEF Safe, HandlerInv, SubmitInv
<1>2. job[v].apply \in Applies
  BY DEF Safe, HandlerInv, SubmitInv, FreshPCs, TypeOK
<1>3. CASE job[v].pc \in FreshPCs
  BY <1>2, <1>3 DEF Safe, HandlerInv, FreshDistinct
<1>4. CASE job[v].pc \in {"status", "adjust"}
  <2>1. job[v].op \in ReviewOps /\ ReviewInv(v)
    BY <1>4 DEF TypeOK, Safe, HandlerInv
  <2>2. apply[job[v].apply].status # "NONE"
    BY <1>4, <2>1 DEF ReviewInv, AllowedFrom, WritesStatus
  <2> QED BY <1>1, <1>2, <2>2
<1> QED BY <1>3, <1>4

LEMMA SubmitDeductSafe ==
    ASSUME TypeOK, Safe, NEW w \in Workers, SubmitDeduct(w)
    PROVE  Safe'
<1> DEFINE j == job[w]
<1>1. SubmitInv(w) /\ ReviewInv(w) /\ j.pc = "deduct"
  BY DEF Safe, HandlerInv, SubmitDeduct
<1>2. CASE Goto(w, "release") /\ UNCHANGED hold
  <2>1. Moves(w, "release")
    BY <1>2, GotoMoves
  <2>2. SubmitInv(w)' /\ ReviewInv(w)'
    BY <1>1, <2>1 DEF Moves, SubmitInv, ReviewInv, FreshPCs
  <2> QED BY <1>1, <1>2, <2>1, <2>2, MoveSafe DEF SubmitDeduct, FreshPCs
<1>3. CASE /\ Goto(w, "create")
           /\ hold' = [hold EXCEPT ![j.apply] =
                          [state |-> "held", user |-> j.user,
                           amount |-> j.amount, fee |-> j.fee]]
  <2>1. Moves(w, "create") /\ OthersKeep(w)
    BY <1>3, GotoMoves DEF Moves
  <2>2. j.apply \in Applies /\ j.user \in Users /\ apply[j.apply].status = "NONE"
    BY <1>1 DEF SubmitInv, FreshPCs
  <2>3. /\ hold'[j.apply] = [state |-> "held", user |-> j.user,
                             amount |-> j.amount, fee |-> j.fee]
        /\ \A b \in Applies \ {j.apply} : hold'[b] = hold[b]
    BY <1>3, <2>2 DEF TypeOK
  <2>4. SubmitInv(w)' /\ ReviewInv(w)'
    BY <1>1, <2>1, <2>2, <2>3
       DEF Moves, SubmitInv, ReviewInv, FreshPCs, Matches, SubmitDeduct
  <2>5. LocksAreHeld'
    BY <1>1, <2>1, SameLock DEF SubmitDeduct, Safe, HandlerInv
  <2>6. FreshDistinct'
    BY <1>1, <2>1, FreshKept DEF Moves, Safe, HandlerInv, FreshPCs
  <2>7. \A v \in Workers \ {w} : job[v].pc \in FreshPCs \cup {"status", "adjust"} =>
                                    job[v].apply \in Applies \ {j.apply}
    BY <1>1, FreshOwns DEF FreshPCs
  <2> QED BY <2>1, <2>2, <2>3, <2>4, <2>5, <2>6, <2>7, RowStep DEF SubmitDeduct, Moves
<1> QED BY <1>2, <1>3 DEF SubmitDeduct

LEMMA SubmitCreateSafe ==
    ASSUME TypeOK, Safe, NEW w \in Workers, SubmitCreate(w)
    PROVE  Safe'
<1> DEFINE j == job[w]
<1>1. SubmitInv(w) /\ ReviewInv(w) /\ j.pc = "create"
  BY DEF Safe, HandlerInv, SubmitCreate
<1>2. CASE Goto(w, "release") /\ UNCHANGED apply
  <2>1. Moves(w, "release")
    BY <1>2, GotoMoves
  <2>2. SubmitInv(w)' /\ ReviewInv(w)'
    BY <1>1, <2>1 DEF Moves, SubmitInv, ReviewInv, FreshPCs
  <2> QED BY <1>1, <1>2, <2>1, <2>2, MoveSafe DEF SubmitCreate, FreshPCs
<1>3. CASE /\ Goto(w, "invalidate")
           /\ apply' = [apply EXCEPT ![j.apply] =
                           [status |-> "PENDING", user |-> j.user,
                            amount |-> j.amount, fee |-> j.fee]]
  <2>1. Moves(w, "invalidate") /\ OthersKeep(w)
    BY <1>3, GotoMoves DEF Moves
  <2>2. /\ j.apply \in Applies /\ j.user \in Users
        /\ hold[j.apply].state = "held" /\ Matches(hold[j.apply], j)
    BY <1>1 DEF SubmitInv, FreshPCs
  <2>3. /\ apply'[j.apply] = [status |-> "PENDING", user |-> j.user,
                              amount |-> j.amount, fee |-> j.fee]
        /\ \A b \in Applies \ {j.apply} : apply'[b] = apply[b]
    BY <1>3, <2>2 DEF TypeOK
  <2>4. SubmitInv(w)' /\ ReviewInv(w)'
    BY <1>1, <2>1 DEF Moves, SubmitInv, ReviewInv, FreshPCs
  <2>5. LocksAreHeld'
    BY <1>1, <2>1, SameLock DEF SubmitCreate, Safe, HandlerInv
  <2>6. FreshDistinct'
    BY <1>1, <2>1, FreshKept DEF Moves, Safe, HandlerInv, FreshPCs
  <2>7. \A v \in Workers \ {w} : job[v].pc \in FreshPCs \cup {"status", "adjust"} =>
                                    job[v].apply \in Applies \ {j.apply}
    BY <1>1, FreshOwns DEF FreshPCs
  <2>8. hold' = hold
    BY DEF SubmitCreate
  <2> QED BY <2>1, <2>2, <2>3, <2>4, <2>5, <2>6, <2>7, <2>8, RowStep DEF Moves, Matches
<1> QED BY <1>2, <1>3 DEF SubmitCreate

LEMMA SubmitInvalidateSafe ==
    ASSUME TypeOK, Safe, NEW w \in Workers, SubmitInvalidate(w)
    PROVE  Safe'
<1>1. Moves(w, "release")
  BY GotoMoves DEF SubmitInvalidate
<1>2. SubmitInv(w)' /\ ReviewInv(w)'
  BY <1>1 DEF SubmitInvalidate, Moves, Safe, HandlerInv, SubmitInv, ReviewInv, FreshPCs
<1> QED BY <1>1, <1>2, MoveSafe DEF SubmitInvalidate, FreshPCs

LEMMA ReleaseSafe ==
    ASSUME TypeOK, Safe, NEW w \in Workers, Release(w)
    PROVE  Safe'
<1>1. \A k \in LockKeys : lock[k] \in Workers \ {w} => lock'[k] = lock[k]
  BY DEF Release, TypeOK
<1> QED BY <1>1, FinishSafe DEF Release

LEMMA ReviewAcquireSafe ==
    ASSUME TypeOK, Safe, NEW w \in Workers, NEW op \in ReviewOps, NEW a \in Applies,
           ReviewAcquire(w, op, a)
    PROVE  Safe'
<1>1. /\ OthersKeep(w) /\ job'[w].pc = "read" /\ job'[w].op = op /\ job'[w].apply = a
  BY DEF ReviewAcquire, TypeOK, OthersKeep, Idle
<1>2. LockKey(job'[w]) = a /\ a \in LockKeys
  BY <1>1 DEF LockKey, LockKeys
<1>3. lock'[a] = w /\ \A k \in LockKeys : lock[k] \in Workers \ {w} => lock'[k] = lock[k]
  BY <1>2, ConstantsAssumption DEF ReviewAcquire, TypeOK
<1>4. LocksAreHeld' /\ FreshDistinct'
  BY <1>1, <1>2, <1>3, LocksKept, FreshKept DEF Safe, HandlerInv, FreshPCs
<1>5. SubmitInv(w)' /\ ReviewInv(w)'
  BY <1>1 DEF SubmitInv, ReviewInv, FreshPCs
<1> QED BY <1>1, <1>4, <1>5, QuietStep DEF ReviewAcquire

LEMMA ReviewReadSafe ==
    ASSUME TypeOK, Safe, NEW w \in Workers, ReviewRead(w)
    PROVE  Safe'
<1> DEFINE r == apply[job[w].apply]
<1>1. SubmitInv(w) /\ ReviewInv(w) /\ job[w].pc = "read" /\ job[w].op \in ReviewOps
  BY DEF Safe, HandlerInv, ReviewRead, TypeOK
<1>2. CASE Goto(w, "release")
  <2>1. Moves(w, "release")
    BY <1>2, GotoMoves
  <2>2. SubmitInv(w)' /\ ReviewInv(w)'
    BY <2>1 DEF Moves, SubmitInv, ReviewInv, FreshPCs
  <2> QED BY <1>1, <2>1, <2>2, MoveSafe DEF ReviewRead, FreshPCs
<1>3. CASE /\ r.status \in AllowedFrom[job[w].op]
           /\ job' = [job EXCEPT ![w].pc = "status", ![w].user = r.user,
                                 ![w].amount = r.amount, ![w].fee = r.fee]
  <2>1. /\ OthersKeep(w) /\ job'[w].pc = "status" /\ job'[w].op = job[w].op
        /\ job'[w].apply = job[w].apply
        /\ job'[w].user = r.user /\ job'[w].amount = r.amount /\ job'[w].fee = r.fee
    BY <1>3 DEF OthersKeep, TypeOK, JobType
  <2>2. SubmitInv(w)' /\ ReviewInv(w)'
    BY <1>3, <2>1 DEF SubmitInv, ReviewInv, FreshPCs, Matches, ReviewRead
  <2>3. LocksAreHeld'
    <3>1. LockKey(job'[w]) = LockKey(job[w])
      BY <1>1, <2>1 DEF LockKey
    <3> QED BY <1>1, <2>1, <3>1, LocksKept DEF Safe, HandlerInv, LocksAreHeld, ReviewRead
  <2>4. FreshDistinct'
    BY <2>1, FreshKept DEF Safe, HandlerInv, FreshPCs
  <2> QED BY <2>1, <2>2, <2>3, <2>4, QuietStep DEF ReviewRead
<1> QED BY <1>2, <1>3 DEF ReviewRead

(* No other job is concerned with the application a review is writing. *)
LEMMA ReviewOwns ==
    ASSUME Safe, TypeOK, NEW w \in Workers, job[w].pc \in {"status", "adjust"},
           NEW v \in Workers \ {w}, job[v].pc \in FreshPCs \cup {"status", "adjust"}
    PROVE  job[v].apply \in Applies \ {job[w].apply}
<1>1. CASE job[v].pc \in FreshPCs
  <2>1. job[w].apply \in Applies \ {job[v].apply}
    BY <1>1, FreshOwns
  <2>2. job[v].apply \in Applies
    BY <1>1 DEF Safe, HandlerInv, SubmitInv, FreshPCs
  <2> QED BY <2>1, <2>2
<1>2. CASE job[v].pc \in {"status", "adjust"}
  <2>1. /\ job[v].apply \in Applies /\ LockKey(job[v]) = job[v].apply
        /\ LockKey(job[w]) = job[w].apply
    BY <1>2 DEF TypeOK, LockKey
  <2>2. lock[job[v].apply] = v /\ lock[job[w].apply] = w
    BY <1>2, <2>1 DEF Safe, HandlerInv, LocksAreHeld
  <2> QED BY <2>1, <2>2
<1> QED BY <1>1, <1>2

LEMMA ReviewStatusSafe ==
    ASSUME TypeOK, Safe, NEW w \in Workers, ReviewStatus(w)
    PROVE  Safe'
<1> DEFINE j == job[w]
<1>1. /\ SubmitInv(w) /\ ReviewInv(w) /\ j.pc = "status"
      /\ j.op \in ReviewOps /\ j.apply \in Applies
  BY DEF Safe, HandlerInv, ReviewStatus, TypeOK
<1>2. CASE Goto(w, "release") /\ UNCHANGED apply
  <2>1. Moves(w, "release")
    BY <1>2, GotoMoves
  <2>2. SubmitInv(w)' /\ ReviewInv(w)'
    BY <1>1, <2>1 DEF Moves, SubmitInv, ReviewInv, FreshPCs
  <2> QED BY <1>1, <1>2, <2>1, <2>2, MoveSafe DEF ReviewStatus, FreshPCs
<1>3. CASE /\ apply' = [apply EXCEPT ![j.apply].status = WritesStatus[j.op]]
           /\ Goto(w, IF j.op = "approve" THEN "release" ELSE "adjust")
  <2> DEFINE pc == IF j.op = "approve" THEN "release" ELSE "adjust"
             row == apply[j.apply]
  <2>1. Moves(w, pc) /\ OthersKeep(w)
    BY <1>3, GotoMoves DEF Moves
  <2>2. /\ row.status \in OpenStatuses /\ Matches(row, j)
        /\ hold[j.apply].state = "held" /\ Matches(hold[j.apply], j)
        /\ hold[j.apply].user = row.user /\ hold[j.apply].amount = row.amount
        /\ hold[j.apply].fee = row.fee
    BY <1>1 DEF ReviewInv, AllowedFrom, Matches, Safe, OpenIsHeld
  <2>3. /\ apply'[j.apply].status = WritesStatus[j.op] /\ apply'[j.apply].user = row.user
        /\ apply'[j.apply].amount = row.amount /\ apply'[j.apply].fee = row.fee
        /\ \A b \in Applies \ {j.apply} : apply'[b] = apply[b]
    BY <1>1, <1>3 DEF TypeOK, ApplyType
  <2>4. hold' = hold
    BY DEF ReviewStatus
  <2>5. SubmitInv(w)' /\ ReviewInv(w)'
    BY <1>1, <2>1, <2>2, <2>3, <2>4
       DEF Moves, SubmitInv, ReviewInv, FreshPCs, Matches
  <2>6. LocksAreHeld'
    BY <1>1, <2>1, SameLock DEF ReviewStatus, Safe, HandlerInv
  <2>7. FreshDistinct'
    BY <1>1, <2>1, FreshKept DEF Moves, Safe, HandlerInv, FreshPCs
  <2>8. \A v \in Workers \ {w} : job[v].pc \in FreshPCs \cup {"status", "adjust"} =>
                                    job[v].apply \in Applies \ {j.apply}
    BY <1>1, ReviewOwns
  <2>9. hold'[j.apply].user \in Users
    BY <1>1, <2>2, <2>4 DEF Safe, HandlerInv
  <2>10. job'[w].pc # "b13"
    BY <2>1 DEF Moves
  <2> HIDE DEF pc
  <2> QED BY <1>1, <2>1, <2>2, <2>3, <2>4, <2>5, <2>6, <2>7, <2>8, <2>9, <2>10, RowStep
<1> QED BY <1>2, <1>3 DEF ReviewStatus

LEMMA ReviewAdjustSafe ==
    ASSUME TypeOK, Safe, NEW w \in Workers, ReviewAdjust(w)
    PROVE  Safe'
<1> DEFINE j == job[w]
           st == IF j.op = "complete" THEN "paid" ELSE "refunded"
<1>1. /\ SubmitInv(w) /\ ReviewInv(w) /\ j.pc = "adjust"
      /\ j.op \in ReviewOps /\ j.apply \in Applies
  BY DEF Safe, HandlerInv, ReviewAdjust, TypeOK
<1>2. Moves(w, "release") /\ OthersKeep(w)
  BY GotoMoves DEF ReviewAdjust, Moves
<1>3. SubmitInv(w)' /\ ReviewInv(w)'
  BY <1>1, <1>2 DEF Moves, SubmitInv, ReviewInv, FreshPCs
<1>4. CASE UNCHANGED hold
  BY <1>1, <1>2, <1>3, <1>4, MoveSafe DEF ReviewAdjust, FreshPCs
<1>5. CASE hold' = [hold EXCEPT ![j.apply].state = st]
  <2>1. /\ apply[j.apply].status = WritesStatus[j.op] /\ j.op # "approve"
        /\ hold[j.apply].state = "held" /\ hold[j.apply].user \in Users
    BY <1>1 DEF ReviewInv, Safe, HandlerInv
  <2>2. /\ apply[j.apply].status \notin OpenStatuses
        /\ st = "paid" => apply[j.apply].status = "SUCCESS"
        /\ st = "refunded" => apply[j.apply].status = "REJECTED"
    BY <1>1, <2>1 DEF WritesStatus
  <2>3. /\ hold'[j.apply].state = st /\ hold'[j.apply].user = hold[j.apply].user
        /\ \A b \in Applies \ {j.apply} : hold'[b] = hold[b]
    BY <1>1, <1>5 DEF TypeOK, HoldType
  <2>4. apply' = apply
    BY DEF ReviewAdjust
  <2>5. LocksAreHeld'
    BY <1>1, <1>2, SameLock DEF ReviewAdjust, Safe, HandlerInv
  <2>6. FreshDistinct'
    BY <1>1, <1>2, FreshKept DEF Moves, Safe, HandlerInv, FreshPCs
  <2>7. \A v \in Workers \ {w} : job[v].pc \in FreshPCs \cup {"status", "adjust"} =>
                                    job[v].apply \in Applies \ {j.apply}
    BY <1>1, ReviewOwns
  <2>8. job'[w].pc # "b13"
    BY <1>2 DEF Moves
  <2> HIDE DEF st
  <2> QED BY <1>1, <1>2, <1>3, <2>1, <2>2, <2>3, <2>4, <2>5, <2>6, <2>7, <2>8, RowStep
<1> QED BY <1>4, <1>5 DEF ReviewAdjust

LEMMA LeaseExpireSafe ==
    ASSUME LeaseHolds, TypeOK, Safe, NEW k \in LockKeys, LeaseExpire(k)
    PROVE  Safe'
<1>1. UNCHANGED <<apply, hold, job>>
  BY DEF LeaseExpire
<1>2. LocksAreHeld'
  <2> SUFFICES ASSUME NEW v \in Workers, job[v].pc \in LockedPCs
               PROVE  LockKey(job[v]) \in LockKeys /\ lock'[LockKey(job[v])] = v
    BY <1>1 DEF LocksAreHeld, LockKey, LockKeys
  <2>1. LockKey(job[v]) \in LockKeys /\ lock[LockKey(job[v])] = v
    BY DEF Safe, HandlerInv, LocksAreHeld
  <2>2. LockKey(job[v]) # k
    BY <2>1 DEF LeaseExpire, Holding
  <2> QED BY <2>1, <2>2 DEF LeaseExpire, TypeOK
<1> QED BY <1>1, <1>2 DEF Safe, HandlerInv, OpenIsHeld, OutcomeMatchesMoney, SubmitInv,
           ReviewInv, FreshDistinct, Matches

LEMMA StepSafe ==
    ASSUME LeaseHolds, AdminOps = {}, TypeOK, Safe, [Next]_vars
    PROVE  Safe'
<1>1. CASE UNCHANGED <<apply, hold, job, lock>>
  BY <1>1 DEF Safe, HandlerInv, OpenIsHeld, OutcomeMatchesMoney, SubmitInv, ReviewInv,
     FreshDistinct, LocksAreHeld, LockKey, LockKeys, Matches
<1>2. ASSUME NEW w \in Workers, B13Write(w) PROVE FALSE
  BY <1>2 DEF B13Write, Safe, HandlerInv
<1>3. ASSUME NEW u \in Users, NEW n \in Credits, Credit(u, n) PROVE Safe'
  BY <1>1, <1>3 DEF Credit, Ledger!Credit
<1>4. ASSUME NEW u \in Users, SubmitKeyExpire(u) PROVE Safe'
  BY <1>1, <1>4 DEF SubmitKeyExpire
<1>5. CASE UNCHANGED vars
  BY <1>1, <1>5 DEF vars
<1>6. ASSUME NEW w \in Workers, Crash(w) PROVE Safe'
  BY <1>6, FinishSafe DEF Crash
<1>7. CASE Next
  BY <1>2, <1>3, <1>4, <1>6, <1>7, StepCases, SubmitBeginSafe, SubmitExpireSafe,
     SubmitLockSafe, SubmitValidateSafe, SubmitDeductSafe, SubmitCreateSafe,
     SubmitInvalidateSafe, ReleaseSafe, ReviewAcquireSafe, ReviewReadSafe,
     ReviewStatusSafe, ReviewAdjustSafe, LeaseExpireSafe
<1> QED BY <1>5, <1>7

LEMMA InitSafe == Init => Safe
  BY DEF Init, Safe, HandlerInv, OpenIsHeld, OutcomeMatchesMoney, SubmitInv, ReviewInv,
     FreshDistinct, LocksAreHeld, FreshPCs, Idle, NoApply, Ledger!NoHold

LEMMA AlwaysSafe ==
    ASSUME LeaseHolds, AdminOps = {}
    PROVE  Spec => [](TypeOK /\ Safe)
<1>1. TypeOK /\ Safe /\ [Next]_vars => Safe'
  BY StepSafe
<1> QED BY <1>1, InitSafe, TypeCorrect, PTL DEF Spec

(* While leases outlive handlers and the unlocked path is not used, no      *)
(* crash or failed commit leaves an open application uncovered ...         *)
THEOREM OpenAlwaysHeld ==
    ASSUME LeaseHolds, AdminOps = {}
    PROVE  Spec => []OpenIsHeld
<1>1. Safe => OpenIsHeld
  BY DEF Safe
<1> QED BY <1>1, AlwaysSafe, PTL

(* ... money moves only as the recorded outcome says ... *)
THEOREM OutcomeAlwaysMatches ==
    ASSUME LeaseHolds, AdminOps = {}
    PROVE  Spec => []OutcomeMatchesMoney
<1>1. Safe => OutcomeMatchesMoney
  BY DEF Safe
<1> QED BY <1>1, AlwaysSafe, PTL

(* ... and a lock protects one handler at a time. *)
THEOREM MutualExclusion ==
    ASSUME LeaseHolds, AdminOps = {}
    PROVE  Spec => []OneHandlerPerLock
<1>1. Safe => OneHandlerPerLock
  BY DEF Safe, HandlerInv, LocksAreHeld, OneHandlerPerLock, Holding
<1> QED BY <1>1, AlwaysSafe, PTL

-----------------------------------------------------------------------------
(* Steps.  What a step of a handler does to an application follows from    *)
(* the status it checked under the lock. *)
LEMMA StatusSteps ==
    ASSUME [Next]_vars
    PROVE  \/ UNCHANGED apply
           \/ \E w \in Workers : SubmitCreate(w) \/ ReviewStatus(w) \/ B13Write(w)
<1>1. CASE UNCHANGED vars
  BY <1>1 DEF vars
<1>2. CASE Next
  BY <1>2, StepCases DEF Credit, SubmitBegin, ReviewAcquire, B13Read, SubmitExpire,
     SubmitLock, SubmitValidate, SubmitDeduct, SubmitInvalidate, ReviewRead, ReviewAdjust,
     Release, Crash, LeaseExpire, SubmitKeyExpire
<1> QED BY <1>1, <1>2

(* No interleaving of handlers, with any crash or failed commit, revives   *)
(* an application that was paid or rejected.                               *)
THEOREM FinalOutcome ==
    ASSUME LeaseHolds, AdminOps = {}
    PROVE  Spec => OutcomeIsFinal
<1>1. ASSUME TypeOK, Safe, [Next]_vars, NEW a \in Applies,
             apply[a].status \in {"SUCCESS", "REJECTED"}
      PROVE  apply'[a].status = apply[a].status
  <2>1. ASSUME NEW w \in Workers, SubmitCreate(w) PROVE a # job[w].apply
    BY <1>1, <2>1 DEF SubmitCreate, Safe, HandlerInv, SubmitInv, FreshPCs
  <2>2. ASSUME NEW w \in Workers, ReviewStatus(w) PROVE a # job[w].apply
    <3>1. job[w].op \in ReviewOps /\ ReviewInv(w) /\ job[w].pc = "status"
      BY <1>1, <2>2 DEF ReviewStatus, Safe, HandlerInv, TypeOK
    <3>2. apply[job[w].apply].status \in OpenStatuses
      BY <3>1 DEF ReviewInv, AllowedFrom
    <3> QED BY <1>1, <3>2
  <2>3. ASSUME NEW w \in Workers, B13Write(w) PROVE FALSE
    BY <1>1, <2>3 DEF B13Write, Safe, HandlerInv
  <2>4. ASSUME NEW w \in Workers, SubmitCreate(w) PROVE apply'[a] = apply[a]
    BY <1>1, <2>1, <2>4 DEF SubmitCreate, TypeOK
  <2>5. ASSUME NEW w \in Workers, ReviewStatus(w) PROVE apply'[a] = apply[a]
    BY <1>1, <2>2, <2>5 DEF ReviewStatus, TypeOK
  <2> QED BY <1>1, <2>3, <2>4, <2>5, StatusSteps
<1>2. TypeOK /\ Safe /\ [Next]_vars =>
         [\A a \in Applies : apply[a].status \in {"SUCCESS", "REJECTED"} =>
                                apply'[a].status = apply[a].status]_vars
  BY <1>1
<1> QED BY <1>2, AlwaysSafe, PTL DEF Spec, OutcomeIsFinal

(* The handlers implement the ledger: an application's money is set aside  *)
(* once, and paid out or given back once.                                  *)
LEMMA HoldSteps ==
    ASSUME [Next]_vars
    PROVE  \/ UNCHANGED <<account, hold>>
           \/ \E u \in Users, n \in Credits : Credit(u, n)
           \/ \E w \in Workers : SubmitDeduct(w) \/ ReviewAdjust(w)
<1>1. CASE UNCHANGED vars
  BY <1>1 DEF vars
<1>2. CASE Next
  BY <1>2, StepCases DEF SubmitBegin, ReviewAcquire, B13Read, SubmitExpire, SubmitLock,
     SubmitValidate, SubmitCreate, SubmitInvalidate, ReviewRead, ReviewStatus, B13Write,
     Release, Crash, LeaseExpire, SubmitKeyExpire
<1> QED BY <1>1, <1>2

(* The steps of the handlers are steps of the ledger, as in the theorem. *)
LEMMA LedgerStep ==
    ASSUME LeaseHolds, AdminOps = {}, TypeOK, Safe, [Next]_vars
    PROVE  [Ledger!Next]_(Ledger!vars)
<1>1. CASE UNCHANGED <<account, hold>>
  BY <1>1 DEF Ledger!vars
<1>2. ASSUME NEW u \in Users, NEW n \in Credits, Credit(u, n) PROVE Ledger!Next
  BY <1>2 DEF Credit, Ledger!Next
<1>3. ASSUME NEW w \in Workers, SubmitDeduct(w) PROVE [Ledger!Next]_(Ledger!vars)
  <2> DEFINE j == job[w]
  <2>1. /\ j.apply \in Applies /\ j.user \in Users /\ j.amount \in Amounts
        /\ j.fee \in Fees /\ hold[j.apply].state = "none"
    BY <1>3 DEF SubmitDeduct, Safe, HandlerInv, SubmitInv, FreshPCs
  <2>2. CASE UNCHANGED <<account, hold>>
    BY <1>1, <2>2
  <2>3. CASE ~UNCHANGED <<account, hold>>
    <3>1. Ledger!Hold(j.apply, j.user, j.amount, j.fee)
      BY <1>3, <2>1, <2>3 DEF SubmitDeduct, Ledger!Hold
    <3> QED BY <2>1, <3>1 DEF Ledger!Next
  <2> QED BY <2>2, <2>3
<1>4. ASSUME NEW w \in Workers, ReviewAdjust(w) PROVE [Ledger!Next]_(Ledger!vars)
  <2> DEFINE j == job[w]
  <2>1. /\ j.apply \in Applies /\ hold[j.apply].state = "held" /\ Matches(hold[j.apply], j)
    BY <1>4 DEF ReviewAdjust, Safe, HandlerInv, ReviewInv, TypeOK
  <2>2. CASE UNCHANGED <<account, hold>>
    BY <1>1, <2>2
  <2>3. CASE ~UNCHANGED <<account, hold>>
    <3>1. CASE j.op = "complete"
      <4>1. Ledger!Pay(j.apply)
        BY <1>4, <2>1, <2>3, <3>1 DEF ReviewAdjust, Ledger!Pay, Matches
      <4> QED BY <2>1, <4>1 DEF Ledger!Next
    <3>2. CASE j.op # "complete"
      <4>1. Ledger!Refund(j.apply)
        BY <1>4, <2>1, <2>3, <3>2 DEF ReviewAdjust, Ledger!Refund, Matches
      <4> QED BY <2>1, <4>1 DEF Ledger!Next
    <3> QED BY <3>1, <3>2
  <2> QED BY <2>2, <2>3
<1> QED BY <1>1, <1>2, <1>3, <1>4, HoldSteps

(* So the handlers implement the ledger: an application's money is set     *)
(* aside once, and paid out or given back once, in one step each.          *)
THEOREM ImplementsLedger ==
    ASSUME LeaseHolds, AdminOps = {}
    PROVE  Spec => LedgerSpec
<1>1. Init => Ledger!Init
  BY DEF Init, Ledger!Init
<1>2. TypeOK /\ Safe /\ [Next]_vars => [Ledger!Next]_(Ledger!vars)
  BY LedgerStep
<1> QED BY <1>1, <1>2, AlwaysSafe, PTL DEF Spec, LedgerSpec, Ledger!Spec

-----------------------------------------------------------------------------
(* Sums.  When the hold of one application changes, the total of a state   *)
(* changes by what that hold had and has in it.                            *)
Part(h, u, state) == IF h.user = u /\ h.state = state THEN h.amount ELSE 0

LEMMA LedgerSums ==
    ASSUME NEW f, NEW S PROVE Ledger!SumFunctionOnSet(f, S) = SumFunctionOnSet(f, S)
  BY DEF Ledger!SumFunctionOnSet, Ledger!FoldFunctionOnSet, Ledger!MapThenFoldSet,
         SumFunctionOnSet, FoldFunctionOnSet, MapThenFoldSet

LEMMA SumInType ==
    ASSUME TypeOK, NEW u, NEW state
    PROVE  Ledger!SumIn(u, state) \in Nat
<1> DEFINE f == [a \in Applies |-> hold[a].amount]
           S == {a \in Applies : hold[a].user = u /\ hold[a].state = state}
<1>1. IsFiniteSet(S) /\ \A a \in S : f[a] \in Nat
  BY ConstantsAssumption, FS_Subset DEF TypeOK, HoldType
<1> HIDE DEF f, S
<1>2. SumFunctionOnSet(f, S) \in Nat
  BY <1>1, SumNat
<1> QED BY <1>2, LedgerSums DEF Ledger!SumIn, f, S

LEMMA SumInStep ==
    ASSUME TypeOK, NEW a \in Applies, NEW h \in HoldType,
           hold' = [hold EXCEPT ![a] = h], NEW u, NEW state
    PROVE  Ledger!SumIn(u, state)'
             = Ledger!SumIn(u, state) - Part(hold[a], u, state) + Part(h, u, state)
<1> DEFINE f == [b \in Applies |-> hold[b].amount]
           g == [b \in Applies |-> hold'[b].amount]
           S == {b \in Applies : hold[b].user = u /\ hold[b].state = state}
           T == {b \in Applies : hold'[b].user = u /\ hold'[b].state = state}
<1>0. hold \in [Applies -> HoldType] /\ hold' \in [Applies -> HoldType] /\ hold'[a] = h
  BY DEF TypeOK
<1>1. IsFiniteSet(S) /\ IsFiniteSet(T)
  BY ConstantsAssumption, FS_Subset
<1>2. (\A b \in S : f[b] \in Int) /\ (\A b \in T : g[b] \in Int)
  BY <1>0 DEF HoldType
<1>3. S \ {a} = T \ {a} /\ \A b \in S \ {a} : f[b] = g[b]
  BY <1>0
<1>4. Share(f, S, a) = Part(hold[a], u, state) /\ Share(g, T, a) = Part(h, u, state)
  BY <1>0 DEF Share, Part
<1>5. Ledger!SumIn(u, state) = SumFunctionOnSet(f, S)
      /\ Ledger!SumIn(u, state)' = SumFunctionOnSet(g, T)
  BY LedgerSums DEF Ledger!SumIn
<1> HIDE DEF f, g, S, T
<1>6. SumFunctionOnSet(g, T) = SumFunctionOnSet(f, S) - Share(f, S, a) + Share(g, T, a)
  BY <1>1, <1>2, <1>3, SumChange
<1> QED BY <1>4, <1>5, <1>6

LEMMA MovedAt ==
    ASSUME TypeOK, NEW v, NEW dA \in Int, NEW dF \in Int, NEW dW \in Int, NEW dFee \in Int,
           account' = Ledger!Moved(v, dA, dF, dW, dFee), NEW u \in Users
    PROVE  /\ account'[u].available = account[u].available + IF u = v THEN dA ELSE 0
           /\ account'[u].frozen = account[u].frozen + IF u = v THEN dF ELSE 0
           /\ account'[u].total = account[u].total
           /\ account'[u].withdrawn = account[u].withdrawn + IF u = v THEN dW ELSE 0
           /\ account'[u].fee = account[u].fee + IF u = v THEN dFee ELSE 0
<1>1. account[u] \in AccountType
  BY DEF TypeOK
<1>2. CASE u = v
  BY <1>1, <1>2 DEF Ledger!Moved, TypeOK
<1>3. CASE u # v
  BY <1>1, <1>3 DEF Ledger!Moved, TypeOK, AccountType
<1> QED BY <1>2, <1>3

(* Each step of the ledger changes an account as it changes the sums. *)
Explained(u) ==
    /\ account[u].frozen = Ledger!SumIn(u, "held")
    /\ account[u].withdrawn + account[u].fee = Ledger!SumIn(u, "paid")
    /\ account[u].available + account[u].frozen + Ledger!SumIn(u, "paid") = account[u].total

LEMMA MovedOnceStep ==
    ASSUME LeaseHolds, AdminOps = {}, TypeOK, Safe, MovedOnce, [Next]_vars
    PROVE  MovedOnce'
<1>1. [Ledger!Next]_(Ledger!vars)
  BY LedgerStep
<1>2. hold \in [Applies -> HoldType] /\ account \in [Users -> AccountType]
  BY DEF TypeOK
<1>3. CASE UNCHANGED <<account, hold>>
  BY <1>3 DEF MovedOnce, Ledger!FrozenIsHeld, Ledger!PaidIsWithdrawn, Ledger!SumIn
<1> SUFFICES ASSUME ~UNCHANGED <<account, hold>>, NEW u \in Users
             PROVE  Explained(u)'
  BY <1>3 DEF MovedOnce, Ledger!FrozenIsHeld, Ledger!PaidIsWithdrawn, Explained
<1>4. /\ account[u].frozen = Ledger!SumIn(u, "held")
      /\ account[u].withdrawn + account[u].fee = Ledger!SumIn(u, "paid")
      /\ account[u].available + account[u].frozen + Ledger!SumIn(u, "paid")
            = account[u].total
  BY DEF MovedOnce, Ledger!FrozenIsHeld, Ledger!PaidIsWithdrawn
<1>5. /\ Ledger!SumIn(u, "held") \in Nat /\ Ledger!SumIn(u, "paid") \in Nat
      /\ account[u] \in AccountType
  BY <1>2, SumInType
<1>6. ASSUME NEW x \in Users, NEW n \in Credits, Ledger!Credit(x, n)
      PROVE  Explained(u)'
  <2>1. hold' = hold
    BY <1>6 DEF Ledger!Credit
  <2>2. \A state : Ledger!SumIn(u, state)' = Ledger!SumIn(u, state)
    BY <2>1 DEF Ledger!SumIn
  <2>3. n \in Nat
    BY ConstantsAssumption
  <2>4. CASE u = x
    <3>1. /\ account'[u].available = account[u].available + n
          /\ account'[u].total = account[u].total + n
          /\ account'[u].frozen = account[u].frozen
          /\ account'[u].withdrawn = account[u].withdrawn
          /\ account'[u].fee = account[u].fee
      BY <1>2, <1>5, <1>6, <2>4 DEF Ledger!Credit, AccountType
    <3> QED BY <1>4, <1>5, <2>2, <2>3, <3>1 DEF AccountType, Explained
  <2>5. CASE u # x
    <3>1. account'[u] = account[u]
      BY <1>2, <1>6, <2>5 DEF Ledger!Credit
    <3> QED BY <1>4, <2>2, <3>1 DEF Explained
  <2> QED BY <2>4, <2>5
<1>7. ASSUME NEW a \in Applies, NEW x \in Users, NEW n \in Amounts, NEW f \in Fees,
             Ledger!Hold(a, x, n, f)
      PROVE  Explained(u)'
  <2> DEFINE h == [state |-> "held", user |-> x, amount |-> n, fee |-> f]
  <2>1. h \in HoldType /\ n \in Nat
    BY ConstantsAssumption DEF HoldType
  <2>2. hold' = [hold EXCEPT ![a] = h] /\ account' = Ledger!Moved(x, -n, n, 0, 0)
        /\ hold[a].state = "none"
    BY <1>7 DEF Ledger!Hold
  <2>3. Part(hold[a], u, "held") = 0 /\ Part(hold[a], u, "paid") = 0
    BY <2>2 DEF Part
  <2>4. Part(h, u, "held") = (IF u = x THEN n ELSE 0) /\ Part(h, u, "paid") = 0
    BY DEF Part
  <2> HIDE DEF h
  <2>5. /\ Ledger!SumIn(u, "held")' = Ledger!SumIn(u, "held") + IF u = x THEN n ELSE 0
        /\ Ledger!SumIn(u, "paid")' = Ledger!SumIn(u, "paid")
    <3>1. \A state : Ledger!SumIn(u, state)'
            = Ledger!SumIn(u, state) - Part(hold[a], u, state) + Part(h, u, state)
      BY <2>1, <2>2, SumInStep
    <3> QED BY <1>5, <2>1, <2>3, <2>4, <3>1
  <2>6. /\ account'[u].available = account[u].available + IF u = x THEN -n ELSE 0
        /\ account'[u].frozen = account[u].frozen + IF u = x THEN n ELSE 0
        /\ account'[u].total = account[u].total
        /\ account'[u].withdrawn = account[u].withdrawn
        /\ account'[u].fee = account[u].fee
    BY <1>5, <2>1, <2>2, MovedAt DEF AccountType
  <2> QED BY <1>4, <1>5, <2>1, <2>5, <2>6 DEF AccountType, Explained
<1>8. ASSUME NEW a \in Applies, Ledger!Refund(a)
      PROVE  Explained(u)'
  <2> DEFINE h == [hold[a] EXCEPT !.state = "refunded"]
             n == hold[a].amount
             x == hold[a].user
  <2>1. h \in HoldType /\ n \in Nat
    BY <1>2 DEF HoldType
  <2>2. hold' = [hold EXCEPT ![a] = h] /\ account' = Ledger!Moved(x, n, -n, 0, 0)
        /\ hold[a].state = "held"
    BY <1>8 DEF Ledger!Refund
  <2>3. /\ Part(hold[a], u, "held") = (IF u = x THEN n ELSE 0) /\ Part(hold[a], u, "paid") = 0
        /\ Part(h, u, "held") = 0 /\ Part(h, u, "paid") = 0
    BY <1>2, <2>2 DEF Part, HoldType
  <2> HIDE DEF h, n, x
  <2>4. /\ Ledger!SumIn(u, "held")' = Ledger!SumIn(u, "held") - IF u = x THEN n ELSE 0
        /\ Ledger!SumIn(u, "paid")' = Ledger!SumIn(u, "paid")
    <3>1. \A state : Ledger!SumIn(u, state)'
            = Ledger!SumIn(u, state) - Part(hold[a], u, state) + Part(h, u, state)
      BY <2>1, <2>2, SumInStep
    <3> QED BY <1>5, <2>1, <2>3, <3>1
  <2>5. /\ account'[u].available = account[u].available + IF u = x THEN n ELSE 0
        /\ account'[u].frozen = account[u].frozen + IF u = x THEN -n ELSE 0
        /\ account'[u].total = account[u].total
        /\ account'[u].withdrawn = account[u].withdrawn
        /\ account'[u].fee = account[u].fee
    BY <1>5, <2>1, <2>2, MovedAt DEF AccountType
  <2> QED BY <1>4, <1>5, <2>1, <2>4, <2>5 DEF AccountType, Explained
<1>9. ASSUME NEW a \in Applies, Ledger!Pay(a)
      PROVE  Explained(u)'
  <2> DEFINE h == [hold[a] EXCEPT !.state = "paid"]
             n == hold[a].amount
             x == hold[a].user
             f == hold[a].fee
  <2>1. h \in HoldType /\ n \in Nat /\ f \in Nat
    BY <1>2 DEF HoldType
  <2>2. hold' = [hold EXCEPT ![a] = h] /\ account' = Ledger!Moved(x, 0, -n, n - f, f)
        /\ hold[a].state = "held"
    BY <1>9 DEF Ledger!Pay
  <2>3. /\ Part(hold[a], u, "held") = (IF u = x THEN n ELSE 0) /\ Part(hold[a], u, "paid") = 0
        /\ Part(h, u, "paid") = (IF u = x THEN n ELSE 0) /\ Part(h, u, "held") = 0
    BY <1>2, <2>2 DEF Part, HoldType
  <2> HIDE DEF h, n, x, f
  <2>4. /\ Ledger!SumIn(u, "held")' = Ledger!SumIn(u, "held") - IF u = x THEN n ELSE 0
        /\ Ledger!SumIn(u, "paid")' = Ledger!SumIn(u, "paid") + IF u = x THEN n ELSE 0
    <3>1. \A state : Ledger!SumIn(u, state)'
            = Ledger!SumIn(u, state) - Part(hold[a], u, state) + Part(h, u, state)
      BY <2>1, <2>2, SumInStep
    <3> QED BY <1>5, <2>1, <2>3, <3>1
  <2>5. /\ account'[u].available = account[u].available
        /\ account'[u].frozen = account[u].frozen + IF u = x THEN -n ELSE 0
        /\ account'[u].total = account[u].total
        /\ account'[u].withdrawn = account[u].withdrawn + IF u = x THEN n - f ELSE 0
        /\ account'[u].fee = account[u].fee + IF u = x THEN f ELSE 0
    BY <1>5, <2>1, <2>2, MovedAt DEF AccountType
  <2> QED BY <1>4, <1>5, <2>1, <2>4, <2>5 DEF AccountType, Explained
<1> QED BY <1>1, <1>6, <1>7, <1>8, <1>9 DEF Ledger!Next, Ledger!vars

(* At first nothing is held, paid or credited. *)
LEMMA InitMoved == Init => MovedOnce
<1> SUFFICES ASSUME Init, NEW u \in Users PROVE
        \A state \in {"held", "paid"} : Ledger!SumIn(u, state) = 0
  BY DEF Init, MovedOnce, Ledger!FrozenIsHeld, Ledger!PaidIsWithdrawn, Ledger!ZeroAccount
<1> TAKE state \in {"held", "paid"}
<1>1. {a \in Applies : hold[a].user = u /\ hold[a].state = state} = {}
  BY DEF Init, Ledger!NoHold
<1> QED BY <1>1, LedgerSums, SumEmpty DEF Ledger!SumIn

(* No application's money is released or paid twice, however often its     *)
(* handlers are repeated, die or lose a commit (adjust_balance in          *)
(* withdraw_service.py): the frozen balance is the sum of what is held, and *)
(* what has left the account the sum of what was paid.                     *)
THEOREM MoneyMovedOnce ==
    ASSUME LeaseHolds, AdminOps = {}
    PROVE  Spec => []MovedOnce
<1>1. TypeOK /\ Safe /\ MovedOnce /\ [Next]_vars => MovedOnce'
  BY MovedOnceStep
<1> QED BY <1>1, InitMoved, AlwaysSafe, PTL DEF Spec

-----------------------------------------------------------------------------
(* Quiet runs.  The steps that neither write an application, a hold or the *)
(* cached total nor take a worker into or out of a step that matters.      *)
Moving == {"deduct", "create", "invalidate", "adjust"}

LEMMA OtherSteps ==
    ASSUME TypeOK, Safe, [Next]_vars
    PROVE  \/ \E w \in Workers : \/ SubmitValidate(w) \/ SubmitDeduct(w) \/ SubmitCreate(w)
                                 \/ SubmitInvalidate(w) \/ ReviewStatus(w)
                                 \/ ReviewAdjust(w) \/ Crash(w)
           \/ /\ UNCHANGED <<apply, hold, dailyUsed>>
              /\ \A v \in Workers : \/ job'[v] = job[v]
                                    \/ job[v].pc \notin Moving /\ job'[v].pc \notin Moving
<1> DEFINE Kept(v) == \/ job'[v] = job[v]
                      \/ job[v].pc \notin Moving /\ job'[v].pc \notin Moving
           Quiet == UNCHANGED <<apply, hold, dailyUsed>> /\ \A v \in Workers : Kept(v)
<1>1. ASSUME NEW w \in Workers, NEW pc, Goto(w, pc), pc \notin Moving, job[w].pc \notin Moving
      PROVE  \A v \in Workers : Kept(v)
  BY <1>1, GotoMoves DEF Moves, OthersKeep
<1>2. ASSUME NEW w \in Workers, Finish(w), job[w].pc \notin Moving
      PROVE  \A v \in Workers : Kept(v)
  BY <1>2, FinishMoves DEF OthersKeep, Moving
<1>3. ASSUME NEW w \in Workers, SubmitExpire(w) \/ SubmitLock(w) \/ Release(w) PROVE Quiet
  BY <1>1, <1>2, <1>3 DEF SubmitExpire, SubmitLock, Release, Moving
<1>4. ASSUME NEW w \in Workers, ReviewRead(w) PROVE Quiet
  <2>1. job[w].pc = "read" /\ UNCHANGED <<apply, hold, dailyUsed>>
    BY <1>4 DEF ReviewRead
  <2>2. CASE Goto(w, "release")
    BY <1>1, <2>1, <2>2 DEF Moving
  <2>3. CASE job' = [job EXCEPT ![w].pc = "status", ![w].user = apply[job[w].apply].user,
                                ![w].amount = apply[job[w].apply].amount,
                                ![w].fee = apply[job[w].apply].fee]
    <3>1. job'[w].pc = "status" /\ \A v \in Workers \ {w} : job'[v] = job[v]
      BY <2>3 DEF TypeOK, JobType
    <3> QED BY <2>1, <3>1 DEF Moving
  <2> QED BY <1>4, <2>2, <2>3 DEF ReviewRead
<1>5. ASSUME NEW w \in Workers, NEW u, NEW n, NEW a, SubmitBegin(w, u, n, a) PROVE Quiet
  BY <1>5 DEF SubmitBegin, Moving, TypeOK, Idle
<1>6. ASSUME NEW w \in Workers, NEW op, NEW a, ReviewAcquire(w, op, a) \/ B13Read(w, op, a)
      PROVE  Quiet
  <2>1. ASSUME NEW pc \in {"read", "b13"}, job[w].pc = "idle",
               job' = [job EXCEPT ![w] = [Idle EXCEPT !.pc = pc, !.op = op, !.apply = a]]
        PROVE  \A v \in Workers : Kept(v)
    <3>1. job'[w].pc = pc /\ \A v \in Workers \ {w} : job'[v] = job[v]
      BY <2>1 DEF TypeOK, Idle
    <3> QED BY <2>1, <3>1 DEF Moving
  <2>2. job[w].pc = "idle"
    BY <1>6 DEF ReviewAcquire, B13Read, Idle
  <2>3. CASE ReviewAcquire(w, op, a)
    BY <2>1, <2>2, <2>3 DEF ReviewAcquire
  <2>4. CASE B13Read(w, op, a)
    BY <2>1, <2>2, <2>4 DEF B13Read
  <2> QED BY <1>6, <2>3, <2>4
<1>7. ASSUME NEW w \in Workers, B13Write(w) PROVE FALSE
  BY <1>7 DEF B13Write, Safe, HandlerInv
<1>8. CASE UNCHANGED <<apply, hold, dailyUsed, job>>
  BY <1>8
<1>9. CASE UNCHANGED vars
  BY <1>8, <1>9 DEF vars
<1>10. ASSUME NEW u \in Users, NEW n \in Credits, Credit(u, n) PROVE Quiet
  BY <1>8, <1>10 DEF Credit, Ledger!Credit
<1>11. ASSUME NEW k \in LockKeys, LeaseExpire(k) PROVE Quiet
  BY <1>8, <1>11 DEF LeaseExpire
<1>12. ASSUME NEW u \in Users, SubmitKeyExpire(u) PROVE Quiet
  BY <1>8, <1>12 DEF SubmitKeyExpire
<1>13. CASE Next
  BY <1>3, <1>4, <1>5, <1>6, <1>7, <1>10, <1>11, <1>12, <1>13, StepCases
<1> QED BY <1>9, <1>13

(* Money that is held belongs to an open application, or to a handler that *)
(* is about to create or to close one.                                     *)
CoveredBy(a) ==
    \/ apply[a].status \in OpenStatuses
    \/ \E w \in Workers : job[w].pc \in {"create", "adjust"} /\ job[w].apply = a
HeldIsCovered == \A a \in Applies : hold[a].state = "held" => CoveredBy(a)

(* The balance always suffices to move what is held. *)
LEMMA HeldSuffices ==
    ASSUME TypeOK, MovedOnce, NEW a \in Applies, hold[a].state = "held", hold[a].user \in Users
    PROVE  account[hold[a].user].frozen >= hold[a].amount
<1> DEFINE u == hold[a].user
           f == [b \in Applies |-> hold[b].amount]
           S == {b \in Applies : hold[b].user = u /\ hold[b].state = "held"}
<1>1. IsFiniteSet(S) /\ IsFiniteSet(S \ {a}) /\ \A b \in S : f[b] \in Nat
  BY ConstantsAssumption, FS_Subset DEF TypeOK, HoldType
<1>2. a \in S /\ f[a] = hold[a].amount
  OBVIOUS
<1>3. account[u].frozen = SumFunctionOnSet(f, S)
  BY LedgerSums DEF MovedOnce, Ledger!FrozenIsHeld, Ledger!SumIn
<1> HIDE DEF f, S
<1>4. SumFunctionOnSet(f, S) = f[a] + SumFunctionOnSet(f, S \ {a})
  BY <1>1, <1>2, SumRemove
<1>5. SumFunctionOnSet(f, S \ {a}) \in Nat
  BY <1>1, SumNat
<1> QED BY <1>1, <1>2, <1>3, <1>4, <1>5

LEMMA CoveredStep ==
    ASSUME LeaseHolds, AdminOps = {}, Faults = {}, ~Crashes,
           TypeOK, Safe, MovedOnce, HeldIsCovered, [Next]_vars
    PROVE  HeldIsCovered'
<1> SUFFICES ASSUME NEW a \in Applies, hold'[a].state = "held" PROVE CoveredBy(a)'
  BY DEF HeldIsCovered
<1>1. CASE /\ UNCHANGED <<apply, hold>>
           /\ \A v \in Workers : \/ job'[v] = job[v]
                                 \/ job[v].pc \notin {"create", "adjust"}
  BY <1>1 DEF HeldIsCovered, CoveredBy
<1>2. ASSUME NEW w \in Workers, SubmitValidate(w) \/ SubmitInvalidate(w) PROVE CoveredBy(a)'
  BY <1>1, <1>2 DEF SubmitValidate, SubmitInvalidate, Goto, TypeOK
<1>3. ASSUME NEW w \in Workers, SubmitDeduct(w) PROVE CoveredBy(a)'
  <2>1. SubmitInv(w) /\ job[w].pc = "deduct" /\ job[w].apply \in Applies
    BY <1>3 DEF SubmitDeduct, Safe, HandlerInv, SubmitInv
  <2>2. CASE Goto(w, "release") /\ UNCHANGED hold
    BY <1>1, <1>3, <2>1, <2>2 DEF SubmitDeduct, Goto, TypeOK
  <2>3. CASE /\ Goto(w, "create")
             /\ \A b \in Applies : b # job[w].apply => hold'[b] = hold[b]
    <3>1. Moves(w, "create")
      BY <2>3, GotoMoves
    <3>2. CASE a = job[w].apply
      BY <3>1, <3>2 DEF Moves, CoveredBy
    <3>3. CASE a # job[w].apply
      BY <1>3, <2>1, <2>3, <3>1, <3>3
         DEF HeldIsCovered, CoveredBy, SubmitDeduct, Moves, OthersKeep
    <3> QED BY <3>2, <3>3
  <2> QED BY <1>3, <2>2, <2>3 DEF SubmitDeduct, TypeOK
<1>4. ASSUME NEW w \in Workers, SubmitCreate(w) PROVE CoveredBy(a)'
  <2>1. Moves(w, "invalidate") /\ job[w].pc = "create" /\ hold' = hold
    BY <1>4, GotoMoves DEF SubmitCreate
  <2>2. CASE a = job[w].apply
    BY <1>4, <2>2 DEF SubmitCreate, CoveredBy, TypeOK
  <2>3. CASE a # job[w].apply
    <3>1. apply'[a] = apply[a]
      BY <1>4, <2>3 DEF SubmitCreate, TypeOK
    <3> QED BY <2>1, <2>3, <3>1 DEF HeldIsCovered, CoveredBy, Moves, OthersKeep
  <2> QED BY <2>2, <2>3
<1>5. ASSUME NEW w \in Workers, ReviewStatus(w) PROVE CoveredBy(a)'
  <2>1. /\ job[w].pc = "status" /\ job[w].op \in ReviewOps /\ hold' = hold
        /\ Moves(w, IF job[w].op = "approve" THEN "release" ELSE "adjust")
    BY <1>5, GotoMoves DEF ReviewStatus, TypeOK
  <2>2. CASE a = job[w].apply
    <3>1. CASE job[w].op = "approve"
      BY <1>5, <2>2, <3>1 DEF ReviewStatus, CoveredBy, WritesStatus, TypeOK, ApplyType
    <3>2. CASE job[w].op # "approve"
      BY <2>1, <2>2, <3>2 DEF Moves, CoveredBy
    <3> QED BY <3>1, <3>2
  <2>3. CASE a # job[w].apply
    <3>1. apply'[a] = apply[a]
      BY <1>5, <2>3 DEF ReviewStatus, TypeOK
    <3> QED BY <2>1, <2>3, <3>1 DEF HeldIsCovered, CoveredBy, Moves, OthersKeep
  <2> QED BY <2>2, <2>3
<1>6. ASSUME NEW w \in Workers, ReviewAdjust(w) PROVE CoveredBy(a)'
  <2>1. /\ job[w].pc = "adjust" /\ job[w].op \in ReviewOps /\ job[w].apply \in Applies
        /\ ReviewInv(w) /\ Moves(w, "release") /\ apply' = apply
    BY <1>6, GotoMoves DEF ReviewAdjust, TypeOK, Safe, HandlerInv
  <2>2. /\ hold[job[w].apply].state = "held" /\ hold[job[w].apply].user = job[w].user
        /\ hold[job[w].apply].amount = job[w].amount /\ job[w].user \in Users
    BY <2>1 DEF ReviewInv, Matches, Safe, HandlerInv
  <2>3. account[job[w].user].frozen >= job[w].amount
    BY <2>1, <2>2, HeldSuffices
  <2>4. account[job[w].user].frozen \in Nat /\ job[w].amount \in Nat
    BY <2>2 DEF TypeOK, AccountType, JobType
  <2>5. hold' = [hold EXCEPT ![job[w].apply].state =
                    IF job[w].op = "complete" THEN "paid" ELSE "refunded"]
    BY <1>6, <2>3, <2>4 DEF ReviewAdjust
  <2>6. a # job[w].apply
    BY <2>1, <2>5 DEF TypeOK, HoldType
  <2>7. hold'[a] = hold[a]
    BY <2>5, <2>6 DEF TypeOK
  <2> QED BY <2>1, <2>6, <2>7 DEF HeldIsCovered, CoveredBy, Moves, OthersKeep
<1>7. ASSUME NEW w \in Workers, Crash(w) PROVE FALSE
  BY <1>7 DEF Crash
<1> QED BY <1>1, <1>2, <1>3, <1>4, <1>5, <1>6, <1>7, OtherSteps DEF Moving

(* When nothing fails and no process dies, what is frozen once every       *)
(* handler has returned is exactly the open applications: none that was    *)
(* rejected or paid leaves money behind (withdraw_service.py).             *)
THEOREM QuietIsExact ==
    ASSUME LeaseHolds, AdminOps = {}, Faults = {}, ~Crashes
    PROVE  Spec => []QuiescentExact
<1>1. Init => HeldIsCovered
  BY DEF Init, HeldIsCovered, Ledger!NoHold
<1>2. TypeOK /\ Safe /\ MovedOnce /\ HeldIsCovered /\ [Next]_vars => HeldIsCovered'
  BY CoveredStep
<1>3. TypeOK /\ Safe /\ MovedOnce /\ HeldIsCovered => QuiescentExact
  <2> SUFFICES ASSUME TypeOK, Safe, MovedOnce, HeldIsCovered,
                      \A w \in Workers : job[w] = Idle, NEW u \in Users
               PROVE  account[u].frozen = AmountOf({a \in Applies :
                         apply[a].user = u /\ apply[a].status \in OpenStatuses})
    BY DEF QuiescentExact
  <2> DEFINE S == {a \in Applies : hold[a].user = u /\ hold[a].state = "held"}
             T == {a \in Applies : apply[a].user = u /\ apply[a].status \in OpenStatuses}
             f == [a \in Applies |-> hold[a].amount]
             g == [a \in Applies |-> apply[a].amount]
  <2>1. \A a \in Applies : hold[a].state = "held" => apply[a].status \in OpenStatuses
    BY DEF HeldIsCovered, CoveredBy, Idle
  <2>2. S = T /\ \A a \in S : f[a] = g[a]
    BY <2>1 DEF Safe, OpenIsHeld
  <2>3. IsFiniteSet(S)
    BY ConstantsAssumption, FS_Subset
  <2>4. account[u].frozen = SumFunctionOnSet(f, S) /\ AmountOf(T) = SumFunctionOnSet(g, T)
    BY LedgerSums DEF MovedOnce, Ledger!FrozenIsHeld, Ledger!SumIn, AmountOf
  <2> HIDE DEF S, T, f, g
  <2>5. SumFunctionOnSet(f, S) = SumFunctionOnSet(g, S)
    BY <2>2, <2>3, SumSame
  <2>6. account[u].frozen = AmountOf(T)
    BY <2>2, <2>4, <2>5
  <2> QED BY <2>6 DEF T
<1> QED BY <1>1, <1>2, <1>3, MoneyMovedOnce, AlwaysSafe, PTL DEF Spec

-----------------------------------------------------------------------------
(* The daily limit.  An application counts while it is not rejected.       *)
Counted(r, u) == IF r.user = u /\ r.status \notin {"NONE", "REJECTED"} THEN r.amount ELSE 0

LEMMA UsedType == ASSUME TypeOK, NEW u PROVE UsedToday(u) \in Nat
<1> DEFINE f == [a \in Applies |-> apply[a].amount]
           S == {a \in Applies : apply[a].user = u /\ apply[a].status \notin {"NONE", "REJECTED"}}
<1>1. IsFiniteSet(S) /\ \A a \in S : f[a] \in Nat
  BY ConstantsAssumption, FS_Subset DEF TypeOK, ApplyType
<1> HIDE DEF f, S
<1>2. SumFunctionOnSet(f, S) \in Nat
  BY <1>1, SumNat
<1> QED BY <1>2 DEF UsedToday, AmountOf, f, S

LEMMA UsedStep ==
    ASSUME TypeOK, NEW a \in Applies, NEW r \in ApplyType,
           apply' = [apply EXCEPT ![a] = r], NEW u
    PROVE  UsedToday(u)' = UsedToday(u) - Counted(apply[a], u) + Counted(r, u)
<1> DEFINE f == [b \in Applies |-> apply[b].amount]
           g == [b \in Applies |-> apply'[b].amount]
           S == {b \in Applies : apply[b].user = u /\ apply[b].status \notin {"NONE", "REJECTED"}}
           T == {b \in Applies : apply'[b].user = u /\ apply'[b].status \notin {"NONE", "REJECTED"}}
<1>0. apply \in [Applies -> ApplyType] /\ apply' \in [Applies -> ApplyType] /\ apply'[a] = r
  BY DEF TypeOK
<1>1. IsFiniteSet(S) /\ IsFiniteSet(T)
  BY ConstantsAssumption, FS_Subset
<1>2. (\A b \in S : f[b] \in Int) /\ (\A b \in T : g[b] \in Int)
  BY <1>0 DEF ApplyType
<1>3. S \ {a} = T \ {a} /\ \A b \in S \ {a} : f[b] = g[b]
  BY <1>0
<1>4. Share(f, S, a) = Counted(apply[a], u) /\ Share(g, T, a) = Counted(r, u)
  BY <1>0 DEF Share, Counted
<1>5. UsedToday(u) = SumFunctionOnSet(f, S) /\ UsedToday(u)' = SumFunctionOnSet(g, T)
  BY DEF UsedToday, AmountOf
<1> HIDE DEF f, g, S, T
<1>6. SumFunctionOnSet(g, T) = SumFunctionOnSet(f, S) - Share(f, S, a) + Share(g, T, a)
  BY <1>1, <1>2, <1>3, SumChange
<1> QED BY <1>4, <1>5, <1>6

(* Two submissions under way past their locks are of different users. *)
SubmitLocked == {"validate", "deduct", "create", "invalidate"}

LEMMA UsersDiffer ==
    ASSUME Safe, NEW v \in Workers, NEW w \in Workers \ {v},
           job[v].pc \in SubmitLocked, job[w].pc \in SubmitLocked
    PROVE  job[v].user # job[w].user
  BY DEF Safe, HandlerInv, LocksAreHeld, SubmitInv, LockKey, SubmitLocked

(* What a submission checked stays true until it has written its row, and  *)
(* a cached total that is too small is about to be dropped.                *)
LimitInv(u) ==
    /\ UsedToday(u) <= DailyLimit
    /\ \A w \in Workers : job[w].pc \in {"deduct", "create"} /\ job[w].user = u =>
          UsedToday(u) + job[w].amount <= DailyLimit
    /\ dailyUsed[u] # None =>
          /\ dailyUsed[u] \in Nat
          /\ \/ UsedToday(u) <= dailyUsed[u]
             \/ \E w \in Workers : job[w].pc = "invalidate" /\ job[w].user = u

LEMMA BlindGrows == [Next]_vars => blind \subseteq blind'
<1> SUFFICES ASSUME [Next]_vars PROVE blind \subseteq blind'
  OBVIOUS
<1>1. ASSUME NEW u, LeftBehind(u) PROVE blind \subseteq blind'
  BY <1>1 DEF LeftBehind
<1>2. CASE UNCHANGED vars
  BY <1>2 DEF vars
<1>3. CASE Next
  BY <1>1, <1>3, StepCases DEF Credit, SubmitBegin, ReviewAcquire, B13Read, SubmitExpire,
     SubmitLock, SubmitValidate, SubmitDeduct, SubmitCreate, SubmitInvalidate, ReviewRead,
     ReviewStatus, ReviewAdjust, B13Write, Release, Crash, LeaseExpire, SubmitKeyExpire
<1> QED BY <1>2, <1>3

LEMMA LimitStep ==
    ASSUME LeaseHolds, AdminOps = {}, TypeOK, Safe,
           \A x \in Users \ blind : LimitInv(x), [Next]_vars, NEW u \in Users \ blind'
    PROVE  LimitInv(u)'
<1>0. /\ LimitInv(u) /\ UsedToday(u) \in Nat /\ DailyLimit \in Nat
      /\ \A w \in Workers : job[w].amount \in Nat
  BY UsedType, BlindGrows, ConstantsAssumption DEF TypeOK, JobType
<1>1. ASSUME UNCHANGED <<apply, dailyUsed>>,
             \A v \in Workers : \/ job'[v] = job[v]
                                \/ job[v].pc \notin Moving /\ job'[v].pc \notin Moving
                                \/ /\ job[v].pc = "deduct" /\ job'[v].pc \in {"create", "release"}
                                   /\ job'[v].user = job[v].user /\ job'[v].amount = job[v].amount
                                \/ job[v].pc \in {"create", "adjust"} /\ job'[v].pc = "release"
      PROVE  LimitInv(u)'
  <2>1. UsedToday(u)' = UsedToday(u)
    BY <1>1 DEF UsedToday, AmountOf
  <2>2. \A w \in Workers : job'[w].pc \in {"deduct", "create"} /\ job'[w].user = u =>
            UsedToday(u) + job'[w].amount <= DailyLimit
    BY <1>0, <1>1 DEF LimitInv, Moving
  <2>3. \A w \in Workers : job[w].pc = "invalidate" => job'[w] = job[w]
    BY <1>1 DEF Moving
  <2> QED BY <1>0, <1>1, <2>1, <2>2, <2>3 DEF LimitInv
<1>2. ASSUME NEW w \in Workers, SubmitDeduct(w) PROVE LimitInv(u)'
  <2>1. /\ job[w].pc = "deduct" /\ UNCHANGED <<apply, dailyUsed>>
        /\ Goto(w, "create") \/ Goto(w, "release")
    BY <1>2 DEF SubmitDeduct
  <2>2. Moves(w, "create") \/ Moves(w, "release")
    BY <2>1, GotoMoves
  <2> QED BY <1>1, <2>1, <2>2 DEF Moves, OthersKeep
<1>3. ASSUME NEW w \in Workers, ReviewAdjust(w) PROVE LimitInv(u)'
  <2>1. job[w].pc = "adjust" /\ UNCHANGED <<apply, dailyUsed>> /\ Goto(w, "release")
    BY <1>3 DEF ReviewAdjust
  <2>2. Moves(w, "release")
    BY <2>1, GotoMoves
  <2> QED BY <1>1, <2>1, <2>2 DEF Moves, OthersKeep
<1>4. ASSUME NEW w \in Workers, Crash(w) PROVE LimitInv(u)'
  <2>1. /\ UNCHANGED <<apply, dailyUsed>> /\ OthersKeep(w) /\ job'[w].pc = "idle"
    BY <1>4, FinishMoves DEF Crash, TypeOK, Idle, Finish
  <2>2. UsedToday(u)' = UsedToday(u)
    BY <2>1 DEF UsedToday, AmountOf
  <2>3. job[w].pc = "invalidate" /\ job[w].user = u => dailyUsed[u] = None
    BY <1>4 DEF Crash, LeftBehind
  <2> QED BY <1>0, <2>1, <2>2, <2>3 DEF LimitInv, OthersKeep
<1>5. ASSUME NEW w \in Workers, SubmitInvalidate(w) PROVE LimitInv(u)'
  <2>1. job[w].pc = "invalidate" /\ apply' = apply /\ Moves(w, "release")
    BY <1>5, GotoMoves DEF SubmitInvalidate
  <2>2. UsedToday(u)' = UsedToday(u)
    BY <2>1 DEF UsedToday, AmountOf
  <2>3. CASE dailyUsed' = [dailyUsed EXCEPT ![job[w].user] = None]
    <3>1. dailyUsed'[u] = IF job[w].user = u THEN None ELSE dailyUsed[u]
      BY <2>3 DEF TypeOK
    <3> QED BY <1>0, <2>1, <2>2, <3>1 DEF LimitInv, Moves, OthersKeep
  <2>4. CASE LeftBehind(job[w].user) /\ dailyUsed' = dailyUsed
    <3>1. job[w].user = u => dailyUsed[u] = None
      BY <2>4 DEF LeftBehind
    <3> QED BY <1>0, <2>1, <2>2, <2>4, <3>1 DEF LimitInv, Moves, OthersKeep
  <2> QED BY <1>5, <2>3, <2>4 DEF SubmitInvalidate
<1>6. ASSUME NEW w \in Workers, SubmitValidate(w) PROVE LimitInv(u)'
  <2> DEFINE x == job[w].user
  <2>1. /\ job[w].pc = "validate" /\ apply' = apply
        /\ OthersKeep(w) /\ job'[w].user = x /\ job'[w].amount = job[w].amount
        /\ job'[w].pc \in {"release", "deduct"}
    BY <1>6 DEF SubmitValidate, Goto, OthersKeep, TypeOK, JobType
  <2>2. x \in Users
    BY <2>1 DEF Safe, HandlerInv, SubmitInv
  <2>3. \A v \in Workers : ~ (job[v].pc = "invalidate" /\ job[v].user = x)
    BY <2>1, UsersDiffer DEF SubmitLocked
  <2>4. UsedToday(u)' = UsedToday(u)
    BY <2>1 DEF UsedToday, AmountOf
  <2>5. \A v \in Workers : job[v].pc = "invalidate" => job'[v] = job[v]
    BY <2>1 DEF OthersKeep
  <2>6. CASE u # x
    <3>1. dailyUsed'[u] = dailyUsed[u]
      BY <1>6, <2>6 DEF SubmitValidate, TypeOK
    <3>2. \A v \in Workers : job'[v].pc \in {"deduct", "create"} /\ job'[v].user = u =>
              job'[v] = job[v]
      BY <2>1, <2>6 DEF OthersKeep
    <3> QED BY <1>0, <2>4, <2>5, <3>1, <3>2 DEF LimitInv
  <2>7. CASE u = x
    <3>1. PICK used \in Totals(u) :
              /\ dailyUsed' = [dailyUsed EXCEPT ![u] = used] \/ dailyUsed' = dailyUsed
              /\ job'[w].pc = "release" \/ used + job[w].amount <= DailyLimit
      BY <1>6, <2>7 DEF SubmitValidate, Goto, TypeOK, JobType
    <3>2. used \in Nat /\ UsedToday(u) <= used
      BY <1>0, <2>3, <2>7, <3>1 DEF Totals, LimitInv
    <3>3. dailyUsed'[u] \in {used, dailyUsed[u]}
      BY <3>1 DEF TypeOK
    <3>4. job'[w].pc = "deduct" => UsedToday(u) + job'[w].amount <= DailyLimit
      BY <1>0, <2>1, <3>1, <3>2
    <3>5. \A v \in Workers : job'[v].pc \in {"deduct", "create"} /\ job'[v].user = u =>
              UsedToday(u) + job'[v].amount <= DailyLimit
      BY <1>0, <2>1, <3>4 DEF LimitInv, OthersKeep
    <3> QED BY <1>0, <2>4, <2>5, <3>2, <3>3, <3>5 DEF LimitInv
  <2> QED BY <2>6, <2>7
<1>7. ASSUME NEW w \in Workers, SubmitCreate(w) PROVE LimitInv(u)'
  <2> DEFINE x == job[w].user
             a == job[w].apply
             r == [status |-> "PENDING", user |-> x, amount |-> job[w].amount, fee |-> job[w].fee]
  <2>1. /\ job[w].pc = "create" /\ dailyUsed' = dailyUsed
        /\ \/ apply' = [apply EXCEPT ![a] = r] /\ Goto(w, "invalidate")
           \/ apply' = apply /\ Goto(w, "release")
    BY <1>7 DEF SubmitCreate
  <2>2. CASE apply' = apply /\ Goto(w, "release")
    <3>1. Moves(w, "release")
      BY <2>2, GotoMoves
    <3> QED BY <1>1, <2>1, <2>2, <3>1 DEF Moves, OthersKeep
  <2>3. CASE apply' = [apply EXCEPT ![a] = r] /\ Goto(w, "invalidate")
    <3>1. a \in Applies /\ x \in Users /\ apply[a].status = "NONE"
      BY <2>1 DEF Safe, HandlerInv, SubmitInv, FreshPCs
    <3>2. r \in ApplyType
      BY <3>1 DEF ApplyType, TypeOK, JobType
    <3>3. UsedToday(u)' = UsedToday(u) - Counted(apply[a], u) + Counted(r, u)
      BY <2>3, <3>1, <3>2, UsedStep
    <3>4. Counted(apply[a], u) = 0 /\ Counted(r, u) = IF u = x THEN job[w].amount ELSE 0
      BY <3>1 DEF Counted
    <3>5. Moves(w, "invalidate")
      BY <2>3, GotoMoves
    <3>6. \A v \in Workers \ {w} : job[v].pc \in {"deduct", "create"} => job[v].user # x
      BY <2>1, UsersDiffer DEF SubmitLocked
    <3> HIDE DEF r, a
    <3>7. CASE u = x
      BY <1>0, <2>1, <3>3, <3>4, <3>5, <3>6, <3>7 DEF LimitInv, Moves, OthersKeep
    <3>8. CASE u # x
      <4>1. UsedToday(u)' = UsedToday(u)
        BY <1>0, <3>3, <3>4, <3>8
      <4>2. \A v \in Workers : job'[v].pc \in {"deduct", "create"} /\ job'[v].user = u =>
                UsedToday(u) + job'[v].amount <= DailyLimit
        BY <1>0, <3>5 DEF LimitInv, Moves, OthersKeep
      <4>3. \A v \in Workers : job[v].pc = "invalidate" => job'[v] = job[v]
        BY <2>1, <3>5 DEF Moves, OthersKeep
      <4> QED BY <1>0, <2>1, <4>1, <4>2, <4>3 DEF LimitInv
    <3> QED BY <3>7, <3>8
  <2> QED BY <2>1, <2>2, <2>3
<1>8. ASSUME NEW w \in Workers, ReviewStatus(w) PROVE LimitInv(u)'
  <2> DEFINE a == job[w].apply
             r == [apply[a] EXCEPT !.status = WritesStatus[job[w].op]]
  <2>1. /\ job[w].pc = "status" /\ dailyUsed' = dailyUsed
        /\ a \in Applies /\ job[w].op \in ReviewOps
        /\ apply[a].status \in AllowedFrom[job[w].op]
    BY <1>8 DEF ReviewStatus, TypeOK, Safe, HandlerInv, ReviewInv
  <2>2. Moves(w, "release") \/ Moves(w, "adjust")
    BY <1>8, GotoMoves DEF ReviewStatus
  <2>3. UsedToday(u)' \in Int /\ UsedToday(u)' <= UsedToday(u)
    <3>1. CASE apply' = apply
      BY <1>0, <3>1 DEF UsedToday, AmountOf
    <3>2. CASE apply' = [apply EXCEPT ![a] = r]
      <4>1. apply[a] \in ApplyType /\ WritesStatus[job[w].op] \in Statuses
        BY <2>1 DEF TypeOK, WritesStatus
      <4>2. r \in ApplyType /\ r.user = apply[a].user /\ r.amount = apply[a].amount
        BY <4>1 DEF ApplyType
      <4>3. apply[a].status \notin {"NONE", "REJECTED"}
        BY <2>1 DEF AllowedFrom
      <4>4. UsedToday(u)' = UsedToday(u) - Counted(apply[a], u) + Counted(r, u)
        BY <2>1, <3>2, <4>2, UsedStep
      <4> HIDE DEF r
      <4>5. Counted(r, u) \in Nat /\ Counted(apply[a], u) \in Nat
            /\ Counted(r, u) <= Counted(apply[a], u)
        BY <4>1, <4>2, <4>3 DEF Counted, ApplyType
      <4> QED BY <1>0, <4>4, <4>5
    <3> QED BY <1>8, <3>1, <3>2 DEF ReviewStatus
  <2> HIDE DEF r, a
  <2>4. \A v \in Workers : job'[v].pc \in {"deduct", "create"} /\ job'[v].user = u =>
            UsedToday(u)' + job'[v].amount <= DailyLimit
    BY <1>0, <2>2, <2>3 DEF LimitInv, Moves, OthersKeep
  <2>5. \A v \in Workers : job[v].pc = "invalidate" => job'[v] = job[v]
    BY <2>1, <2>2 DEF Moves, OthersKeep
  <2> QED BY <1>0, <2>1, <2>3, <2>4, <2>5 DEF LimitInv
<1>9. CASE /\ UNCHANGED <<apply, hold, dailyUsed>>
           /\ \A v \in Workers : \/ job'[v] = job[v]
                                 \/ job[v].pc \notin Moving /\ job'[v].pc \notin Moving
  BY <1>1, <1>9
<1> QED BY <1>2, <1>3, <1>4, <1>5, <1>6, <1>7, <1>8, <1>9, OtherSteps

(* Today's applications of a user, the rejected ones excluded, stay within *)
(* WITHDRAW_DAILY_LIMIT although _check_daily_limit reads the total from a  *)
(* cache whose commands fail, the query raises and processes die: except   *)
(* for the users in blind, whose check was skipped by a raising query or    *)
(* whose stale total was kept by a failed DEL or a death before it.        *)
THEOREM LimitRespected ==
    ASSUME LeaseHolds, AdminOps = {}
    PROVE  Spec => []DailyLimitRespected
<1> DEFINE Inv == \A u \in Users \ blind : LimitInv(u)
<1>1. Init => Inv
  <2> SUFFICES ASSUME Init, NEW u \in Users PROVE LimitInv(u)
    BY DEF Init
  <2>1. {a \in Applies : apply[a].user = u /\ apply[a].status \notin {"NONE", "REJECTED"}} = {}
    BY DEF Init, NoApply
  <2>2. UsedToday(u) = 0
    BY <2>1, SumEmpty DEF UsedToday, AmountOf
  <2> QED BY <2>2, ConstantsAssumption DEF Init, LimitInv, Idle
<1>2. TypeOK /\ Safe /\ Inv /\ [Next]_vars => Inv'
  <2> SUFFICES ASSUME TypeOK, Safe, Inv, [Next]_vars, NEW u \in Users \ blind'
               PROVE  LimitInv(u)'
    OBVIOUS
  <2> QED BY LimitStep
<1>3. Inv => DailyLimitRespected
  BY DEF LimitInv, DailyLimitRespected
<1> HIDE DEF Inv
<1> QED BY <1>1, <1>2, <1>3, AlwaysSafe, PTL DEF Spec

(* Without crashes, and if EXPIRE does not fail, a resubmission key is     *)
(* never left without a TTL.                                              *)
THEOREM KeyHasTTL ==
    ASSUME ~Crashes, "expire" \notin Faults
    PROVE  Spec => []SubmitKeyHasTTL
<1>1. Init => SubmitKeyHasTTL
  BY DEF Init, SubmitKeyHasTTL
<1>2. ASSUME TypeOK, SubmitKeyHasTTL, [Next]_vars, NEW u \in Users, submitKey'[u] = "noTTL"
      PROVE  \E w \in Workers : job'[w].pc = "expire" /\ job'[w].user = u
  <2>1. ASSUME NEW w \in Workers, NEW x \in Users, NEW n \in Amounts, NEW a \in Applies,
               SubmitBegin(w, x, n, a)
        PROVE  \E v \in Workers : job'[v].pc = "expire" /\ job'[v].user = u
    <3>1. CASE x = u
      BY <1>2, <2>1, <3>1 DEF SubmitBegin, TypeOK
    <3>2. CASE x # u
      <4>1. submitKey[u] = "noTTL"
        BY <1>2, <2>1, <3>2 DEF SubmitBegin, TypeOK
      <4>2. PICK v \in Workers : job[v].pc = "expire" /\ job[v].user = u
        BY <4>1, <1>2 DEF SubmitKeyHasTTL
      <4>3. v # w
        BY <2>1, <4>2 DEF SubmitBegin, Idle
      <4> QED BY <1>2, <2>1, <4>2, <4>3 DEF SubmitBegin, TypeOK
    <3> QED BY <3>1, <3>2
  <2>2. ASSUME NEW w \in Workers, SubmitExpire(w)
        PROVE  \E v \in Workers : job'[v].pc = "expire" /\ job'[v].user = u
    <3>1. submitKey[u] = "noTTL" /\ job[w].user # u
      BY <1>2, <2>2 DEF SubmitExpire, TypeOK
    <3>2. PICK v \in Workers : job[v].pc = "expire" /\ job[v].user = u
      BY <3>1, <1>2 DEF SubmitKeyHasTTL
    <3> QED BY <1>2, <2>2, <3>1, <3>2 DEF SubmitExpire, TypeOK, Goto, Finish
  <2>3. CASE UNCHANGED submitKey /\ \A v \in Workers : job[v].pc = "expire" => job'[v] = job[v]
    BY <1>2, <2>3 DEF SubmitKeyHasTTL
  <2>4. ASSUME NEW x \in Users, SubmitKeyExpire(x)
        PROVE  \E v \in Workers : job'[v].pc = "expire" /\ job'[v].user = u
    <3>1. submitKey[u] = "noTTL" /\ job' = job
      BY <1>2, <2>4 DEF SubmitKeyExpire, TypeOK
    <3> QED BY <1>2, <3>1 DEF SubmitKeyHasTTL
  <2>5. ASSUME NEW w \in Workers, UNCHANGED submitKey, job[w].pc # "expire", OthersKeep(w)
        PROVE  \E v \in Workers : job'[v].pc = "expire" /\ job'[v].user = u
    BY <2>3, <2>5 DEF OthersKeep
  <2>6. \/ UNCHANGED <<submitKey, job>>
        \/ \E w \in Workers, x \in Users, n \in Amounts, a \in Applies : SubmitBegin(w, x, n, a)
        \/ \E w \in Workers : SubmitExpire(w)
        \/ \E x \in Users : SubmitKeyExpire(x)
        \/ \E w \in Workers : UNCHANGED submitKey /\ job[w].pc # "expire" /\ OthersKeep(w)
    <3>1. CASE UNCHANGED vars
      BY <3>1 DEF vars
    <3>2. ASSUME NEW w \in Workers, NEW pc, Goto(w, pc) PROVE OthersKeep(w)
      BY <1>2, <3>2, GotoMoves DEF Moves
    <3>3. ASSUME NEW w \in Workers, Finish(w) PROVE OthersKeep(w)
      BY <1>2, <3>3, FinishMoves
    <3>4. ASSUME NEW w \in Workers,
                 \/ SubmitLock(w) \/ SubmitDeduct(w) \/ SubmitCreate(w)
                 \/ SubmitInvalidate(w) \/ ReviewStatus(w)
                 \/ ReviewAdjust(w) \/ B13Write(w) \/ Release(w)
          PROVE  UNCHANGED submitKey /\ job[w].pc # "expire" /\ OthersKeep(w)
      BY <3>2, <3>3, <3>4 DEF SubmitLock, SubmitDeduct, SubmitCreate, SubmitInvalidate,
         ReviewStatus, ReviewAdjust, B13Write, Release
    <3>5. ASSUME NEW w \in Workers, SubmitValidate(w) \/ ReviewRead(w)
          PROVE  UNCHANGED submitKey /\ job[w].pc # "expire" /\ OthersKeep(w)
      BY <1>2, <3>5 DEF SubmitValidate, ReviewRead, Goto, OthersKeep, TypeOK
    <3>6. ASSUME NEW w \in Workers, NEW op, NEW a,
                 ReviewAcquire(w, op, a) \/ B13Read(w, op, a)
          PROVE  UNCHANGED submitKey /\ job[w].pc # "expire" /\ OthersKeep(w)
      BY <1>2, <3>6 DEF ReviewAcquire, B13Read, Idle, OthersKeep, TypeOK
    <3>7. CASE \E w \in Workers : Crash(w)
      <4>1. PICK w \in Workers : Crash(w)
        BY <3>7
      <4> QED BY <4>1 DEF Crash
    <3>8. CASE \E x \in Users, n \in Credits : Credit(x, n)
      BY <3>8 DEF Credit
    <3>9. CASE \E k \in LockKeys : LeaseExpire(k)
      BY <3>9 DEF LeaseExpire
    <3>10. CASE Next
      BY <3>4, <3>5, <3>6, <3>7, <3>8, <3>9, <3>10, StepCases
    <3> QED BY <1>2, <3>1, <3>10
  <2> QED BY <2>1, <2>2, <2>3, <2>4, <2>5, <2>6
<1>3. TypeOK /\ SubmitKeyHasTTL /\ [Next]_vars => SubmitKeyHasTTL'
  BY <1>2 DEF SubmitKeyHasTTL
<1> QED BY <1>1, <1>3, TypeCorrect, PTL DEF Spec
=============================================================================
