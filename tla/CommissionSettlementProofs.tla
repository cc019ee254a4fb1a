--------------------- MODULE CommissionSettlementProofs ---------------------
(***************************************************************************)
(* What holds of CommissionSettlement for every number of users, orders    *)
(* and workers and for every amount.  Types, and what causes a second      *)
(* credit or deduction, hold whatever the callers; the other theorems name *)
(* the callers that must not be in use together.  ReverseCommission, which *)
(* runs the same handlers, comes before the races.                         *)
(***************************************************************************)
EXTENDS ReverseCommission, SumTheorems, TLAPS, FiniteSetTheorems

(* One step of the system, named for the case analyses below. *)
LEMMA StepCases ==
    ASSUME Next
    PROVE  \/ \E o \in Orders, s \in OrderStatuses : OrderSync(o, s)
           \/ \E u \in Users : Withdraw(u)
           \/ \E w \in Workers, c \in Callers, o \in Orders :
                 \/ SettleBegin(w, c, o) \/ RefundBegin(w, c, o) \/ ReverseBegin(w, c, o)
                 \/ FreezeBegin(w, c, o) \/ UnfreezeBegin(w, c, o) \/ PaidBegin(w, c, o)
           \/ \E w \in Workers :
                 \/ SettleCalibrate(w) \/ SettleWrite(w) \/ ReverseLoad(w)
                 \/ DeductWrite(w, "refund") \/ DeductWrite(w, "reverse")
                 \/ OpLock(w) \/ FreezeWrite(w) \/ UnfreezeWrite(w) \/ PaidWrite(w)
                 \/ Crash(w)
  BY DEF Next, Begin, HandlerStep

-----------------------------------------------------------------------------
(* Sequences of rows keep their type when one row is replaced. *)
LEMMA ReplaceRow ==
    ASSUME NEW R, NEW s \in Seq(R), NEW k, NEW r, k \in DOMAIN s => r \in R
    PROVE  [s EXCEPT ![k] = r] \in Seq(R) /\ (s # <<>> => [s EXCEPT ![k] = r] # <<>>)
<1> DEFINE t == [s EXCEPT ![k] = r]
<1>1. DOMAIN t = 1 .. Len(s) /\ Len(s) \in Nat
  OBVIOUS
<1>2. ASSUME NEW i \in 1 .. Len(s) PROVE t[i] \in R
  BY <1>2
<1>3. t \in [1 .. Len(s) -> R]
  BY <1>1, <1>2
<1>4. s # <<>> => 1 \in DOMAIN t
  BY <1>1
<1> QED BY <1>1, <1>3, <1>4

LEMMA FirstRow == ASSUME NEW n \in Nat PROVE Len(Append(<<>>, n)) = 1
<1>1. <<>> \in Seq(Nat)
  OBVIOUS
<1> QED BY <1>1

FlowType   == [status : {"PENDING", "SUCCESS", "FAILED"}, amount : Nat]
RecordType == [status : SettlementStatuses, amount : Nat, flow : Nat]
OrderType  == [status : OrderStatuses, commission : Nat]

GoodJob ==
    {j \in JobType : j.pc # "idle" => j.caller \in Callers /\ j.order \in Orders}

(* TypeOK, by table; a worker that is to load an order's flows finds one.  *)
RowsTyped ==
    /\ order \in [Orders -> OrderType]
    /\ orderFlows \in [Orders -> Seq(FlowType)]
    /\ deductFlows \in [Orders -> Seq(Nat)]
    /\ settlement \in [Orders -> Seq(RecordType)]
    /\ account \in [Users -> AccountType]
JobsTyped == job \in [Workers -> GoodJob]
LoadFindsFlow ==
    \A w \in Workers : job[w].pc = "load" => orderFlows[job[w].order] # <<>>
TypeInv == RowsTyped /\ JobsTyped /\ LoadFindsFlow

LEMMA TypeInvTypes == TypeInv => TypeOK
  BY DEF TypeInv, RowsTyped, JobsTyped, TypeOK, GoodJob, FlowType, RecordType, OrderType

LEMMA IdleJob == Idle \in GoodJob /\ Idle.pc = "idle"
  BY DEF Idle, GoodJob, JobType, NoRead

LEMMA FinishTyped ==
    ASSUME JobsTyped, NEW w \in Workers, Finish(w)
    PROVE  JobsTyped'
  BY IdleJob DEF JobsTyped, Finish

LEMMA GotoTyped ==
    ASSUME JobsTyped, NEW w \in Workers, NEW pc \in {"calibrate", "lock", "write"},
           job[w].pc # "idle", Goto(w, pc)
    PROVE  JobsTyped'
<1> DEFINE j == [job[w] EXCEPT !.pc = pc]
<1>1. job[w] \in GoodJob
  BY DEF JobsTyped
<1>2. j \in GoodJob
  BY <1>1 DEF GoodJob, JobType
<1>3. job' = [job EXCEPT ![w] = j]
  BY DEF Goto
<1> HIDE DEF j
<1> QED BY <1>2, <1>3 DEF JobsTyped

LEMMA StartTyped ==
    ASSUME JobsTyped, NEW w \in Workers, NEW c \in Callers, NEW o \in Orders,
           NEW pc \in {"calibrate", "load", "lock", "write"}, NEW amount \in Nat,
           NEW seen \in {"NONE", "PENDING", "SUCCESS", "FAILED"},
           Start(w, c, o, pc, amount, seen)
    PROVE  JobsTyped'
<1> DEFINE j == [pc |-> pc, caller |-> c, order |-> o, amount |-> amount,
                 seen |-> seen, read |-> NoRead]
<1>1. j \in GoodJob
  BY DEF GoodJob, JobType, NoRead
<1>2. job' = [job EXCEPT ![w] = j]
  BY DEF Start
<1> HIDE DEF j
<1> QED BY <1>1, <1>2 DEF JobsTyped

(* The first flow of an order that has one. *)
LEMMA FirstFlow ==
    ASSUME RowsTyped, NEW o \in Orders, orderFlows[o] # <<>>
    PROVE  orderFlows[o][1] \in FlowType
<1>1. orderFlows[o] \in Seq(FlowType)
  BY DEF RowsTyped
<1> QED BY <1>1

LEMMA InitTyped == Init => TypeInv
<1> SUFFICES ASSUME Init PROVE TypeInv
  OBVIOUS
<1> USE ConstantsAssumption
<1>1. Promised!ZeroAccount \in AccountType
  BY DEF Promised!ZeroAccount, AccountType
<1>2. \A o \in Orders : order[o] \in OrderType
  <2>1. {"PENDING"} \subseteq OrderStatuses
    BY DEF OrderStatuses
  <2> QED BY <2>1 DEF Init, OrderType
<1>3. RowsTyped
  BY <1>1, <1>2 DEF Init, RowsTyped
<1> QED BY <1>3, IdleJob DEF Init, TypeInv, JobsTyped, LoadFindsFlow

(* A step that only begins, drops or moves a job leaves the tables alone. *)
LEMMA RowsUntouched ==
    ASSUME RowsTyped, UNCHANGED <<order, orderFlows, deductFlows, settlement, account>>
    PROVE  RowsTyped'
  BY DEF RowsTyped

(* A worker that leaves "load", or never was there, owes no flow. *)
LEMMA LoadKept ==
    ASSUME TypeInv, NEW w \in Workers, Finish(w) \/ \E pc \in {"calibrate", "lock", "write"} : Goto(w, pc),
           \A o \in Orders : orderFlows[o] # <<>> => orderFlows'[o] # <<>>
    PROVE  LoadFindsFlow'
<1> SUFFICES ASSUME NEW v \in Workers, job'[v].pc = "load"
             PROVE  orderFlows'[job'[v].order] # <<>>
  BY DEF LoadFindsFlow
<1>1. job[v] \in GoodJob /\ job[w] \in GoodJob
  BY DEF TypeInv, JobsTyped
<1>2. v # w
  BY <1>1, IdleJob DEF Finish, Goto, TypeInv, JobsTyped, GoodJob, JobType
<1>3. job'[v] = job[v]
  BY <1>2 DEF Finish, Goto, TypeInv, JobsTyped
<1>4. job[v].order \in Orders
  BY <1>1, <1>3 DEF GoodJob
<1> QED BY <1>3, <1>4 DEF TypeInv, LoadFindsFlow

LEMMA LoadStarted ==
    ASSUME TypeInv, NEW w \in Workers, NEW c, NEW o, NEW pc, NEW amount, NEW seen,
           Start(w, c, o, pc, amount, seen), pc = "load" => orderFlows[o] # <<>>,
           UNCHANGED orderFlows
    PROVE  LoadFindsFlow'
  BY DEF Start, TypeInv, JobsTyped, LoadFindsFlow

(* Money moved in one account, between balances that stay natural numbers. *)
LEMMA AccountTyped ==
    ASSUME RowsTyped, NEW u \in Users, NEW a \in AccountType,
           account' = [account EXCEPT ![u] = a]
    PROVE  account' \in [Users -> AccountType]
  BY DEF RowsTyped

LEMMA WithdrawTyped ==
    ASSUME RowsTyped, NEW u \in Users, Withdraw(u)
    PROVE  account' \in [Users -> AccountType]
<1> USE ConstantsAssumption
<1>1. account[u] \in AccountType
  BY DEF RowsTyped
<1>2. PICK n \in Withdrawals : \/ Promised!WithdrawHold(u, n)
                               \/ Promised!WithdrawReturn(u, n)
                               \/ Promised!WithdrawPay(u, n)
  BY DEF Withdraw, Promised!Withdraw
<1>3. n \in Nat
  OBVIOUS
<1>4. CASE Promised!WithdrawHold(u, n)
  <2> DEFINE a == [account[u] EXCEPT !.available = account[u].available - n,
                                     !.frozen = account[u].frozen + n,
                                     !.held = account[u].held + n]
  <2>1. account' = [account EXCEPT ![u] = a] /\ account[u].available >= n
    BY <1>4, <1>1 DEF Promised!WithdrawHold, RowsTyped, AccountType
  <2>2. a \in AccountType
    <3>1. account[u].available - n \in Nat /\ account[u].frozen + n \in Nat
          /\ account[u].held + n \in Nat
      BY <1>1, <1>3, <2>1 DEF AccountType
    <3> QED BY <1>1, <3>1 DEF AccountType
  <2> QED BY <2>1, <2>2, AccountTyped
<1>5. CASE Promised!WithdrawReturn(u, n)
  <2> DEFINE a == [account[u] EXCEPT !.available = account[u].available + n,
                                     !.frozen = account[u].frozen - n,
                                     !.held = account[u].held - n]
  <2>1. account' = [account EXCEPT ![u] = a]
        /\ account[u].held >= n /\ account[u].frozen >= n
    BY <1>5, <1>1 DEF Promised!WithdrawReturn, RowsTyped, AccountType
  <2>2. a \in AccountType
    <3>1. account[u].available + n \in Nat /\ account[u].frozen - n \in Nat
          /\ account[u].held - n \in Nat
      BY <1>1, <1>3, <2>1 DEF AccountType
    <3> QED BY <1>1, <3>1 DEF AccountType
  <2> QED BY <2>1, <2>2, AccountTyped
<1>6. CASE Promised!WithdrawPay(u, n)
  <2> DEFINE a == [account[u] EXCEPT !.out = account[u].out + n,
                                     !.frozen = account[u].frozen - n,
                                     !.held = account[u].held - n]
  <2>1. account' = [account EXCEPT ![u] = a]
        /\ account[u].held >= n /\ account[u].frozen >= n
    BY <1>6, <1>1 DEF Promised!WithdrawPay, RowsTyped, AccountType
  <2>2. a \in AccountType
    <3>1. account[u].out + n \in Nat /\ account[u].frozen - n \in Nat
          /\ account[u].held - n \in Nat
      BY <1>1, <1>3, <2>1 DEF AccountType
    <3> QED BY <1>1, <3>1 DEF AccountType
  <2> QED BY <2>1, <2>2, AccountTyped
<1> QED BY <1>2, <1>4, <1>5, <1>6


-----------------------------------------------------------------------------
(* The transactions.  Each keeps every row typed and deletes no flow.      *)
FlowsKept == \A o \in Orders : orderFlows[o] # <<>> => orderFlows'[o] # <<>>

(* What a worker at its write step has in hand. *)
LEMMA JobAtWrite ==
    ASSUME JobsTyped, NEW w \in Workers, job[w].pc # "idle"
    PROVE  /\ job[w].caller \in Callers /\ job[w].order \in Orders /\ job[w].amount \in Nat
           /\ job[w].read \in [available : Nat, total : Int]
           /\ job[w].seen \in {"NONE", "PENDING", "SUCCESS", "FAILED"}
           /\ Owner[job[w].order] \in Users
<1>1. job[w] \in GoodJob
  BY DEF JobsTyped
<1> QED BY <1>1, ConstantsAssumption DEF GoodJob, JobType

LEMMA FlowAppended ==
    ASSUME RowsTyped, NEW o \in Orders, NEW r \in FlowType,
           orderFlows' = [orderFlows EXCEPT ![o] = Append(orderFlows[o], r)]
    PROVE  orderFlows' \in [Orders -> Seq(FlowType)] /\ FlowsKept
<1>1. orderFlows[o] \in Seq(FlowType)
  BY DEF RowsTyped
<1>2. Append(orderFlows[o], r) \in Seq(FlowType) /\ Append(orderFlows[o], r) # <<>>
  BY <1>1
<1> QED BY <1>2 DEF RowsTyped, FlowsKept

LEMMA FlowMarked ==
    ASSUME RowsTyped, NEW o \in Orders, NEW k, NEW st \in {"SUCCESS", "FAILED"},
           orderFlows' = [orderFlows EXCEPT ![o] =
                             [orderFlows[o] EXCEPT ![k] = [orderFlows[o][k] EXCEPT !.status = st]]]
    PROVE  orderFlows' \in [Orders -> Seq(FlowType)] /\ FlowsKept
<1> DEFINE r == [orderFlows[o][k] EXCEPT !.status = st]
           t == [orderFlows[o] EXCEPT ![k] = r]
<1>1. orderFlows[o] \in Seq(FlowType)
  BY DEF RowsTyped
<1>2. k \in DOMAIN orderFlows[o] => orderFlows[o][k] \in FlowType
  BY <1>1
<1>3. k \in DOMAIN orderFlows[o] => r \in FlowType
  BY <1>2 DEF FlowType
<1>4. orderFlows' = [orderFlows EXCEPT ![o] = t]
  OBVIOUS
<1>5. t \in Seq(FlowType) /\ (orderFlows[o] # <<>> => t # <<>>)
  <2> HIDE DEF r
  <2> QED BY <1>1, <1>3, ReplaceRow
<1> HIDE DEF t
<1> QED BY <1>4, <1>5 DEF RowsTyped, FlowsKept

LEMMA RecordMarked ==
    ASSUME RowsTyped, NEW o \in Orders, NEW st \in {"SETTLED", "PAID"},
           settlement' = [settlement EXCEPT ![o] =
                             [settlement[o] EXCEPT ![1] = [settlement[o][1] EXCEPT !.status = st]]]
    PROVE  settlement' \in [Orders -> Seq(RecordType)]
<1> DEFINE r == [settlement[o][1] EXCEPT !.status = st]
           t == [settlement[o] EXCEPT ![1] = r]
<1>1. settlement[o] \in Seq(RecordType)
  BY DEF RowsTyped
<1>2. 1 \in DOMAIN settlement[o] => settlement[o][1] \in RecordType
  BY <1>1
<1>3. 1 \in DOMAIN settlement[o] => r \in RecordType
  BY <1>2 DEF RecordType, SettlementStatuses
<1>4. settlement' = [settlement EXCEPT ![o] = t]
  OBVIOUS
<1>5. t \in Seq(RecordType)
  <2> HIDE DEF r
  <2> QED BY <1>1, <1>3, ReplaceRow
<1> HIDE DEF t
<1> QED BY <1>4, <1>5 DEF RowsTyped

LEMMA AccountMoved ==
    ASSUME RowsTyped, NEW u \in Users, NEW av \in Nat, NEW fr \in Nat, NEW tot \in Int,
           account' = [account EXCEPT ![u] = [account[u] EXCEPT !.available = av,
                                                 !.frozen = fr, !.total = tot]]
    PROVE  account' \in [Users -> AccountType]
<1>1. account[u] \in AccountType
  BY DEF RowsTyped
<1>2. [account[u] EXCEPT !.available = av, !.frozen = fr, !.total = tot] \in AccountType
  BY <1>1 DEF AccountType
<1> QED BY <1>2, AccountTyped

LEMMA SettleRows ==
    ASSUME RowsTyped, JobsTyped, NEW w \in Workers, SettleWrite(w)
    PROVE  RowsTyped' /\ FlowsKept
<1> DEFINE j == job[w]
           u == Owner[j.order]
           r == [status |-> "SUCCESS", amount |-> j.amount]
<1>1. j.order \in Orders /\ j.amount \in Nat /\ u \in Users
  BY JobAtWrite DEF SettleWrite, AtWrite
<1>2. account[u] \in AccountType
  BY <1>1 DEF RowsTyped
<1>3. CASE j.amount > 0
  <2>1. orderFlows' = [orderFlows EXCEPT ![j.order] = Append(orderFlows[j.order], r)]
    BY <1>3 DEF SettleWrite
  <2>2. r \in FlowType
    BY <1>1 DEF FlowType
  <2>3. account' = [account EXCEPT ![u] =
                       [account[u] EXCEPT !.available = account[u].available + j.amount,
                                          !.frozen = account[u].frozen,
                                          !.total = account[u].total + j.amount]]
    BY <1>1, <1>2, <1>3 DEF SettleWrite, RowsTyped, AccountType
  <2>4. account[u].available + j.amount \in Nat /\ account[u].total + j.amount \in Int
        /\ account[u].frozen \in Nat
    BY <1>1, <1>2 DEF AccountType
  <2>5. account' \in [Users -> AccountType]
    <3> HIDE DEF u, j
    <3> QED BY <1>1, <2>3, <2>4, AccountMoved
  <2>6. orderFlows' \in [Orders -> Seq(FlowType)] /\ FlowsKept
    <3> HIDE DEF r, j
    <3> QED BY <1>1, <2>1, <2>2, FlowAppended
  <2> QED BY <2>5, <2>6 DEF RowsTyped, SettleWrite
<1>4. CASE ~(j.amount > 0)
  BY <1>4 DEF SettleWrite, RowsTyped, FlowsKept
<1> QED BY <1>3, <1>4

LEMMA DeductRows ==
    ASSUME RowsTyped, JobsTyped, NEW w \in Workers, NEW op, DeductWrite(w, op)
    PROVE  RowsTyped' /\ FlowsKept
<1> DEFINE j == job[w]
           u == Owner[j.order]
           base == IF op = "reverse" THEN j.read
                   ELSE [available |-> account[u].available, total |-> account[u].total]
<1>0. /\ \/ /\ j.seen = "PENDING"
            /\ orderFlows' = [orderFlows EXCEPT ![j.order][1].status = "FAILED"]
            /\ UNCHANGED <<deductFlows, account>>
         \/ /\ j.seen # "PENDING" /\ base.available >= j.amount
            /\ deductFlows' = [deductFlows EXCEPT ![j.order] = Append(@, j.amount)]
            /\ account' = [account EXCEPT ![u].available = base.available - j.amount,
                                          ![u].total = base.total - j.amount]
            /\ UNCHANGED orderFlows
         \/ /\ j.seen # "PENDING" /\ base.available < j.amount
            /\ UNCHANGED <<orderFlows, deductFlows, account>>
      /\ UNCHANGED <<order, settlement>>
  BY DEF DeductWrite
<1>1. /\ j.order \in Orders /\ j.amount \in Nat /\ u \in Users
      /\ j.read \in [available : Nat, total : Int]
  BY JobAtWrite DEF DeductWrite, AtWrite
<1>2. account[u] \in AccountType
  BY <1>1 DEF RowsTyped
<1>3. base.available \in Nat /\ base.total \in Int
  BY <1>1, <1>2 DEF AccountType
<1>4. CASE j.seen = "PENDING"
  <2>1. orderFlows' = [orderFlows EXCEPT ![j.order] =
                          [orderFlows[j.order] EXCEPT ![1] =
                              [orderFlows[j.order][1] EXCEPT !.status = "FAILED"]]]
    BY <1>4, <1>1 DEF DeductWrite, RowsTyped
  <2>2. orderFlows' \in [Orders -> Seq(FlowType)] /\ FlowsKept
    <3> HIDE DEF j
    <3> QED BY <1>1, <2>1, FlowMarked
  <2> QED BY <2>2, <1>4 DEF DeductWrite, RowsTyped
<1>5. CASE j.seen # "PENDING" /\ base.available >= j.amount
  <2>1. /\ account' = [account EXCEPT ![u].available = base.available - j.amount,
                                      ![u].total = base.total - j.amount]
        /\ deductFlows' = [deductFlows EXCEPT ![j.order] = Append(@, j.amount)]
        /\ UNCHANGED <<order, orderFlows, settlement>>
    <3> HIDE DEF base, j, u
    <3> QED BY ONLY <1>0, <1>1, <1>3, <1>5
  <2>2. account' = [account EXCEPT ![u] =
                       [account[u] EXCEPT !.available = base.available - j.amount,
                                          !.frozen = account[u].frozen,
                                          !.total = base.total - j.amount]]
    <3> HIDE DEF base, j, u
    <3> QED BY <1>1, <1>2, <2>1 DEF RowsTyped, AccountType
  <2>3. base.available - j.amount \in Nat /\ base.total - j.amount \in Int
        /\ account[u].frozen \in Nat
    <3> HIDE DEF base, j, u
    <3> QED BY <1>1, <1>2, <1>3, <1>5 DEF AccountType
  <2>4. account' \in [Users -> AccountType]
    <3> HIDE DEF u, j, base
    <3> QED BY <1>1, <2>2, <2>3, AccountMoved
  <2>5. deductFlows' \in [Orders -> Seq(Nat)]
    <3>1. deductFlows[j.order] \in Seq(Nat)
      BY <1>1 DEF RowsTyped
    <3>2. Append(deductFlows[j.order], j.amount) \in Seq(Nat)
      BY <3>1, <1>1
    <3> QED BY <3>2, <2>1 DEF RowsTyped
  <2> QED BY <2>1, <2>4, <2>5 DEF RowsTyped, FlowsKept
<1>6. CASE j.seen # "PENDING" /\ base.available < j.amount
  <2>1. UNCHANGED <<order, orderFlows, deductFlows, settlement, account>>
    <3> HIDE DEF base, j, u
    <3> QED BY ONLY <1>0, <1>1, <1>3, <1>6
  <2> QED BY <2>1 DEF RowsTyped, FlowsKept
<1> QED
  <2> HIDE DEF base
  <2> QED BY <1>1, <1>3, <1>4, <1>5, <1>6

LEMMA FreezeRows ==
    ASSUME RowsTyped, JobsTyped, NEW w \in Workers, FreezeWrite(w)
    PROVE  RowsTyped' /\ FlowsKept
<1> DEFINE j == job[w]
           u == Owner[j.order]
           r == [status |-> "PENDING", amount |-> j.amount]
           t == [status |-> "SETTLABLE", amount |-> j.amount,
                 flow |-> Len(orderFlows[j.order]) + 1]
<1>1. j.order \in Orders /\ j.amount \in Nat /\ u \in Users
  BY JobAtWrite DEF FreezeWrite, AtWrite
<1>2. account[u] \in AccountType
  BY <1>1 DEF RowsTyped
<1>3. CASE j.amount > 0
  <2>1. /\ orderFlows' = [orderFlows EXCEPT ![j.order] = Append(orderFlows[j.order], r)]
        /\ settlement' = [settlement EXCEPT ![j.order] = Append(settlement[j.order], t)]
    BY <1>3 DEF FreezeWrite
  <2>2. r \in FlowType
    BY <1>1 DEF FlowType
  <2>3. t \in RecordType
    <3>1. Len(orderFlows[j.order]) \in Nat
      BY <1>1 DEF RowsTyped
    <3> QED BY <1>1, <3>1 DEF RecordType, SettlementStatuses
  <2>4. settlement' \in [Orders -> Seq(RecordType)]
    <3> HIDE DEF t
    <3>1. settlement[j.order] \in Seq(RecordType)
      BY <1>1 DEF RowsTyped
    <3>2. Append(settlement[j.order], t) \in Seq(RecordType)
      BY <3>1, <2>3
    <3> QED BY <3>2, <2>1 DEF RowsTyped
  <2>5. account' = [account EXCEPT ![u] =
                       [account[u] EXCEPT !.available = account[u].available,
                                          !.frozen = account[u].frozen + j.amount,
                                          !.total = account[u].total + j.amount]]
    BY <1>1, <1>2, <1>3 DEF FreezeWrite, RowsTyped, AccountType
  <2>6. account[u].frozen + j.amount \in Nat /\ account[u].total + j.amount \in Int
        /\ account[u].available \in Nat
    BY <1>1, <1>2 DEF AccountType
  <2>7. account' \in [Users -> AccountType]
    <3> HIDE DEF u, j
    <3> QED BY <1>1, <2>5, <2>6, AccountMoved
  <2>8. orderFlows' \in [Orders -> Seq(FlowType)] /\ FlowsKept
    <3> HIDE DEF r, j
    <3> QED BY <1>1, <2>1, <2>2, FlowAppended
  <2> QED BY <2>4, <2>7, <2>8 DEF RowsTyped, FreezeWrite
<1>4. CASE ~(j.amount > 0)
  BY <1>4 DEF FreezeWrite, RowsTyped, FlowsKept
<1> QED BY <1>3, <1>4

LEMMA UnfreezeRows ==
    ASSUME RowsTyped, JobsTyped, NEW w \in Workers, UnfreezeWrite(w)
    PROVE  RowsTyped' /\ FlowsKept
<1> DEFINE j == job[w]
           u == Owner[j.order]
           k == settlement[j.order][1].flow
<1>1. j.order \in Orders /\ j.amount \in Nat /\ u \in Users
  BY JobAtWrite DEF UnfreezeWrite, AtWrite
<1>2. account[u] \in AccountType
  BY <1>1 DEF RowsTyped
<1>3. CASE account[u].frozen >= j.amount
  <2>1. orderFlows' = [orderFlows EXCEPT ![j.order] =
                          [orderFlows[j.order] EXCEPT ![k] =
                              [orderFlows[j.order][k] EXCEPT !.status = "SUCCESS"]]]
    BY <1>3, <1>1 DEF UnfreezeWrite, RowsTyped
  <2>2. orderFlows' \in [Orders -> Seq(FlowType)] /\ FlowsKept
    <3> HIDE DEF j, k
    <3> QED BY <1>1, <2>1, FlowMarked
  <2>3. settlement' = [settlement EXCEPT ![j.order] =
                          [settlement[j.order] EXCEPT ![1] =
                              [settlement[j.order][1] EXCEPT !.status = "SETTLED"]]]
    BY <1>3, <1>1 DEF UnfreezeWrite, RowsTyped
  <2>4. settlement' \in [Orders -> Seq(RecordType)]
    <3> HIDE DEF j
    <3> QED BY <1>1, <2>3, RecordMarked
  <2>5. account' = [account EXCEPT ![u] =
                       [account[u] EXCEPT !.available = account[u].available + j.amount,
                                          !.frozen = account[u].frozen - j.amount,
                                          !.total = account[u].total]]
    <3>1. account' = [account EXCEPT ![u].frozen = @ - j.amount,
                                     ![u].available = @ + j.amount]
      BY <1>3 DEF UnfreezeWrite
    <3>2. account \in [Users -> AccountType]
      BY DEF RowsTyped
    <3> HIDE DEF j, u
    <3> QED BY ONLY <1>1, <1>2, <3>1, <3>2 DEF AccountType
  <2>6. account[u].available + j.amount \in Nat /\ account[u].frozen - j.amount \in Nat
        /\ account[u].total \in Int
    BY <1>1, <1>2, <1>3 DEF AccountType
  <2>7. account' \in [Users -> AccountType]
    <3> HIDE DEF u, j
    <3> QED BY <1>1, <2>5, <2>6, AccountMoved
  <2> QED BY <2>2, <2>4, <2>7 DEF RowsTyped, UnfreezeWrite
<1>4. CASE ~(account[u].frozen >= j.amount)
  BY <1>4 DEF UnfreezeWrite, RowsTyped, FlowsKept
<1> QED BY <1>3, <1>4

LEMMA PaidRows ==
    ASSUME RowsTyped, JobsTyped, NEW w \in Workers, PaidWrite(w)
    PROVE  RowsTyped' /\ FlowsKept
<1> DEFINE o == job[w].order
<1>1. o \in Orders
  BY JobAtWrite DEF PaidWrite, AtWrite
<1>2. settlement' = [settlement EXCEPT ![o] =
                        [settlement[o] EXCEPT ![1] = [settlement[o][1] EXCEPT !.status = "PAID"]]]
  BY <1>1 DEF PaidWrite, RowsTyped
<1>3. settlement' \in [Orders -> Seq(RecordType)]
  <2> HIDE DEF o
  <2> QED BY <1>1, <1>2, RecordMarked
<1> QED BY <1>3 DEF RowsTyped, PaidWrite, FlowsKept


-----------------------------------------------------------------------------
LEMMA WriteStep ==
    ASSUME TypeInv, NEW w \in Workers, Finish(w), RowsTyped', FlowsKept
    PROVE  TypeInv'
<1>1. JobsTyped'
  BY FinishTyped DEF TypeInv
<1>2. LoadFindsFlow'
  BY LoadKept DEF FlowsKept
<1> QED BY <1>1, <1>2 DEF TypeInv

LEMMA BeginStep ==
    ASSUME TypeInv, NEW w \in Workers, NEW c \in Callers, NEW o \in Orders,
           NEW pc \in {"calibrate", "load", "lock", "write"}, NEW amount \in Nat,
           NEW seen \in {"NONE", "PENDING", "SUCCESS", "FAILED"},
           Start(w, c, o, pc, amount, seen), pc = "load" => orderFlows[o] # <<>>,
           UNCHANGED <<order, orderFlows, deductFlows, settlement, account>>
    PROVE  TypeInv'
<1>1. RowsTyped'
  BY RowsUntouched DEF TypeInv
<1>2. JobsTyped'
  BY StartTyped DEF TypeInv
<1>3. LoadFindsFlow'
  BY LoadStarted
<1> QED BY <1>1, <1>2, <1>3 DEF TypeInv

LEMMA StepTyped == TypeInv /\ [Next]_vars => TypeInv'
<1> SUFFICES ASSUME TypeInv, [Next]_vars PROVE TypeInv'
  OBVIOUS
<1> USE ConstantsAssumption
<1>t. RowsTyped /\ JobsTyped /\ LoadFindsFlow
  BY DEF TypeInv
<1>0. CASE UNCHANGED vars
  BY <1>0 DEF vars, TypeInv, RowsTyped, JobsTyped, LoadFindsFlow
<1>1. ASSUME NEW o \in Orders, NEW s \in OrderStatuses, OrderSync(o, s) PROVE TypeInv'
  <2>1. order[o] \in OrderType
    BY <1>t DEF RowsTyped
  <2>2. [order[o] EXCEPT !.status = s] \in OrderType
    BY <2>1 DEF OrderType
  <2>3. order' = [order EXCEPT ![o] = [order[o] EXCEPT !.status = s]]
    BY <1>1 DEF OrderSync
  <2>4. order' \in [Orders -> OrderType]
    BY <1>t, <2>2, <2>3 DEF RowsTyped
  <2> QED BY <1>1, <1>t, <2>4 DEF OrderSync, TypeInv, RowsTyped, JobsTyped, LoadFindsFlow
<1>2. ASSUME NEW u \in Users, Withdraw(u) PROVE TypeInv'
  <2>1. account' \in [Users -> AccountType]
    BY <1>2, <1>t, WithdrawTyped
  <2>2. UNCHANGED <<order, orderFlows, deductFlows, settlement, job>>
    BY <1>2 DEF Withdraw
  <2> QED BY <1>t, <2>1, <2>2 DEF TypeInv, RowsTyped, JobsTyped, LoadFindsFlow
<1>3. ASSUME NEW w \in Workers, NEW c \in Callers, NEW o \in Orders, SettleBegin(w, c, o)
      PROVE  TypeInv'
  <2>1. PICK n \in Commissions :
            Start(w, c, o, IF n = order[o].commission THEN "write" ELSE "calibrate", n, "NONE")
    BY <1>3 DEF SettleBegin
  <2>2. UNCHANGED <<order, orderFlows, deductFlows, settlement, account>>
    BY <1>3 DEF SettleBegin
  <2> DEFINE pc == IF n = order[o].commission THEN "write" ELSE "calibrate"
  <2>3. pc \in {"calibrate", "write"} /\ n \in Nat
    OBVIOUS
  <2>4. Start(w, c, o, pc, n, "NONE")
    BY <2>1
  <2> HIDE DEF pc
  <2> QED BY <2>2, <2>3, <2>4, BeginStep
<1>4. ASSUME NEW w \in Workers, NEW c \in Callers, NEW o \in Orders, RefundBegin(w, c, o)
      PROVE  TypeInv'
  <2>1. orderFlows[o][1] \in FlowType
    BY <1>4, <1>t, FirstFlow DEF RefundBegin
  <2>2. orderFlows[o][1].amount \in Nat /\ orderFlows[o][1].status \in {"PENDING", "SUCCESS", "FAILED"}
    BY <2>1 DEF FlowType
  <2>3. /\ Start(w, c, o, "write", orderFlows[o][1].amount, orderFlows[o][1].status)
        /\ UNCHANGED <<order, orderFlows, deductFlows, settlement, account>>
    BY <1>4 DEF RefundBegin
  <2> QED BY <2>2, <2>3, BeginStep
<1>5. ASSUME NEW w \in Workers, NEW c \in Callers, NEW o \in Orders, ReverseBegin(w, c, o)
      PROVE  TypeInv'
  <2>1. /\ Start(w, c, o, "load", 0, "NONE") /\ orderFlows[o] # <<>>
        /\ UNCHANGED <<order, orderFlows, deductFlows, settlement, account>>
    BY <1>5 DEF ReverseBegin, DeductValid
  <2> QED BY <2>1, BeginStep
<1>6. ASSUME NEW w \in Workers, NEW c \in Callers, NEW o \in Orders, FreezeBegin(w, c, o)
      PROVE  TypeInv'
  <2> DEFINE pc == IF c \in Tasks THEN "lock" ELSE "write"
  <2>1. /\ Start(w, c, o, pc, order[o].commission, "NONE") /\ pc \in {"lock", "write"}
        /\ UNCHANGED <<order, orderFlows, deductFlows, settlement, account>>
    BY <1>6 DEF FreezeBegin
  <2>2. order[o].commission \in Nat
    BY <1>t DEF RowsTyped, OrderType
  <2> HIDE DEF pc
  <2> QED BY <2>1, <2>2, BeginStep
<1>7. ASSUME NEW w \in Workers, NEW c \in Callers, NEW o \in Orders, UnfreezeBegin(w, c, o)
      PROVE  TypeInv'
  <2> DEFINE pc == IF c \in Tasks THEN "lock" ELSE "write"
             amount == settlement[o][1].amount
  <2>1. /\ Start(w, c, o, pc, amount, "NONE") /\ pc \in {"lock", "write"}
        /\ UNCHANGED <<order, orderFlows, deductFlows, settlement, account>>
    BY <1>7 DEF UnfreezeBegin
  <2>2. amount \in Nat
    <3>1. settlement[o] \in Seq(RecordType) /\ Len(settlement[o]) = 1
      BY <1>7, <1>t DEF UnfreezeBegin, RowsTyped
    <3>2. settlement[o][1] \in RecordType
      BY <3>1
    <3> QED BY <3>2 DEF RecordType
  <2> HIDE DEF pc, amount
  <2> QED BY <2>1, <2>2, BeginStep
<1>8. ASSUME NEW w \in Workers, NEW c \in Callers, NEW o \in Orders, PaidBegin(w, c, o)
      PROVE  TypeInv'
  <2>1. /\ Start(w, c, o, "write", 0, "NONE")
        /\ UNCHANGED <<order, orderFlows, deductFlows, settlement, account>>
    BY <1>8 DEF PaidBegin
  <2> QED BY <2>1, BeginStep
<1>9. ASSUME NEW w \in Workers, SettleCalibrate(w) PROVE TypeInv'
  <2> DEFINE o == job[w].order
             n == job[w].amount
  <2>1. job[w].pc = "calibrate" /\ Goto(w, "write")
        /\ order' = [order EXCEPT ![o] = [order[o] EXCEPT !.commission = n]]
        /\ UNCHANGED <<orderFlows, deductFlows, settlement, account>>
    BY <1>9 DEF SettleCalibrate
  <2>2. o \in Orders /\ n \in Nat
    BY <1>t, <2>1, JobAtWrite
  <2> HIDE DEF o, n
  <2>3. [order[o] EXCEPT !.commission = n] \in OrderType
    <3>1. order[o] \in OrderType
      BY <1>t, <2>2 DEF RowsTyped
    <3> QED BY <2>2, <3>1 DEF OrderType
  <2>4. RowsTyped'
    BY <1>t, <2>1, <2>2, <2>3 DEF RowsTyped
  <2>5. JobsTyped'
    BY <1>t, <2>1, GotoTyped
  <2>6. LoadFindsFlow'
    BY <2>1, LoadKept
  <2> QED BY <2>4, <2>5, <2>6 DEF TypeInv
<1>10. ASSUME NEW w \in Workers, SettleWrite(w) PROVE TypeInv'
  BY <1>t, <1>10, SettleRows, WriteStep DEF SettleWrite
<1>11. ASSUME NEW w \in Workers, ReverseLoad(w) PROVE TypeInv'
  <2> DEFINE o == job[w].order
             a == account[Owner[o]]
             j == [job[w] EXCEPT !.pc = "write", !.amount = orderFlows[o][1].amount,
                                 !.seen = orderFlows[o][1].status,
                                 !.read = [available |-> a.available, total |-> a.total]]
  <2>1. job[w].pc = "load" /\ o \in Orders /\ Owner[o] \in Users /\ job[w] \in GoodJob
    BY <1>11, <1>t, JobAtWrite DEF ReverseLoad, JobsTyped
  <2>2. UNCHANGED <<order, orderFlows, deductFlows, settlement, account>>
    BY <1>11 DEF ReverseLoad
  <2>3. RowsTyped'
    BY <1>t, <2>2, RowsUntouched
  <2>4. CASE Finish(w)
    <3>1. FlowsKept
      BY <2>2 DEF FlowsKept
    <3> QED BY <2>3, <2>4, <3>1, WriteStep
  <2>5. CASE job' = [job EXCEPT ![w] = j]
    <3>1. orderFlows[o][1] \in FlowType
      BY <1>t, <2>1, FirstFlow DEF LoadFindsFlow
    <3>2. orderFlows[o][1].amount \in Nat
          /\ orderFlows[o][1].status \in {"NONE", "PENDING", "SUCCESS", "FAILED"}
      BY <3>1 DEF FlowType
    <3>3. [available |-> a.available, total |-> a.total] \in [available : Nat, total : Int]
      <4>1. a \in AccountType
        BY <1>t, <2>1 DEF RowsTyped
      <4> HIDE DEF a
      <4> QED BY <4>1 DEF AccountType
    <3>4. j \in GoodJob /\ j.pc = "write"
      BY <2>1, <3>2, <3>3 DEF GoodJob, JobType
    <3> HIDE DEF j
    <3>5. JobsTyped'
      BY <1>t, <2>5, <3>4 DEF JobsTyped
    <3>6. LoadFindsFlow'
      BY <1>t, <2>2, <2>5, <3>4 DEF JobsTyped, LoadFindsFlow
    <3> QED BY <2>3, <3>5, <3>6 DEF TypeInv
  <2>6. Finish(w) \/ job' = [job EXCEPT ![w] = j]
    BY <1>11, <1>t DEF ReverseLoad, JobsTyped
  <2> QED BY <2>4, <2>5, <2>6
<1>12. ASSUME NEW w \in Workers, NEW op, DeductWrite(w, op) PROVE TypeInv'
  BY <1>t, <1>12, DeductRows, WriteStep DEF DeductWrite
<1>13. ASSUME NEW w \in Workers, OpLock(w) PROVE TypeInv'
  <2>1. /\ job[w].pc = "lock" /\ (Finish(w) \/ Goto(w, "write"))
        /\ UNCHANGED <<order, orderFlows, deductFlows, settlement, account>>
    BY <1>13 DEF OpLock
  <2>2. RowsTyped'
    BY <1>t, <2>1, RowsUntouched
  <2>3. JobsTyped'
    BY <1>t, <2>1, FinishTyped, GotoTyped
  <2>4. LoadFindsFlow'
    BY <2>1, LoadKept
  <2> QED BY <2>2, <2>3, <2>4 DEF TypeInv
<1>14. ASSUME NEW w \in Workers, FreezeWrite(w) PROVE TypeInv'
  BY <1>t, <1>14, FreezeRows, WriteStep DEF FreezeWrite
<1>15. ASSUME NEW w \in Workers, UnfreezeWrite(w) PROVE TypeInv'
  BY <1>t, <1>15, UnfreezeRows, WriteStep DEF UnfreezeWrite
<1>16. ASSUME NEW w \in Workers, PaidWrite(w) PROVE TypeInv'
  BY <1>t, <1>16, PaidRows, WriteStep DEF PaidWrite
<1>17. ASSUME NEW w \in Workers, Crash(w) PROVE TypeInv'
  <2>1. RowsTyped' /\ FlowsKept /\ Finish(w)
    BY <1>t, <1>17, RowsUntouched DEF Crash, FlowsKept
  <2> QED BY <2>1, WriteStep
<1> QED
  BY <1>0, <1>1, <1>2, <1>3, <1>4, <1>5, <1>6, <1>7, <1>8, <1>9, <1>10, <1>11,
     <1>12, <1>13, <1>14, <1>15, <1>16, <1>17, StepCases

LEMMA Typed == Spec => []TypeInv
<1>1. Init => TypeInv
  BY InitTyped
<1>2. TypeInv /\ [Next]_vars => TypeInv'
  BY StepTyped
<1> QED BY <1>1, <1>2, PTL DEF Spec

(* Every table keeps its type whatever tasks and endpoints run, crash or   *)
(* race: no balance becomes negative, not even one written from a stale    *)
(* read, and every flow and settlement status is one the code knows.       *)
THEOREM TypeCorrect == Spec => []TypeOK
<1>1. TypeInv => TypeOK
  BY TypeInvTypes
<1> QED BY <1>1, Typed, PTL


-----------------------------------------------------------------------------
(* Which callers perform an operation. *)
LEMMA OpTable ==
    ASSUME NEW c \in Tasks \cup Endpoints
    PROVE  /\ c \in {"settle_b07", "settle_b05_7", "settle_one"} => OpOf[c] = "settle"
           /\ c \in {"refund_b07", "refund_one"}                 => OpOf[c] = "refund"
           /\ c \in {"reverse_b07_1", "reverse_one"}             => OpOf[c] = "reverse"
           /\ c \in {"freeze_b12", "freeze_one"}                 => OpOf[c] = "freeze"
           /\ c \in {"unfreeze_b12", "unfreeze_one"}             => OpOf[c] = "unfreeze"
           /\ c = "mark_paid"                                    => OpOf[c] = "paid"
<1>1. OpOf[c] =
        CASE c \in {"settle_b07", "settle_b05_7", "settle_one"} -> "settle"
          [] c \in {"refund_b07", "refund_one"}                 -> "refund"
          [] c \in {"reverse_b07_1", "reverse_one"}             -> "reverse"
          [] c \in {"freeze_b12", "freeze_one"}                 -> "freeze"
          [] c \in {"unfreeze_b12", "unfreeze_one"}             -> "unfreeze"
          [] c = "mark_paid"                                    -> "paid"
  BY DEF OpOf
<1> QED BY <1>1

LEMMA CallerOf ==
    ASSUME NEW c \in Tasks \cup Endpoints
    PROVE  /\ OpOf[c] = "settle"  => c \in {"settle_b07", "settle_b05_7", "settle_one"}
           /\ OpOf[c] = "refund"  => c \in {"refund_b07", "refund_one"}
           /\ OpOf[c] = "reverse" => c \in {"reverse_b07_1", "reverse_one"}
           /\ OpOf[c] = "freeze"  => c \in {"freeze_b12", "freeze_one"}
  BY OpTable DEF Tasks, Endpoints

-----------------------------------------------------------------------------
(* Balances.  Only the deduction of the admin refund path works on an      *)
(* account it has read before it locked the row.                           *)
LEMMA BalanceMoved ==
    ASSUME RowsTyped, Balanced, NEW u \in Users,
           NEW dA \in Int, NEW dF \in Int, NEW dO \in Int,
           account'[u].available = account[u].available + dA,
           account'[u].frozen = account[u].frozen + dF,
           account'[u].out = account[u].out + dO,
           account'[u].total = account[u].total + dA + dF + dO,
           \A v \in Users : v # u => account'[v] = account[v]
    PROVE  Balanced'
<1> SUFFICES ASSUME NEW v \in Users
             PROVE  account'[v].available + account'[v].frozen + account'[v].out
                        = account'[v].total
  BY DEF Balanced
<1>1. account[v] \in AccountType
      /\ account[v].available + account[v].frozen + account[v].out = account[v].total
  BY DEF Balanced, RowsTyped
<1> QED BY <1>1 DEF AccountType

LEMMA BalanceStep ==
    ASSUME "reverse_b07_1" \notin Callers, "reverse_one" \notin Callers,
           TypeInv, Balanced, [Next]_vars
    PROVE  Balanced'
<1> USE ConstantsAssumption
<1>t. RowsTyped /\ JobsTyped
  BY DEF TypeInv
<1>0. CASE UNCHANGED account
  BY <1>0 DEF Balanced
<1>1. ASSUME NEW u \in Users, Withdraw(u) PROVE Balanced'
  <2>1. PICK n \in Withdrawals : \/ Promised!WithdrawHold(u, n)
                                 \/ Promised!WithdrawReturn(u, n)
                                 \/ Promised!WithdrawPay(u, n)
    BY <1>1 DEF Withdraw, Promised!Withdraw
  <2>2. account[u] \in AccountType /\ n \in Nat /\ -n \in Int /\ 0 \in Int
    BY <1>t DEF RowsTyped
  <2>3. CASE Promised!WithdrawHold(u, n)
    <3>1. /\ account'[u].available = account[u].available + (-n)
          /\ account'[u].frozen = account[u].frozen + n
          /\ account'[u].out = account[u].out + 0
          /\ account'[u].total = account[u].total + (-n) + n + 0
          /\ \A v \in Users : v # u => account'[v] = account[v]
      BY <1>t, <2>2, <2>3 DEF Promised!WithdrawHold, RowsTyped, AccountType
    <3> QED BY <1>t, <2>2, <3>1, BalanceMoved
  <2>4. CASE Promised!WithdrawReturn(u, n)
    <3>1. /\ account'[u].available = account[u].available + n
          /\ account'[u].frozen = account[u].frozen + (-n)
          /\ account'[u].out = account[u].out + 0
          /\ account'[u].total = account[u].total + n + (-n) + 0
          /\ \A v \in Users : v # u => account'[v] = account[v]
      BY <1>t, <2>2, <2>4 DEF Promised!WithdrawReturn, RowsTyped, AccountType
    <3> QED BY <1>t, <2>2, <3>1, BalanceMoved
  <2>5. CASE Promised!WithdrawPay(u, n)
    <3>1. /\ account'[u].available = account[u].available + 0
          /\ account'[u].frozen = account[u].frozen + (-n)
          /\ account'[u].out = account[u].out + n
          /\ account'[u].total = account[u].total + 0 + (-n) + n
          /\ \A v \in Users : v # u => account'[v] = account[v]
      BY <1>t, <2>2, <2>5 DEF Promised!WithdrawPay, RowsTyped, AccountType
    <3> QED BY <1>t, <2>2, <3>1, BalanceMoved
  <2> QED BY <2>1, <2>3, <2>4, <2>5
<1>2. ASSUME NEW w \in Workers, SettleWrite(w) PROVE Balanced'
  <2> DEFINE n == job[w].amount
             u == Owner[job[w].order]
  <2>1. n \in Nat /\ u \in Users /\ 0 \in Int
    <3>1. job[w].pc = "write"
      BY <1>2 DEF SettleWrite, AtWrite
    <3> QED BY <1>t, <3>1, JobAtWrite
  <2>2. account[u] \in AccountType
    BY <1>t, <2>1 DEF RowsTyped
  <2>3. \/ UNCHANGED account
        \/ account' = [account EXCEPT ![u].available = @ + n, ![u].total = @ + n]
    BY <1>2 DEF SettleWrite
  <2> HIDE DEF n, u
  <2>4. CASE account' = [account EXCEPT ![u].available = @ + n, ![u].total = @ + n]
    <3>1. /\ account'[u].available = account[u].available + n
          /\ account'[u].frozen = account[u].frozen + 0
          /\ account'[u].out = account[u].out + 0
          /\ account'[u].total = account[u].total + n + 0 + 0
          /\ \A v \in Users : v # u => account'[v] = account[v]
      BY <1>t, <2>1, <2>2, <2>4 DEF RowsTyped, AccountType
    <3> QED BY <1>t, <2>1, <3>1, BalanceMoved
  <2> QED BY <1>0, <2>3, <2>4
<1>3. ASSUME NEW w \in Workers, DeductWrite(w, "refund") PROVE Balanced'
  <2> DEFINE n == job[w].amount
             u == Owner[job[w].order]
  <2>1. n \in Nat /\ u \in Users /\ 0 \in Int /\ -n \in Int
    <3>1. job[w].pc = "write"
      BY <1>3 DEF DeductWrite, AtWrite
    <3> QED BY <1>t, <3>1, JobAtWrite
  <2>2. account[u] \in AccountType
    BY <1>t, <2>1 DEF RowsTyped
  <2>3. \/ UNCHANGED account
        \/ account' = [account EXCEPT ![u].available = account[u].available - n,
                                      ![u].total = account[u].total - n]
    BY <1>3 DEF DeductWrite
  <2> HIDE DEF n, u
  <2>4. CASE account' = [account EXCEPT ![u].available = account[u].available - n,
                                        ![u].total = account[u].total - n]
    <3>1. /\ account'[u].available = account[u].available + (-n)
          /\ account'[u].frozen = account[u].frozen + 0
          /\ account'[u].out = account[u].out + 0
          /\ account'[u].total = account[u].total + (-n) + 0 + 0
          /\ \A v \in Users : v # u => account'[v] = account[v]
      BY <1>t, <2>1, <2>2, <2>4 DEF RowsTyped, AccountType
    <3> QED BY <1>t, <2>1, <3>1, BalanceMoved
  <2> QED BY <1>0, <2>3, <2>4
<1>4. ASSUME NEW w \in Workers, DeductWrite(w, "reverse") PROVE FALSE
  <2>1. job[w].caller \in Callers /\ OpOf[job[w].caller] = "reverse"
    <3>1. job[w].pc = "write" /\ OpOf[job[w].caller] = "reverse"
      BY <1>4 DEF DeductWrite, AtWrite
    <3> QED BY <1>t, <3>1, JobAtWrite
  <2>2. job[w].caller \in {"reverse_b07_1", "reverse_one"}
    BY <2>1, CallerOf
  <2> QED BY <2>1, <2>2
<1>5. ASSUME NEW w \in Workers, FreezeWrite(w) PROVE Balanced'
  <2> DEFINE n == job[w].amount
             u == Owner[job[w].order]
  <2>1. n \in Nat /\ u \in Users /\ 0 \in Int
    <3>1. job[w].pc = "write"
      BY <1>5 DEF FreezeWrite, AtWrite
    <3> QED BY <1>t, <3>1, JobAtWrite
  <2>2. account[u] \in AccountType
    BY <1>t, <2>1 DEF RowsTyped
  <2>3. \/ UNCHANGED account
        \/ account' = [account EXCEPT ![u].frozen = @ + n, ![u].total = @ + n]
    BY <1>5 DEF FreezeWrite
  <2> HIDE DEF n, u
  <2>4. CASE account' = [account EXCEPT ![u].frozen = @ + n, ![u].total = @ + n]
    <3>1. /\ account'[u].available = account[u].available + 0
          /\ account'[u].frozen = account[u].frozen + n
          /\ account'[u].out = account[u].out + 0
          /\ account'[u].total = account[u].total + 0 + n + 0
          /\ \A v \in Users : v # u => account'[v] = account[v]
      BY <1>t, <2>1, <2>2, <2>4 DEF RowsTyped, AccountType
    <3> QED BY <1>t, <2>1, <3>1, BalanceMoved
  <2> QED BY <1>0, <2>3, <2>4
<1>6. ASSUME NEW w \in Workers, UnfreezeWrite(w) PROVE Balanced'
  <2> DEFINE n == job[w].amount
             u == Owner[job[w].order]
  <2>1. n \in Nat /\ u \in Users /\ 0 \in Int /\ -n \in Int
    <3>1. job[w].pc = "write"
      BY <1>6 DEF UnfreezeWrite, AtWrite
    <3> QED BY <1>t, <3>1, JobAtWrite
  <2>2. account[u] \in AccountType
    BY <1>t, <2>1 DEF RowsTyped
  <2>3. \/ UNCHANGED account
        \/ account' = [account EXCEPT ![u].frozen = @ - n, ![u].available = @ + n]
    BY <1>6 DEF UnfreezeWrite
  <2> HIDE DEF n, u
  <2>4. CASE account' = [account EXCEPT ![u].frozen = @ - n, ![u].available = @ + n]
    <3>1. /\ account'[u].available = account[u].available + n
          /\ account'[u].frozen = account[u].frozen + (-n)
          /\ account'[u].out = account[u].out + 0
          /\ account'[u].total = account[u].total + n + (-n) + 0
          /\ \A v \in Users : v # u => account'[v] = account[v]
      BY <1>t, <2>1, <2>2, <2>4 DEF RowsTyped, AccountType
    <3> QED BY <1>t, <2>1, <3>1, BalanceMoved
  <2> QED BY <1>0, <2>3, <2>4
<1>7. CASE UNCHANGED vars
  BY <1>7, <1>0 DEF vars
<1>8. ASSUME NEW o \in Orders, NEW s \in OrderStatuses, OrderSync(o, s) PROVE Balanced'
  BY <1>0, <1>8 DEF OrderSync
<1>9. ASSUME NEW w \in Workers, NEW c \in Callers, NEW o \in Orders,
             \/ SettleBegin(w, c, o) \/ RefundBegin(w, c, o) \/ ReverseBegin(w, c, o)
             \/ FreezeBegin(w, c, o) \/ UnfreezeBegin(w, c, o) \/ PaidBegin(w, c, o)
      PROVE  Balanced'
  <2>1. UNCHANGED account
    BY <1>9 DEF SettleBegin, RefundBegin, ReverseBegin, DeductValid, FreezeBegin, UnfreezeBegin, PaidBegin
  <2> QED BY <1>0, <2>1
<1>10. ASSUME NEW w \in Workers,
              \/ SettleCalibrate(w) \/ ReverseLoad(w) \/ OpLock(w) \/ PaidWrite(w) \/ Crash(w)
       PROVE  Balanced'
  <2>1. UNCHANGED account
    BY <1>10 DEF SettleCalibrate, ReverseLoad, OpLock, PaidWrite, Crash
  <2> QED BY <1>0, <2>1
<1> QED
  BY <1>1, <1>2, <1>3, <1>4, <1>5, <1>6, <1>7, <1>8, <1>9, <1>10, StepCases

(* Settlement, refund and freeze transactions of any number of workers     *)
(* never overwrite one another's movement of an account: they lock the row *)
(* and read it under the lock.  Excluded is only the deduction that reads  *)
(* the account first (B05-6 and B07-1): it overwrites what came in between. *)
THEOREM AccountsBalance ==
    ASSUME "reverse_b07_1" \notin Callers, "reverse_one" \notin Callers
    PROVE  Spec => []Balanced
<1>1. Init => Balanced
  BY DEF Init, Balanced, Promised!ZeroAccount
<1>2. TypeInv /\ Balanced /\ [Next]_vars => Balanced'
  BY BalanceStep
<1> QED BY <1>1, <1>2, Typed, PTL DEF Spec


-----------------------------------------------------------------------------
(* The distributed lock of a scheduled task lets one worker run it at a    *)
(* time.                                                                   *)
SingleRunner(c) ==
    \A v, w \in Workers : job[v].caller = c /\ job[w].caller = c => v = w

LEMMA RunnerStep ==
    ASSUME TypeInv, [Next]_vars, TaskLocksHold, NEW c \in Tasks, SingleRunner(c)
    PROVE  /\ SingleRunner(c)'
           /\ \A v \in Workers : job'[v].caller = c =>
                 \/ job[v].caller = c /\ job'[v].order = job[v].order
                 \/ \E o \in Orders : Begin(v, c, o) /\ job'[v].order = o
<1> DEFINE Kept(v) == job[v].caller = c /\ job'[v].order = job[v].order
           Begun(v) == \E o \in Orders : Begin(v, c, o) /\ job'[v].order = o
           Goal == SingleRunner(c)' /\ \A v \in Workers :
                       job'[v].caller = c => Kept(v) \/ Begun(v)
<1> USE ConstantsAssumption
<1>t. job \in [Workers -> JobType] /\ Idle.caller = None /\ c # None
  BY DEF TypeInv, JobsTyped, GoodJob, Idle
<1>1. CASE \A v \in Workers :
              job'[v].caller = c => job[v].caller = c /\ job'[v].order = job[v].order
  BY <1>1 DEF SingleRunner
<1>2. CASE UNCHANGED job
  BY <1>1, <1>2
<1>3. ASSUME NEW w \in Workers, Finish(w) PROVE Goal
  <2>1. \A v \in Workers : job'[v].caller = c => job'[v] = job[v]
    BY <1>t, <1>3 DEF Finish
  <2> QED BY <1>1, <2>1
<1>4. ASSUME NEW w \in Workers, NEW pc, Goto(w, pc) PROVE Goal
  <2>1. \A v \in Workers : job'[v].caller = job[v].caller /\ job'[v].order = job[v].order
    BY <1>t, <1>4 DEF Goto, JobType
  <2> QED BY <1>1, <2>1
<1>5. ASSUME NEW w \in Workers, NEW d \in Callers, NEW o \in Orders, Begin(w, d, o)
      PROVE  Goal
  <2>1. \E pc, n, seen : Start(w, d, o, pc, n, seen)
    BY <1>5 DEF Begin, SettleBegin, RefundBegin, ReverseBegin, DeductValid, FreezeBegin, UnfreezeBegin,
                PaidBegin
  <2>2. job'[w].caller = d /\ job'[w].order = o
        /\ \A v \in Workers : v # w => job'[v] = job[v]
    BY <1>t, <2>1 DEF Start
  <2>3. d = c => \A v \in Workers : job[v].caller # c
    BY <1>5, TaskLocksHold DEF Begin, SettleBegin, RefundBegin, ReverseBegin, DeductValid, FreezeBegin,
                               UnfreezeBegin, PaidBegin, CanStart
  <2>4. CASE d = c
    <3>1. SingleRunner(c)'
      BY <2>2, <2>3, <2>4 DEF SingleRunner
    <3>2. Begun(w)
      BY <1>5, <2>2, <2>4
    <3> QED BY <2>2, <2>3, <2>4, <3>1, <3>2
  <2>5. CASE d # c
    BY <1>1, <2>2, <2>5
  <2> QED BY <2>4, <2>5
<1>6. ASSUME NEW w \in Workers, ReverseLoad(w) PROVE Goal
  <2> DEFINE o == job[w].order
             a == account[Owner[o]]
             j == [job[w] EXCEPT !.pc = "write", !.amount = orderFlows[o][1].amount,
                                 !.seen = orderFlows[o][1].status,
                                 !.read = [available |-> a.available, total |-> a.total]]
  <2>0. Finish(w) \/ job' = [job EXCEPT ![w] = j]
    BY <1>t, <1>6 DEF ReverseLoad
  <2>2. job[w] \in JobType
    BY <1>t
  <2>3. j.caller = job[w].caller /\ j.order = job[w].order
    BY <2>2 DEF JobType
  <2> HIDE DEF j
  <2>1. Finish(w) \/ \A v \in Workers : job'[v].caller = job[v].caller
                                        /\ job'[v].order = job[v].order
    BY <1>t, <2>0, <2>3
  <2> QED BY <1>1, <1>3, <2>1
<1>7. ASSUME NEW w \in Workers,
             \/ SettleWrite(w) \/ DeductWrite(w, "refund") \/ DeductWrite(w, "reverse")
             \/ FreezeWrite(w) \/ UnfreezeWrite(w) \/ PaidWrite(w) \/ Crash(w)
      PROVE  Goal
  <2>1. Finish(w)
    BY <1>7 DEF SettleWrite, DeductWrite, FreezeWrite, UnfreezeWrite, PaidWrite, Crash
  <2> QED BY <1>3, <2>1
<1>8. ASSUME NEW w \in Workers, SettleCalibrate(w) \/ OpLock(w) PROVE Goal
  <2>1. Finish(w) \/ Goto(w, "write")
    BY <1>8 DEF SettleCalibrate, OpLock
  <2> QED BY <1>3, <1>4, <2>1
<1>9. Goal
  <2> HIDE DEF Goal
  <2>1. CASE UNCHANGED vars
    BY <2>1, <1>2 DEF vars, Goal
  <2>2. ASSUME NEW o \in Orders, NEW s \in OrderStatuses, OrderSync(o, s) PROVE Goal
    BY <2>2, <1>2 DEF OrderSync, Goal
  <2>3. ASSUME NEW u \in Users, Withdraw(u) PROVE Goal
    BY <2>3, <1>2 DEF Withdraw, Goal
  <2> QED BY <1>5, <1>6, <1>7, <1>8, <2>1, <2>2, <2>3 DEF Next, HandlerStep
<1> QED BY <1>9

LEMMA DeductsChange ==
    ASSUME [Next]_vars
    PROVE  \/ UNCHANGED deductFlows
           \/ \E w \in Workers, op \in {"refund", "reverse"} : DeductWrite(w, op)
<1>1. CASE UNCHANGED vars
  BY <1>1 DEF vars
<1>2. ASSUME NEW w \in Workers, NEW c \in Callers, NEW o \in Orders,
             \/ SettleBegin(w, c, o) \/ RefundBegin(w, c, o) \/ ReverseBegin(w, c, o)
             \/ FreezeBegin(w, c, o) \/ UnfreezeBegin(w, c, o) \/ PaidBegin(w, c, o)
      PROVE  UNCHANGED deductFlows
  BY <1>2 DEF SettleBegin, RefundBegin, ReverseBegin, DeductValid, FreezeBegin, UnfreezeBegin, PaidBegin
<1>3. ASSUME NEW w \in Workers,
             \/ SettleCalibrate(w) \/ SettleWrite(w) \/ ReverseLoad(w) \/ OpLock(w)
             \/ FreezeWrite(w) \/ UnfreezeWrite(w) \/ PaidWrite(w) \/ Crash(w)
      PROVE  UNCHANGED deductFlows
  BY <1>3 DEF SettleCalibrate, SettleWrite, ReverseLoad, OpLock, FreezeWrite,
              UnfreezeWrite, PaidWrite, Crash
<1>4. ASSUME NEW o \in Orders, NEW s \in OrderStatuses, OrderSync(o, s)
      PROVE  UNCHANGED deductFlows
  BY <1>4 DEF OrderSync
<1>5. ASSUME NEW u \in Users, Withdraw(u) PROVE UNCHANGED deductFlows
  BY <1>5 DEF Withdraw
<1> QED BY <1>1, <1>2, <1>3, <1>4, <1>5, StepCases

(* ORDER flows are only appended by settlements and freezes; marking one    *)
(* changes no length.                                                      *)
LengthsKept == \A o \in Orders : Len(orderFlows'[o]) = Len(orderFlows[o])

LEMMA MarkKeepsLength ==
    ASSUME RowsTyped, NEW o \in Orders, NEW k, NEW r,
           orderFlows' = [orderFlows EXCEPT ![o] = [orderFlows[o] EXCEPT ![k] = r]]
    PROVE  LengthsKept
<1>1. orderFlows[o] \in Seq(FlowType)
  BY DEF RowsTyped
<1>2. DOMAIN [orderFlows[o] EXCEPT ![k] = r] = 1 .. Len(orderFlows[o])
      /\ Len(orderFlows[o]) \in Nat
  BY <1>1
<1>3. Len([orderFlows[o] EXCEPT ![k] = r]) = Len(orderFlows[o])
  BY <1>2
<1> QED BY <1>3 DEF RowsTyped, LengthsKept

LEMMA FlowsChange ==
    ASSUME TypeInv, [Next]_vars
    PROVE  LengthsKept \/ \E w \in Workers : SettleWrite(w) \/ FreezeWrite(w)
<1>t. RowsTyped /\ JobsTyped
  BY DEF TypeInv
<1>0. CASE UNCHANGED orderFlows
  BY <1>0 DEF LengthsKept
<1>1. CASE UNCHANGED vars
  BY <1>0, <1>1 DEF vars
<1>2. ASSUME NEW w \in Workers, NEW c \in Callers, NEW o \in Orders,
             \/ SettleBegin(w, c, o) \/ RefundBegin(w, c, o) \/ ReverseBegin(w, c, o)
             \/ FreezeBegin(w, c, o) \/ UnfreezeBegin(w, c, o) \/ PaidBegin(w, c, o)
      PROVE  UNCHANGED orderFlows
  BY <1>2 DEF SettleBegin, RefundBegin, ReverseBegin, DeductValid, FreezeBegin, UnfreezeBegin, PaidBegin
<1>3. ASSUME NEW w \in Workers,
             \/ SettleCalibrate(w) \/ ReverseLoad(w) \/ OpLock(w) \/ PaidWrite(w) \/ Crash(w)
      PROVE  UNCHANGED orderFlows
  BY <1>3 DEF SettleCalibrate, ReverseLoad, OpLock, PaidWrite, Crash
<1>4. ASSUME NEW o \in Orders, NEW s \in OrderStatuses, OrderSync(o, s)
      PROVE  UNCHANGED orderFlows
  BY <1>4 DEF OrderSync
<1>5. ASSUME NEW u \in Users, Withdraw(u) PROVE UNCHANGED orderFlows
  BY <1>5 DEF Withdraw
<1>6. ASSUME NEW w \in Workers, NEW op, DeductWrite(w, op) PROVE LengthsKept
  <2> DEFINE o == job[w].order
             r == [orderFlows[o][1] EXCEPT !.status = "FAILED"]
  <2>1. o \in Orders
    <3>1. job[w].pc = "write"
      BY <1>6 DEF DeductWrite, AtWrite
    <3> QED BY <1>t, <3>1, JobAtWrite
  <2>2. \/ UNCHANGED orderFlows
        \/ orderFlows' = [orderFlows EXCEPT ![o] = [orderFlows[o] EXCEPT ![1] = r]]
    BY <1>6, <1>t, <2>1 DEF DeductWrite, RowsTyped
  <2>3. RowsTyped
    BY <1>t
  <2> HIDE DEF o, r
  <2>4. CASE UNCHANGED orderFlows
    BY <2>4 DEF LengthsKept
  <2>5. CASE ~UNCHANGED orderFlows
    BY <2>1, <2>2, <2>3, <2>5, MarkKeepsLength
  <2> QED BY <2>4, <2>5
<1>7. ASSUME NEW w \in Workers, UnfreezeWrite(w) PROVE LengthsKept
  <2> DEFINE o == job[w].order
             k == settlement[o][1].flow
             r == [orderFlows[o][k] EXCEPT !.status = "SUCCESS"]
  <2>1. o \in Orders
    <3>1. job[w].pc = "write"
      BY <1>7 DEF UnfreezeWrite, AtWrite
    <3> QED BY <1>t, <3>1, JobAtWrite
  <2>2. \/ UNCHANGED orderFlows
        \/ orderFlows' = [orderFlows EXCEPT ![o] = [orderFlows[o] EXCEPT ![k] = r]]
    BY <1>7, <1>t, <2>1 DEF UnfreezeWrite, RowsTyped
  <2>3. RowsTyped
    BY <1>t
  <2> HIDE DEF o, k, r
  <2>4. CASE UNCHANGED orderFlows
    BY <2>4 DEF LengthsKept
  <2>5. CASE ~UNCHANGED orderFlows
    BY <2>1, <2>2, <2>3, <2>5, MarkKeepsLength
  <2> QED BY <2>4, <2>5
<1> QED
  BY <1>0, <1>1, <1>2, <1>3, <1>4, <1>5, <1>6, <1>7, StepCases

-----------------------------------------------------------------------------
(* The promise.  What an order's stage says its flows sum up to, and that  *)
(* every step of CommissionPromise keeps the accounts equal to it.         *)
StageType == [at : {"none", "promised", "earned", "clawed", "void"}, amount : Nat]

Got     == [o \in Orders |-> IF Stage[o].at \in {"earned", "clawed"} THEN Stage[o].amount ELSE 0]
Back    == [o \in Orders |-> IF Stage[o].at = "clawed" THEN Stage[o].amount ELSE 0]
Waiting == [o \in Orders |-> IF Stage[o].at = "promised" THEN Stage[o].amount ELSE 0]

StagesMatch ==
    \A u \in Users :
        /\ account[u].available + account[u].held + account[u].out
             = SumFunctionOnSet(Got, OrdersOf(u)) - SumFunctionOnSet(Back, OrdersOf(u))
        /\ account[u].frozen = SumFunctionOnSet(Waiting, OrdersOf(u)) + account[u].held

LEMMA OrdersFinite == \A u : IsFiniteSet(OrdersOf(u)) /\ OrdersOf(u) \subseteq Orders
  BY ConstantsAssumption, FS_Subset DEF OrdersOf

(* One value of a function on the orders changes by d: so does the sum of  *)
(* the owner, and no other.                                                *)
Grows(f, g, o, d) ==
    /\ \A p \in Orders : f[p] \in Int
    /\ \A p \in Orders : p # o => g[p] = f[p]
    /\ g[o] = f[o] + d

LEMMA OwnerSum ==
    ASSUME NEW f, NEW g, NEW o \in Orders, NEW d \in Int, NEW u, Grows(f, g, o, d)
    PROVE  /\ SumFunctionOnSet(f, OrdersOf(u)) \in Int
           /\ SumFunctionOnSet(g, OrdersOf(u))
                = SumFunctionOnSet(f, OrdersOf(u)) + (IF u = Owner[o] THEN d ELSE 0)
<1> DEFINE S == OrdersOf(u)
<1>1. IsFiniteSet(S) /\ S \subseteq Orders /\ (o \in S <=> u = Owner[o])
  BY OrdersFinite DEF OrdersOf
<1>g. /\ \A p \in Orders : f[p] \in Int
      /\ \A p \in Orders : p # o => g[p] = f[p]
      /\ g[o] = f[o] + d
  BY DEF Grows
<1>2. \A p \in Orders : g[p] \in Int
  BY <1>g
<1> HIDE DEF S
<1>3. SumFunctionOnSet(f, S) \in Int
  BY <1>1, <1>g, SumType
<1>4. SumFunctionOnSet(g, S) = SumFunctionOnSet(f, S) - Share(f, S, o) + Share(g, S, o)
  BY <1>1, <1>2, <1>g, SumChange
<1>5. f[o] \in Int /\ g[o] \in Int
  BY <1>2, <1>g
<1>6. Share(f, S, o) \in Int /\ Share(g, S, o) = Share(f, S, o) + (IF u = Owner[o] THEN d ELSE 0)
  BY <1>1, <1>5, <1>g DEF Share
<1>7. SumFunctionOnSet(g, S) = SumFunctionOnSet(f, S) + (IF u = Owner[o] THEN d ELSE 0)
  BY <1>3, <1>4, <1>6
<1> QED BY <1>3, <1>7 DEF S

(* Money moves in the account of one user, and an order of his with it. *)
Moved(o, dG, dB, dW) ==
    LET u == Owner[o] IN
    /\ \A p \in Orders : p # o => Stage'[p] = Stage[p]
    /\ Got'[o] = Got[o] + dG /\ Back'[o] = Back[o] + dB /\ Waiting'[o] = Waiting[o] + dW
    /\ account'[u].available = account[u].available + dG - dB
    /\ account'[u].frozen = account[u].frozen + dW
    /\ account'[u].held = account[u].held /\ account'[u].out = account[u].out
    /\ \A v \in Users : v # u => account'[v] = account[v]

LEMMA MatchMoved ==
    ASSUME RowsTyped, StagesMatch, Stage \in [Orders -> StageType], NEW o \in Orders,
           NEW dG \in Int, NEW dB \in Int, NEW dW \in Int, Moved(o, dG, dB, dW)
    PROVE  StagesMatch'
<1> SUFFICES ASSUME NEW u \in Users
             PROVE  /\ account'[u].available + account'[u].held + account'[u].out
                         = SumFunctionOnSet(Got', OrdersOf(u)) - SumFunctionOnSet(Back', OrdersOf(u))
                    /\ account'[u].frozen = SumFunctionOnSet(Waiting', OrdersOf(u)) + account'[u].held
  BY DEF StagesMatch, OrdersOf
<1> DEFINE G == SumFunctionOnSet(Got, OrdersOf(u))
           B == SumFunctionOnSet(Back, OrdersOf(u))
           W == SumFunctionOnSet(Waiting, OrdersOf(u))
           mine(d) == IF u = Owner[o] THEN d ELSE 0
<1>1. \A p \in Orders : Got[p] \in Int /\ Back[p] \in Int /\ Waiting[p] \in Int
  BY DEF StageType, Got, Back, Waiting
<1>2. \A p \in Orders : p # o =>
          Got'[p] = Got[p] /\ Back'[p] = Back[p] /\ Waiting'[p] = Waiting[p]
  BY DEF Got, Back, Waiting, Moved
<1>e. Got'[o] = Got[o] + dG /\ Back'[o] = Back[o] + dB /\ Waiting'[o] = Waiting[o] + dW
  BY DEF Moved
<1>3. G \in Int /\ SumFunctionOnSet(Got', OrdersOf(u)) = G + mine(dG)
  <2>1. Grows(Got, Got', o, dG)
    BY <1>1, <1>2, <1>e DEF Grows
  <2>2. /\ SumFunctionOnSet(Got, OrdersOf(u)) \in Int
        /\ SumFunctionOnSet(Got', OrdersOf(u))
             = SumFunctionOnSet(Got, OrdersOf(u)) + (IF u = Owner[o] THEN dG ELSE 0)
    BY ONLY <2>1, OwnerSum, u \in Users, o \in Orders, dG \in Int
  <2> QED BY <2>2
<1>4. B \in Int /\ SumFunctionOnSet(Back', OrdersOf(u)) = B + mine(dB)
  <2>1. Grows(Back, Back', o, dB)
    BY <1>1, <1>2, <1>e DEF Grows
  <2>2. /\ SumFunctionOnSet(Back, OrdersOf(u)) \in Int
        /\ SumFunctionOnSet(Back', OrdersOf(u))
             = SumFunctionOnSet(Back, OrdersOf(u)) + (IF u = Owner[o] THEN dB ELSE 0)
    BY ONLY <2>1, OwnerSum, u \in Users, o \in Orders, dB \in Int
  <2> QED BY <2>2
<1>5. W \in Int /\ SumFunctionOnSet(Waiting', OrdersOf(u)) = W + mine(dW)
  <2>1. Grows(Waiting, Waiting', o, dW)
    BY <1>1, <1>2, <1>e DEF Grows
  <2>2. /\ SumFunctionOnSet(Waiting, OrdersOf(u)) \in Int
        /\ SumFunctionOnSet(Waiting', OrdersOf(u))
             = SumFunctionOnSet(Waiting, OrdersOf(u)) + (IF u = Owner[o] THEN dW ELSE 0)
    BY <2>1, OwnerSum
  <2> QED BY <2>2
<1>6. /\ account[u].available + account[u].held + account[u].out = G - B
      /\ account[u].frozen = W + account[u].held
  BY DEF StagesMatch
<1>7. /\ account[u].available \in Int /\ account[u].held \in Int
      /\ account[u].out \in Int /\ account[u].frozen \in Int
  BY DEF RowsTyped, AccountType
<1>m. \A d \in Int : mine(d) \in Int /\ (u = Owner[o] => mine(d) = d) /\ (u # Owner[o] => mine(d) = 0)
  OBVIOUS
<1> HIDE DEF G, B, W, mine
<1>8. CASE u = Owner[o]
  <2>1. /\ account'[u].available = account[u].available + dG - dB
        /\ account'[u].frozen = account[u].frozen + dW
        /\ account'[u].held = account[u].held /\ account'[u].out = account[u].out
    BY <1>8 DEF Moved
  <2>2. mine(dG) = dG /\ mine(dB) = dB /\ mine(dW) = dW
    BY <1>8, <1>m
  <2> QED BY <1>3, <1>4, <1>5, <1>6, <1>7, <2>1, <2>2
<1>9. CASE u # Owner[o]
  <2>1. account'[u] = account[u]
    BY <1>9 DEF Moved
  <2>2. mine(dG) = 0 /\ mine(dB) = 0 /\ mine(dW) = 0
    BY <1>9, <1>m
  <2> QED BY <1>3, <1>4, <1>5, <1>6, <1>7, <2>1, <2>2
<1> QED BY <1>8, <1>9

LEMMA MatchStep ==
    ASSUME RowsTyped, StagesMatch, Stage \in [Orders -> StageType],
           [Promised!Next]_(Promised!vars)
    PROVE  StagesMatch'
<1> USE ConstantsAssumption
<1>1. CASE UNCHANGED <<Stage, account>>
  BY <1>1 DEF StagesMatch, Got, Back, Waiting, OrdersOf
<1>2. ASSUME NEW o \in Orders, NEW n \in Commissions, Promised!Promise(o, n)
      PROVE  StagesMatch'
  <2> DEFINE u == Owner[o]
  <2>1. /\ n \in Nat /\ u \in Users /\ account[u] \in AccountType
        /\ Stage[o] = [at |-> "none", amount |-> 0]
        /\ Stage' = [Stage EXCEPT ![o] = [at |-> "promised", amount |-> n]]
        /\ account' = [account EXCEPT ![u].frozen = @ + n, ![u].total = @ + n]
    BY <1>2 DEF Promised!Promise, Promised!Nothing, RowsTyped
  <2>2. /\ Got'[o] = Got[o] + 0 /\ Back'[o] = Back[o] + 0 /\ Waiting'[o] = Waiting[o] + n
        /\ \A p \in Orders : p # o => Stage'[p] = Stage[p]
    BY <2>1 DEF Got, Back, Waiting
  <2>3. /\ account'[u].available = account[u].available + 0 - 0
        /\ account'[u].frozen = account[u].frozen + n
        /\ account'[u].held = account[u].held /\ account'[u].out = account[u].out
        /\ \A v \in Users : v # u => account'[v] = account[v]
    BY <2>1 DEF RowsTyped, AccountType
  <2>4. Moved(o, 0, 0, n)
    BY <2>1, <2>2, <2>3 DEF Moved
  <2>5. n \in Int /\ 0 \in Int
    BY <2>1, <2>2
  <2> HIDE DEF u
  <2> QED BY <2>4, <2>5, MatchMoved, Zenon
<1>3. ASSUME NEW o \in Orders, NEW n \in Commissions, Promised!Earn(o, n)
      PROVE  StagesMatch'
  <2> DEFINE u == Owner[o]
  <2>1. /\ n \in Nat /\ u \in Users /\ account[u] \in AccountType
        /\ Stage[o] = [at |-> "none", amount |-> 0]
        /\ Stage' = [Stage EXCEPT ![o] = [at |-> "earned", amount |-> n]]
        /\ account' = [account EXCEPT ![u].available = @ + n, ![u].total = @ + n]
    BY <1>3 DEF Promised!Earn, Promised!Nothing, RowsTyped
  <2>2. /\ Got'[o] = Got[o] + n /\ Back'[o] = Back[o] + 0 /\ Waiting'[o] = Waiting[o] + 0
        /\ \A p \in Orders : p # o => Stage'[p] = Stage[p]
    BY <2>1 DEF Got, Back, Waiting
  <2>3. /\ account'[u].available = account[u].available + n - 0
        /\ account'[u].frozen = account[u].frozen + 0
        /\ account'[u].held = account[u].held /\ account'[u].out = account[u].out
        /\ \A v \in Users : v # u => account'[v] = account[v]
    BY <2>1 DEF RowsTyped, AccountType
  <2>4. Moved(o, n, 0, 0)
    BY <2>1, <2>2, <2>3 DEF Moved
  <2>5. n \in Int /\ 0 \in Int
    BY <2>1, <2>2
  <2> QED BY <2>4, <2>5, MatchMoved, Zenon
<1>4. ASSUME NEW o \in Orders, Promised!Release(o) PROVE StagesMatch'
  <2> DEFINE u == Owner[o]
             n == Stage[o].amount
  <2>1. /\ Stage[o] \in StageType /\ u \in Users /\ account[u] \in AccountType
        /\ Stage[o].at = "promised" /\ Stage' = [Stage EXCEPT ![o].at = "earned"]
        /\ account' = [account EXCEPT ![u].frozen = @ - n, ![u].available = @ + n]
    BY <1>4 DEF Promised!Release, RowsTyped
  <2>2. /\ n \in Nat /\ -n \in Int
        /\ Got'[o] = Got[o] + n /\ Back'[o] = Back[o] + 0 /\ Waiting'[o] = Waiting[o] + (-n)
        /\ \A p \in Orders : p # o => Stage'[p] = Stage[p]
    BY <2>1 DEF Got, Back, Waiting, StageType
  <2>3. /\ account'[u].available = account[u].available + n - 0
        /\ account'[u].frozen = account[u].frozen + (-n)
        /\ account'[u].held = account[u].held /\ account'[u].out = account[u].out
        /\ \A v \in Users : v # u => account'[v] = account[v]
    <3>1. account[u] \in AccountType /\ account \in [Users -> AccountType] /\ u \in Users
      BY <2>1 DEF RowsTyped
    <3> HIDE DEF n, u
    <3> QED BY <2>1, <2>2, <3>1 DEF AccountType
  <2> HIDE DEF n
  <2>4. Moved(o, n, 0, -n)
    BY <2>1, <2>2, <2>3 DEF Moved
  <2>5. n \in Int /\ 0 \in Int /\ -n \in Int
    BY <2>2
  <2> QED BY <2>4, <2>5, MatchMoved, Zenon
<1>5. ASSUME NEW o \in Orders, Promised!ClawBack(o) PROVE StagesMatch'
  <2> DEFINE u == Owner[o]
             n == Stage[o].amount
  <2>1. /\ Stage[o] \in StageType /\ u \in Users /\ account[u] \in AccountType
        /\ Stage[o].at = "earned" /\ Stage' = [Stage EXCEPT ![o].at = "clawed"]
        /\ account' = [account EXCEPT ![u].available = @ - n, ![u].total = @ - n]
    BY <1>5 DEF Promised!ClawBack, RowsTyped
  <2>2. /\ n \in Nat
        /\ Got'[o] = Got[o] + 0 /\ Back'[o] = Back[o] + n /\ Waiting'[o] = Waiting[o] + 0
        /\ \A p \in Orders : p # o => Stage'[p] = Stage[p]
    BY <2>1 DEF Got, Back, Waiting, StageType
  <2>3. /\ account'[u].available = account[u].available + 0 - n
        /\ account'[u].frozen = account[u].frozen + 0
        /\ account'[u].held = account[u].held /\ account'[u].out = account[u].out
        /\ \A v \in Users : v # u => account'[v] = account[v]
    BY <2>1, <2>2 DEF RowsTyped, AccountType
  <2> HIDE DEF n
  <2>4. Moved(o, 0, n, 0)
    BY <2>1, <2>2, <2>3 DEF Moved
  <2>5. n \in Int /\ 0 \in Int
    BY <2>2
  <2> QED BY <2>4, <2>5, MatchMoved, Zenon
<1>6. ASSUME NEW u \in Users, Promised!Withdraw(u) PROVE StagesMatch'
  <2>1. PICK n \in Withdrawals : \/ Promised!WithdrawHold(u, n)
                                 \/ Promised!WithdrawReturn(u, n)
                                 \/ Promised!WithdrawPay(u, n)
    BY <1>6 DEF Promised!Withdraw
  <2>2. n \in Nat /\ UNCHANGED Stage
    BY <2>1 DEF Promised!WithdrawHold, Promised!WithdrawReturn, Promised!WithdrawPay
  <2>3. ASSUME NEW v \in Users
        PROVE  /\ account'[v].available + account'[v].held + account'[v].out
                     = account[v].available + account[v].held + account[v].out
               /\ account'[v].frozen - account'[v].held = account[v].frozen - account[v].held
               /\ account'[v].frozen \in Int /\ account'[v].held \in Int
    <3>1. account[v] \in AccountType /\ account[u] \in AccountType
      BY DEF RowsTyped
    <3>2. CASE v = u
      <4>1. /\ account[u].available \in Int /\ account[u].held \in Int
            /\ account[u].out \in Int /\ account[u].frozen \in Int
        BY <3>1 DEF AccountType
      <4>2. CASE Promised!WithdrawHold(u, n)
        <5>1. /\ account'[u].available = account[u].available - n
              /\ account'[u].frozen = account[u].frozen + n
              /\ account'[u].held = account[u].held + n /\ account'[u].out = account[u].out
          BY <4>2, <3>1 DEF Promised!WithdrawHold, RowsTyped, AccountType
        <5> QED BY <2>2, <3>2, <4>1, <5>1
      <4>3. CASE Promised!WithdrawReturn(u, n)
        <5>1. /\ account'[u].available = account[u].available + n
              /\ account'[u].frozen = account[u].frozen - n
              /\ account'[u].held = account[u].held - n /\ account'[u].out = account[u].out
          BY <4>3, <3>1 DEF Promised!WithdrawReturn, RowsTyped, AccountType
        <5> QED BY <2>2, <3>2, <4>1, <5>1
      <4>4. CASE Promised!WithdrawPay(u, n)
        <5>1. /\ account'[u].available = account[u].available
              /\ account'[u].out = account[u].out + n
              /\ account'[u].frozen = account[u].frozen - n
              /\ account'[u].held = account[u].held - n
          BY <4>4, <3>1 DEF Promised!WithdrawPay, RowsTyped, AccountType
        <5> QED BY <2>2, <3>2, <4>1, <5>1
      <4> QED BY <2>1, <4>2, <4>3, <4>4
    <3>3. CASE v # u
      <4>1. account'[v] = account[v]
        BY <2>1, <3>3 DEF Promised!WithdrawHold, Promised!WithdrawReturn,
                          Promised!WithdrawPay, RowsTyped
      <4> QED BY <3>1, <4>1 DEF AccountType
    <3> QED BY <3>2, <3>3
  <2>4. Got' = Got /\ Back' = Back /\ Waiting' = Waiting
    BY <2>2 DEF Got, Back, Waiting
  <2>5. ASSUME NEW v \in Users
        PROVE  /\ account'[v].available + account'[v].held + account'[v].out
                     = SumFunctionOnSet(Got, OrdersOf(v)) - SumFunctionOnSet(Back, OrdersOf(v))
               /\ account'[v].frozen = SumFunctionOnSet(Waiting, OrdersOf(v)) + account'[v].held
    <3> DEFINE W == SumFunctionOnSet(Waiting, OrdersOf(v))
    <3>1. W \in Int
      <4>1. \A p \in Orders : Waiting[p] \in Int
        BY DEF Waiting, StageType
      <4> QED BY <4>1, OrdersFinite, SumType
    <3>2. account[v].frozen = W + account[v].held /\ account[v] \in AccountType
      BY DEF StagesMatch, RowsTyped
    <3> HIDE DEF W
    <3>3. account'[v].frozen = W + account'[v].held
      BY <2>3, <3>1, <3>2 DEF AccountType
    <3> QED BY <2>3, <3>3 DEF StagesMatch, W
  <2> QED BY <2>4, <2>5 DEF StagesMatch, OrdersOf
<1> QED BY <1>1, <1>2, <1>3, <1>4, <1>5, <1>6 DEF Promised!Next, Promised!vars
-----------------------------------------------------------------------------
(* The chain: one caller for each operation.  Every order's rows then have *)
(* one of three shapes, and what a worker has read about its order still   *)
(* holds when it writes, because whoever could have changed it holds the   *)
(* same lock or finds the order in another shape.                          *)
Chain == {"settle_b07", "freeze_one", "unfreeze_b12", "mark_paid", "refund_b07"}

OneCallerEach ==
    /\ TaskLocksHold /\ Callers \subseteq Chain
    /\ "settle_b07" \notin Callers \/ "freeze_one" \notin Callers

Fresh(o) == orderFlows[o] = <<>> /\ deductFlows[o] = <<>> /\ settlement[o] = <<>>

Held(o) ==
    /\ Len(orderFlows[o]) = 1 /\ orderFlows[o][1].status = "PENDING"
    /\ deductFlows[o] = <<>>
    /\ Len(settlement[o]) = 1 /\ settlement[o][1].status = "SETTLABLE"
    /\ settlement[o][1].amount = orderFlows[o][1].amount /\ settlement[o][1].flow = 1

Credited(o) ==
    /\ Len(orderFlows[o]) = 1 /\ orderFlows[o][1].status = "SUCCESS"
    /\ \/ deductFlows[o] = <<>>
       \/ Len(deductFlows[o]) = 1 /\ deductFlows[o][1] = orderFlows[o][1].amount
    /\ \/ settlement[o] = <<>> /\ "freeze_one" \notin Callers
       \/ Len(settlement[o]) = 1 /\ settlement[o][1].status # "SETTLABLE"

ShapeOK(o) == Fresh(o) \/ Held(o) \/ Credited(o)

ChainJob(w) ==
    LET j == job[w]
        o == j.order
    IN
    /\ j.caller # None => o \in Orders
    /\ j.caller \in {"settle_b07", "freeze_one"} => Fresh(o) /\ j.amount \in Commissions
    /\ j.caller = "unfreeze_b12" => Held(o) /\ j.amount = orderFlows[o][1].amount
    /\ j.caller = "refund_b07" =>
          /\ Credited(o) /\ deductFlows[o] = <<>>
          /\ j.amount = orderFlows[o][1].amount /\ j.seen = "SUCCESS"
    /\ j.caller = "mark_paid" => Credited(o) /\ settlement[o] # <<>>
    /\ j.pc # "load" /\ (j.caller = "freeze_one" => j.pc = "write")
    /\ j.pc = "calibrate" => j.caller = "settle_b07"

FreezeAlone ==
    \A v, w \in Workers :
        job[v].caller = "freeze_one" /\ job[w].caller = "freeze_one"
            /\ job[v].order = job[w].order => v = w

OneRunnerEach ==
    SingleRunner("settle_b07") /\ SingleRunner("unfreeze_b12") /\ SingleRunner("refund_b07")

ChainRows ==
    /\ \A o \in Orders : ShapeOK(o) /\ order[o].commission \in Commissions
    /\ \A w \in Workers : ChainJob(w)
    /\ FreezeAlone

ChainInv == TypeInv /\ ChainRows /\ OneRunnerEach

LEMMA ChainOps ==
    ASSUME OneCallerEach, NEW c \in Callers
    PROVE  /\ c \in Chain /\ c # None /\ OpOf[c] # "reverse"
           /\ OpOf[c] = "settle"   <=> c = "settle_b07"
           /\ OpOf[c] = "freeze"   <=> c = "freeze_one"
           /\ OpOf[c] = "unfreeze" <=> c = "unfreeze_b12"
           /\ OpOf[c] = "refund"   <=> c = "refund_b07"
           /\ OpOf[c] = "paid"     <=> c = "mark_paid"
<1>1. c \in Chain /\ c \in Tasks \cup Endpoints /\ c # None
  BY ConstantsAssumption DEF OneCallerEach
<1> QED BY <1>1, OpTable DEF Chain

(* Rows of one element. *)
LEMMA OneRow ==
    ASSUME NEW R, NEW s \in Seq(R), Len(s) = 1
    PROVE  s # <<>> /\ s[1] \in R /\ DOMAIN s = {1}
<1>1. DOMAIN s = 1 .. 1
  OBVIOUS
<1> QED BY <1>1

LEMMA RowAdded ==
    ASSUME NEW R, NEW r \in R
    PROVE  Len(Append(<<>>, r)) = 1 /\ Append(<<>>, r)[1] = r /\ Append(<<>>, r) # <<>>
<1>1. <<>> \in Seq(R)
  OBVIOUS
<1> QED BY <1>1

LEMMA RowMarked ==
    ASSUME NEW R, NEW s \in Seq(R), Len(s) = 1, NEW r
    PROVE  Len([s EXCEPT ![1] = r]) = 1 /\ [s EXCEPT ![1] = r][1] = r
<1>1. DOMAIN s = 1 .. 1
  OBVIOUS
<1>2. DOMAIN [s EXCEPT ![1] = r] = 1 .. 1 /\ [s EXCEPT ![1] = r][1] = r
  BY <1>1
<1>3. Len([s EXCEPT ![1] = r]) = 1
  BY <1>2
<1> QED BY <1>2, <1>3

SameRows(o) ==
    orderFlows'[o] = orderFlows[o] /\ deductFlows'[o] = deductFlows[o]
        /\ settlement'[o] = settlement[o]

LEMMA SameShape ==
    ASSUME NEW o, SameRows(o)
    PROVE  /\ Fresh(o)' <=> Fresh(o)
           /\ Held(o)' <=> Held(o)
           /\ Credited(o)' <=> Credited(o)
           /\ ShapeOK(o) => ShapeOK(o)'
  BY DEF SameRows, Fresh, Held, Credited, ShapeOK

LEMMA SameJob ==
    ASSUME NEW v, job'[v] = job[v], ChainJob(v), job[v].caller # None => SameRows(job[v].order)
    PROVE  ChainJob(v)'
<1> DEFINE o == job[v].order
<1>1. CASE job[v].caller = None
  <2>1. None \notin Chain
    BY ConstantsAssumption DEF Chain, Tasks, Endpoints
  <2> QED BY <1>1, <2>1 DEF ChainJob, Chain
<1>2. CASE job[v].caller # None
  <2>1. /\ orderFlows'[o] = orderFlows[o] /\ deductFlows'[o] = deductFlows[o]
        /\ settlement'[o] = settlement[o]
        /\ Fresh(o)' <=> Fresh(o)
        /\ Held(o)' <=> Held(o)
        /\ Credited(o)' <=> Credited(o)
    BY <1>2, SameShape DEF SameRows
  <2> QED BY <2>1 DEF ChainJob
<1> QED BY <1>1, <1>2

LEMMA IdleChainJob ==
    ASSUME NEW w, job'[w] = Idle
    PROVE  ChainJob(w)'
<1>1. None \notin Chain
  BY ConstantsAssumption DEF Chain, Tasks, Endpoints
<1> QED BY <1>1 DEF ChainJob, Idle, Chain

LEMMA FinishJobs ==
    ASSUME TypeInv, NEW w \in Workers, Finish(w)
    PROVE  job'[w] = Idle /\ \A v \in Workers : v # w => job'[v] = job[v]
  BY DEF Finish, TypeInv, JobsTyped

LEMMA FinishAlone ==
    ASSUME TypeInv, FreezeAlone, NEW w \in Workers, Finish(w)
    PROVE  FreezeAlone'
<1>1. Idle.caller # "freeze_one"
  BY ConstantsAssumption DEF Idle, Endpoints
<1> QED BY <1>1, FinishJobs DEF FreezeAlone

(* A transaction on the rows of one order. *)
LEMMA OneOrderWritten ==
    ASSUME ChainInv, NEW w \in Workers, NEW o \in Orders, Finish(w), UNCHANGED order,
           \A p \in Orders : p # o => SameRows(p), ShapeOK(o)',
           \A v \in Workers : v # w /\ job[v].caller # None /\ job[v].order = o => ChainJob(v)'
    PROVE  ChainRows'
<1>1. job'[w] = Idle /\ \A v \in Workers : v # w => job'[v] = job[v]
  BY FinishJobs DEF ChainInv
<1>2. ASSUME NEW p \in Orders PROVE ShapeOK(p)' /\ order'[p].commission \in Commissions
  BY SameShape DEF ChainInv, ChainRows
<1>3. ASSUME NEW v \in Workers PROVE ChainJob(v)'
  <2>1. CASE v = w
    BY <1>1, <2>1, IdleChainJob
  <2>2. CASE v # w /\ job[v].caller # None /\ job[v].order = o
    BY <2>2
  <2>3. CASE v # w /\ (job[v].caller = None \/ job[v].order # o)
    <3>1. ChainJob(v) /\ job'[v] = job[v]
      BY <1>1, <2>3 DEF ChainInv, ChainRows
    <3>2. job[v].caller # None => SameRows(job[v].order)
      BY <2>3, <3>1 DEF ChainJob
    <3> QED BY <3>1, <3>2, SameJob
  <2> QED BY <2>1, <2>2, <2>3
<1>4. FreezeAlone'
  BY FinishAlone DEF ChainInv, ChainRows
<1> QED BY <1>2, <1>3, <1>4 DEF ChainRows

(* A step that writes no row of the order. *)
LEMMA NoRowWritten ==
    ASSUME ChainInv, UNCHANGED <<orderFlows, deductFlows, settlement>>,
           \A o \in Orders : order'[o].commission \in Commissions,
           \A v \in Workers : job'[v] = job[v] \/ ChainJob(v)', FreezeAlone'
    PROVE  ChainRows'
<1>1. \A o : SameRows(o)
  BY DEF SameRows
<1>2. ASSUME NEW p \in Orders PROVE ShapeOK(p)'
  BY <1>1, SameShape DEF ChainInv, ChainRows
<1>3. ASSUME NEW v \in Workers PROVE ChainJob(v)'
  BY <1>1, SameJob DEF ChainInv, ChainRows
<1> QED BY <1>2, <1>3 DEF ChainRows

LEMMA NothingWritten ==
    ASSUME ChainInv, UNCHANGED <<orderFlows, deductFlows, settlement>>,
           \A o \in Orders : order'[o].commission \in Commissions,
           UNCHANGED job \/ \E w \in Workers : Finish(w)
    PROVE  ChainRows'
<1>1. CASE UNCHANGED job
  BY <1>1, NoRowWritten DEF ChainInv, ChainRows, FreezeAlone
<1>2. ASSUME NEW w \in Workers, Finish(w) PROVE ChainRows'
  <2>1. \A v \in Workers : job'[v] = job[v] \/ ChainJob(v)'
    BY <1>2, FinishJobs, IdleChainJob DEF ChainInv
  <2>2. FreezeAlone'
    BY <1>2, FinishAlone DEF ChainInv, ChainRows
  <2> QED BY <2>1, <2>2, NoRowWritten
<1> QED BY <1>1, <1>2

(* A job starts: what it has read is the shape of its order. *)
LEMMA ChainStarted ==
    ASSUME ChainInv, NEW w \in Workers, NEW c, NEW o \in Orders, NEW pc, NEW n, NEW seen,
           Start(w, c, o, pc, n, seen), UNCHANGED <<order, orderFlows, deductFlows, settlement>>,
           pc # "load", c = "freeze_one" => pc = "write", pc = "calibrate" => c = "settle_b07",
           c \in {"settle_b07", "freeze_one"} => Fresh(o) /\ n \in Commissions,
           c = "unfreeze_b12" => Held(o) /\ n = orderFlows[o][1].amount,
           c = "refund_b07" => /\ Credited(o) /\ deductFlows[o] = <<>>
                               /\ n = orderFlows[o][1].amount /\ seen = "SUCCESS",
           c = "mark_paid" => Credited(o) /\ settlement[o] # <<>>,
           c = "freeze_one" => \A v \in Workers :
                                  ~ (job[v].caller = "freeze_one" /\ job[v].order = o)
    PROVE  ChainRows'
<1>1. /\ job'[w] = [pc |-> pc, caller |-> c, order |-> o, amount |-> n, seen |-> seen,
                    read |-> NoRead]
      /\ \A v \in Workers : v # w => job'[v] = job[v]
  BY DEF Start, ChainInv, TypeInv, JobsTyped
<1>2. SameRows(o)
  BY DEF SameRows
<1>3. ChainJob(w)'
  BY <1>1, <1>2, SameShape DEF ChainJob, SameRows
<1>4. FreezeAlone'
  BY <1>1 DEF ChainInv, ChainRows, FreezeAlone
<1>5. \A p \in Orders : order'[p].commission \in Commissions
  BY DEF ChainInv, ChainRows
<1> QED BY <1>1, <1>3, <1>4, <1>5, NoRowWritten

-----------------------------------------------------------------------------
(* The transactions of the chain, each a step of the promise. *)
PromiseStep == [Promised!Next]_(Promised!vars)

LEMMA StageSame ==
    ASSUME NEW o \in Orders, SameRows(o)
    PROVE  Stage'[o] = Stage[o]
  BY DEF Stage, SameRows

LEMMA StageWritten ==
    ASSUME NEW o \in Orders, \A p \in Orders : p # o => SameRows(p)
    PROVE  Stage' = [Stage EXCEPT ![o] = Stage'[o]]
<1>1. \A p \in Orders : p # o => Stage'[p] = Stage[p]
  BY StageSame
<1>2. Stage = [p \in Orders |-> Stage[p]] /\ Stage' = [p \in Orders |-> Stage'[p]]
  BY DEF Stage
<1> HIDE DEF Stage
<1> QED BY <1>1, <1>2

LEMMA StageFresh ==
    ASSUME NEW o \in Orders, Fresh(o)
    PROVE  Stage[o] = Promised!Nothing
  BY DEF Fresh, Stage, Promised!Nothing

LEMMA StageHeld ==
    ASSUME RowsTyped, NEW o \in Orders, Held(o)
    PROVE  /\ orderFlows[o][1].amount \in Nat
           /\ Stage[o] = [at |-> "promised", amount |-> orderFlows[o][1].amount]
<1>1. orderFlows[o] # <<>> /\ orderFlows[o][1] \in FlowType
  BY OneRow DEF Held, RowsTyped
<1> QED BY <1>1 DEF Held, Stage, FlowType

LEMMA StageCredited ==
    ASSUME RowsTyped, NEW o \in Orders, Credited(o)
    PROVE  /\ orderFlows[o][1].amount \in Nat
           /\ Stage[o] = [at |-> IF deductFlows[o] = <<>> THEN "earned" ELSE "clawed",
                          amount |-> orderFlows[o][1].amount]
<1>1. orderFlows[o] # <<>> /\ orderFlows[o][1] \in FlowType
  BY OneRow DEF Credited, RowsTyped
<1> QED BY <1>1 DEF Credited, Stage, FlowType

LEMMA NoPromiseStep ==
    ASSUME UNCHANGED <<orderFlows, deductFlows, account>>
    PROVE  PromiseStep
<1>1. Stage' = Stage
  BY DEF Stage
<1> QED BY <1>1 DEF PromiseStep, Promised!vars

(* What a worker at its write step knows. *)
LEMMA AtChainWrite ==
    ASSUME OneCallerEach, ChainInv, NEW w \in Workers, NEW op, AtWrite(w, op)
    PROVE  /\ job[w].caller \in Callers /\ job[w].order \in Orders /\ job[w].amount \in Nat
           /\ job[w].caller # None /\ job[w].caller \in Chain /\ ChainJob(w)
           /\ op = "settle"   => job[w].caller = "settle_b07"
           /\ op = "freeze"   => job[w].caller = "freeze_one"
           /\ op = "unfreeze" => job[w].caller = "unfreeze_b12"
           /\ op = "refund"   => job[w].caller = "refund_b07"
           /\ op = "paid"     => job[w].caller = "mark_paid"
           /\ op # "reverse"
           /\ Owner[job[w].order] \in Users
<1>1. job[w].caller \in Callers /\ job[w].order \in Orders /\ job[w].amount \in Nat
      /\ Owner[job[w].order] \in Users
  BY JobAtWrite DEF AtWrite, ChainInv, TypeInv
<1>2. OpOf[job[w].caller] = op
  BY DEF AtWrite
<1> QED BY <1>1, <1>2, ChainOps DEF ChainInv, ChainRows

(* The other workers on an order. *)
LEMMA OthersOn ==
    ASSUME OneCallerEach, ChainInv, NEW v \in Workers, job[v].caller # None
    PROVE  /\ job[v].caller \in Chain /\ ChainJob(v) /\ job[v].order \in Orders
           /\ job[v].caller \in Callers
<1>1. job[v].caller \in Callers
  BY DEF ChainInv, TypeInv, JobsTyped, GoodJob, JobType
<1> QED BY <1>1 DEF ChainInv, ChainRows, ChainJob, OneCallerEach

LEMMA ShapesDiffer ==
    ASSUME RowsTyped, NEW o \in Orders
    PROVE  /\ ~ (Fresh(o) /\ Held(o)) /\ ~ (Fresh(o) /\ Credited(o))
           /\ ~ (Held(o) /\ Credited(o))
<1>1. orderFlows[o] = <<>> => Len(orderFlows[o]) # 1
  OBVIOUS
<1> QED BY <1>1 DEF Fresh, Held, Credited

LEMMA SettleChain ==
    ASSUME OneCallerEach, ChainInv, NEW w \in Workers, SettleWrite(w)
    PROVE  ChainRows' /\ PromiseStep
<1> DEFINE o == job[w].order
           n == job[w].amount
           u == Owner[o]
           r == [status |-> "SUCCESS", amount |-> n]
<1>1. /\ o \in Orders /\ n \in Nat /\ job[w].caller = "settle_b07" /\ u \in Users
      /\ Fresh(o) /\ n \in Commissions /\ "freeze_one" \notin Callers
  BY AtChainWrite DEF SettleWrite, ChainJob, OneCallerEach
<1>2. Finish(w) /\ UNCHANGED <<order, deductFlows, settlement>>
  BY DEF SettleWrite
<1>3. CASE ~ (n > 0)
  <2>1. UNCHANGED <<orderFlows, account>>
    BY <1>3 DEF SettleWrite
  <2>2. \A p \in Orders : order'[p].commission \in Commissions
    BY <1>2 DEF ChainInv, ChainRows
  <2> QED BY <1>2, <2>1, <2>2, NothingWritten, NoPromiseStep
<1>4. CASE n > 0
  <2>1. /\ orderFlows' = [orderFlows EXCEPT ![o] = Append(<<>>, r)]
        /\ account' = [account EXCEPT ![u].available = @ + n, ![u].total = @ + n]
    BY <1>1, <1>4 DEF SettleWrite, Fresh
  <2>2. RowsTyped
    BY DEF ChainInv, TypeInv
  <2>3. orderFlows'[o] = Append(<<>>, r) /\ \A p \in Orders : p # o => SameRows(p)
    BY <1>1, <1>2, <2>1, <2>2 DEF RowsTyped, SameRows
  <2>4. Len(Append(<<>>, r)) = 1 /\ Append(<<>>, r)[1] = r /\ Append(<<>>, r) # <<>>
    BY RowAdded
  <2>5. Len(orderFlows'[o]) = 1 /\ orderFlows'[o][1] = r /\ orderFlows'[o] # <<>>
        /\ deductFlows'[o] = <<>> /\ settlement'[o] = <<>>
    BY <1>1, <1>2, <2>3, <2>4 DEF Fresh
  <2>6. ChainRows'
    <3> HIDE DEF o, n, u
    <3>1. ASSUME NEW p, p = o PROVE ShapeOK(p)'
      BY <1>1, <2>5, <3>1 DEF ShapeOK, Credited
    <3>2. PICK p \in Orders : p = o
      BY <1>1
    <3>3. ShapeOK(p)' /\ \A q \in Orders : q # p => SameRows(q)
      BY <2>3, <3>1, <3>2
    <3>4. ASSUME NEW v \in Workers, v # w, job[v].caller # None, job[v].order = p
          PROVE  ChainJob(v)'
      <4>1. job[v].caller \in Chain /\ ChainJob(v) /\ job[v].caller \in Callers
        BY <3>4, OthersOn
      <4>2. job[v].caller # "settle_b07"
        BY <1>1, <3>4 DEF ChainInv, OneRunnerEach, SingleRunner
      <4>3. Fresh(p) /\ ~Held(p) /\ ~Credited(p)
        BY <1>1, <2>2, <3>2, ShapesDiffer
      <4> QED BY <1>1, <3>4, <4>1, <4>2, <4>3 DEF ChainJob, Chain
    <3> QED BY <1>2, <3>3, <3>2, <3>4, OneOrderWritten
  <2>7. Promised!Earn(o, n)
    <3>1. Stage[o] = Promised!Nothing
      BY <1>1, StageFresh
    <3>2. Stage'[o] = [at |-> "earned", amount |-> n]
      BY <1>1, <2>5 DEF Stage
    <3>3. Stage' = [Stage EXCEPT ![o] = [at |-> "earned", amount |-> n]]
      BY <1>1, <2>3, <3>2, StageWritten
    <3> QED BY <1>4, <2>1, <3>1, <3>3 DEF Promised!Earn
  <2>8. PromiseStep
    BY <1>1, <2>7 DEF PromiseStep, Promised!Next
  <2> QED BY <2>6, <2>8
<1> QED BY <1>3, <1>4

LEMMA FreezeChain ==
    ASSUME OneCallerEach, ChainInv, NEW w \in Workers, FreezeWrite(w)
    PROVE  ChainRows' /\ PromiseStep
<1> DEFINE o == job[w].order
           n == job[w].amount
           u == Owner[o]
           r == [status |-> "PENDING", amount |-> n]
           s == [status |-> "SETTLABLE", amount |-> n, flow |-> 1]
<1>1. /\ o \in Orders /\ n \in Nat /\ job[w].caller = "freeze_one" /\ u \in Users
      /\ Fresh(o) /\ n \in Commissions /\ "settle_b07" \notin Callers
  BY AtChainWrite DEF FreezeWrite, ChainJob, OneCallerEach
<1>2. Finish(w) /\ UNCHANGED <<order, deductFlows>>
  BY DEF FreezeWrite
<1>3. CASE ~ (n > 0)
  <2>1. UNCHANGED <<orderFlows, settlement, account>>
    BY <1>3 DEF FreezeWrite
  <2>2. \A p \in Orders : order'[p].commission \in Commissions
    BY <1>2 DEF ChainInv, ChainRows
  <2> QED BY <1>2, <2>1, <2>2, NothingWritten, NoPromiseStep
<1>4. CASE n > 0
  <2>0. Len(<<>>) = 0
    OBVIOUS
  <2>1. /\ orderFlows' = [orderFlows EXCEPT ![o] = Append(<<>>, r)]
        /\ settlement' = [settlement EXCEPT ![o] = Append(<<>>, s)]
        /\ account' = [account EXCEPT ![u].frozen = @ + n, ![u].total = @ + n]
    BY <1>1, <1>4, <2>0 DEF FreezeWrite, Fresh
  <2>2. RowsTyped
    BY DEF ChainInv, TypeInv
  <2>3. /\ orderFlows'[o] = Append(<<>>, r) /\ settlement'[o] = Append(<<>>, s)
        /\ \A p \in Orders : p # o => SameRows(p)
    BY <1>1, <1>2, <2>1, <2>2 DEF RowsTyped, SameRows
  <2>4. /\ Len(Append(<<>>, r)) = 1 /\ Append(<<>>, r)[1] = r /\ Append(<<>>, r) # <<>>
        /\ Len(Append(<<>>, s)) = 1 /\ Append(<<>>, s)[1] = s
    BY RowAdded
  <2>5. /\ Len(orderFlows'[o]) = 1 /\ orderFlows'[o][1] = r /\ orderFlows'[o] # <<>>
        /\ deductFlows'[o] = <<>> /\ Len(settlement'[o]) = 1 /\ settlement'[o][1] = s
    BY <1>1, <1>2, <2>3, <2>4 DEF Fresh
  <2>6. ChainRows'
    <3> HIDE DEF o, n, u
    <3>1. ASSUME NEW p, p = o PROVE ShapeOK(p)'
      BY <1>1, <2>5, <3>1 DEF ShapeOK, Held
    <3>2. PICK p \in Orders : p = o
      BY <1>1
    <3>3. ShapeOK(p)' /\ \A q \in Orders : q # p => SameRows(q)
      BY <2>3, <3>1, <3>2
    <3>4. ASSUME NEW v \in Workers, v # w, job[v].caller # None, job[v].order = p
          PROVE  ChainJob(v)'
      <4>1. job[v].caller \in Chain /\ ChainJob(v) /\ job[v].caller \in Callers
        BY <3>4, OthersOn
      <4>2. job[v].caller # "freeze_one"
        BY <1>1, <3>2, <3>4 DEF ChainInv, ChainRows, FreezeAlone, o
      <4>3. Fresh(p) /\ ~Held(p) /\ ~Credited(p)
        BY <1>1, <2>2, <3>2, ShapesDiffer
      <4> QED BY <1>1, <3>4, <4>1, <4>2, <4>3 DEF ChainJob, Chain
    <3> QED BY <1>2, <3>3, <3>2, <3>4, OneOrderWritten
  <2>7. Promised!Promise(o, n)
    <3>1. Stage[o] = Promised!Nothing
      BY <1>1, StageFresh
    <3>2. Stage'[o] = [at |-> "promised", amount |-> n]
      BY <1>1, <2>5 DEF Stage
    <3>3. Stage' = [Stage EXCEPT ![o] = [at |-> "promised", amount |-> n]]
      BY <1>1, <2>3, <3>2, StageWritten
    <3> QED BY <1>4, <2>1, <3>1, <3>3 DEF Promised!Promise
  <2>8. PromiseStep
    BY <1>1, <2>7 DEF PromiseStep, Promised!Next
  <2> QED BY <2>6, <2>8
<1> QED BY <1>3, <1>4

LEMMA UnfreezeChain ==
    ASSUME OneCallerEach, ChainInv, NEW w \in Workers, UnfreezeWrite(w)
    PROVE  ChainRows' /\ PromiseStep
<1> DEFINE o == job[w].order
           n == job[w].amount
           u == Owner[o]
           r == [orderFlows[o][1] EXCEPT !.status = "SUCCESS"]
           s == [settlement[o][1] EXCEPT !.status = "SETTLED"]
           rs == [orderFlows[o] EXCEPT ![1] = r]
           ss == [settlement[o] EXCEPT ![1] = s]
<1>1. /\ o \in Orders /\ n \in Nat /\ job[w].caller = "unfreeze_b12" /\ u \in Users
      /\ Held(o) /\ n = orderFlows[o][1].amount
  BY AtChainWrite DEF UnfreezeWrite, ChainJob
<1>2. Finish(w) /\ UNCHANGED <<order, deductFlows>>
  BY DEF UnfreezeWrite
<1>3. CASE ~ (account[u].frozen >= n)
  <2>1. UNCHANGED <<orderFlows, settlement, account>>
    BY <1>3 DEF UnfreezeWrite
  <2>2. \A p \in Orders : order'[p].commission \in Commissions
    BY <1>2 DEF ChainInv, ChainRows
  <2> QED BY <1>2, <2>1, <2>2, NothingWritten, NoPromiseStep
<1>4. CASE account[u].frozen >= n
  <2>2. RowsTyped
    BY DEF ChainInv, TypeInv
  <2>0. settlement[o][1].flow = 1
    BY <1>1 DEF Held
  <2>1. /\ orderFlows' = [orderFlows EXCEPT ![o] = rs]
        /\ settlement' = [settlement EXCEPT ![o] = ss]
        /\ account' = [account EXCEPT ![u].frozen = @ - n, ![u].available = @ + n]
    BY <1>4, <2>0 DEF UnfreezeWrite
  <2>3. /\ orderFlows'[o] = rs /\ settlement'[o] = ss
        /\ \A p \in Orders : p # o => SameRows(p)
    BY <1>1, <1>2, <2>1, <2>2 DEF RowsTyped, SameRows
  <2>4. /\ orderFlows[o] \in Seq(FlowType) /\ settlement[o] \in Seq(RecordType)
        /\ Len(orderFlows[o]) = 1 /\ Len(settlement[o]) = 1
    BY <1>1, <2>2 DEF Held, RowsTyped
  <2>5. orderFlows[o][1] \in FlowType /\ settlement[o][1] \in RecordType
    BY <2>4, OneRow
  <2>6. r.status = "SUCCESS" /\ r.amount = n /\ s.status = "SETTLED"
    BY <1>1, <2>5 DEF FlowType, RecordType
  <2>7. Len(rs) = 1 /\ rs[1] = r /\ Len(ss) = 1 /\ ss[1] = s
    <3> HIDE DEF r, s
    <3> QED BY <2>4, RowMarked
  <2>8. /\ Len(orderFlows'[o]) = 1 /\ orderFlows'[o][1].status = "SUCCESS"
        /\ orderFlows'[o][1].amount = n /\ deductFlows'[o] = <<>>
        /\ Len(settlement'[o]) = 1 /\ settlement'[o][1].status = "SETTLED"
    <3> HIDE DEF r, s, rs, ss
    <3> QED BY <1>1, <1>2, <2>3, <2>6, <2>7 DEF Held
  <2>9. ChainRows'
    <3> HIDE DEF o, n, u, r, s, rs, ss
    <3>1. ASSUME NEW p, p = o PROVE ShapeOK(p)'
      BY <1>1, <2>8, <3>1 DEF ShapeOK, Credited
    <3>2. PICK p \in Orders : p = o
      BY <1>1
    <3>3. ShapeOK(p)' /\ \A q \in Orders : q # p => SameRows(q)
      BY <2>3, <3>1, <3>2
    <3>4. ASSUME NEW v \in Workers, v # w, job[v].caller # None, job[v].order = p
          PROVE  ChainJob(v)'
      <4>1. job[v].caller \in Chain /\ ChainJob(v) /\ job[v].caller \in Callers
        BY <3>4, OthersOn
      <4>2. job[v].caller # "unfreeze_b12"
        BY <1>1, <3>4 DEF ChainInv, OneRunnerEach, SingleRunner
      <4>3. Held(p) /\ ~Fresh(p) /\ ~Credited(p)
        BY <1>1, <2>2, <3>2, ShapesDiffer
      <4> QED BY <1>1, <3>4, <4>1, <4>2, <4>3 DEF ChainJob, Chain
    <3> QED BY <1>2, <3>3, <3>2, <3>4, OneOrderWritten
  <2>10. Promised!Release(o)
    <3>1. Stage[o] = [at |-> "promised", amount |-> n]
      BY <1>1, <2>2, StageHeld
    <3>2. Stage'[o] = [at |-> "earned", amount |-> n]
      <4>1. orderFlows'[o] # <<>>
        <5>1. Len(<<>>) = 0
          OBVIOUS
        <5> QED BY <2>8, <5>1
      <4> QED BY <1>1, <2>8, <4>1 DEF Stage
    <3>3. Stage' = [Stage EXCEPT ![o] = [at |-> "earned", amount |-> n]]
      BY <1>1, <2>3, <3>2, StageWritten
    <3>4. Stage' = [Stage EXCEPT ![o].at = "earned"]
      <4>1. [Stage[o] EXCEPT !.at = "earned"] = [at |-> "earned", amount |-> n]
        BY <3>1
      <4> HIDE DEF o, n, Stage
      <4> QED BY <3>3, <4>1
    <3>5. Stage[o].at = "promised" /\ Stage[o].amount = n
      BY <3>1
    <3> HIDE DEF o, n, u, rs, ss, Stage
    <3>6. account[Owner[o]].frozen >= n
          /\ account' = [account EXCEPT ![Owner[o]].frozen = @ - n,
                                        ![Owner[o]].available = @ + n]
      BY <1>4, <2>1 DEF u
    <3> QED BY <3>4, <3>5, <3>6 DEF Promised!Release
  <2>11. PromiseStep
    BY <1>1, <2>10 DEF PromiseStep, Promised!Next
  <2> QED BY <2>9, <2>11
<1> QED BY <1>3, <1>4

LEMMA RefundChain ==
    ASSUME OneCallerEach, ChainInv, NEW w \in Workers, DeductWrite(w, "refund")
    PROVE  ChainRows' /\ PromiseStep
<1> DEFINE o == job[w].order
           n == job[w].amount
           u == Owner[o]
<1>1. /\ o \in Orders /\ n \in Nat /\ job[w].caller = "refund_b07" /\ u \in Users
      /\ Credited(o) /\ deductFlows[o] = <<>> /\ n = orderFlows[o][1].amount
      /\ job[w].seen = "SUCCESS"
  BY AtChainWrite DEF DeductWrite, ChainJob
<1>2. Finish(w) /\ UNCHANGED <<order, settlement>>
  BY DEF DeductWrite
<1>3. CASE ~ (account[u].available >= n)
  <2>1. UNCHANGED <<orderFlows, deductFlows, account>>
    BY <1>1, <1>3 DEF DeductWrite
  <2>2. \A p \in Orders : order'[p].commission \in Commissions
    BY <1>2 DEF ChainInv, ChainRows
  <2> QED BY <1>2, <2>1, <2>2, NothingWritten, NoPromiseStep
<1>4. CASE account[u].available >= n
  <2>2. RowsTyped
    BY DEF ChainInv, TypeInv
  <2>1. /\ deductFlows' = [deductFlows EXCEPT ![o] = Append(<<>>, n)]
        /\ account' = [account EXCEPT ![u].available = account[u].available - n,
                                      ![u].total = account[u].total - n]
        /\ UNCHANGED orderFlows
    <3>1. job[w].seen # "PENDING" /\ "refund" # "reverse" /\ ~ (account[u].available < n)
      <4>1. account[u].available \in Nat
        BY <1>1, <2>2 DEF RowsTyped, AccountType
      <4> QED BY <1>1, <1>4, <4>1
    <3>2. /\ deductFlows' = [deductFlows EXCEPT ![o] = Append(@, n)]
          /\ UNCHANGED orderFlows
      BY <3>1 DEF DeductWrite
    <3>3. account' = [account EXCEPT ![u].available = account[u].available - n,
                                     ![u].total = account[u].total - n]
      BY <3>1 DEF DeductWrite
    <3> QED BY <1>1, <3>2, <3>3
  <2>3. deductFlows'[o] = Append(<<>>, n) /\ \A p \in Orders : p # o => SameRows(p)
    BY <1>1, <1>2, <2>1, <2>2 DEF RowsTyped, SameRows
  <2>4. Len(Append(<<>>, n)) = 1 /\ Append(<<>>, n)[1] = n /\ Append(<<>>, n) # <<>>
    BY RowAdded
  <2>5. /\ Len(deductFlows'[o]) = 1 /\ deductFlows'[o][1] = n /\ deductFlows'[o] # <<>>
        /\ orderFlows'[o] = orderFlows[o] /\ settlement'[o] = settlement[o]
    BY <1>2, <2>1, <2>3, <2>4
  <2>9. ChainRows'
    <3> HIDE DEF o, n, u
    <3>1. ASSUME NEW p, p = o
          PROVE  ShapeOK(p)' /\ Credited(p)' /\ settlement'[p] = settlement[p]
      <4>1. Credited(p)'
        BY <1>1, <2>5, <3>1 DEF Credited
      <4> QED BY <2>5, <3>1, <4>1 DEF ShapeOK
    <3>2. PICK p \in Orders : p = o
      BY <1>1
    <3>3. ShapeOK(p)' /\ \A q \in Orders : q # p => SameRows(q)
      BY <2>3, <3>1, <3>2
    <3>4. ASSUME NEW v \in Workers, v # w, job[v].caller # None, job[v].order = p
          PROVE  ChainJob(v)'
      <4>1. job[v].caller \in Chain /\ ChainJob(v) /\ job[v].caller \in Callers
        BY <3>4, OthersOn
      <4>2. job[v].caller # "refund_b07"
        BY <1>1, <3>4 DEF ChainInv, OneRunnerEach, SingleRunner
      <4>3. Credited(p) /\ ~Fresh(p) /\ ~Held(p)
        BY <1>1, <2>2, <3>2, ShapesDiffer
      <4>4. job[v].caller = "mark_paid" /\ settlement[p] # <<>>
            /\ job[v].pc \notin {"load", "calibrate"}
        BY <3>4, <4>1, <4>2, <4>3 DEF ChainJob, Chain
      <4>5. Credited(p)' /\ settlement'[p] = settlement[p]
        BY <3>1, <3>2
      <4>6. job'[v] = job[v]
        BY <1>2, <3>4, FinishJobs DEF ChainInv
      <4> QED BY <3>2, <3>4, <4>4, <4>5, <4>6 DEF ChainJob
    <3> QED BY <1>2, <3>3, <3>2, <3>4, OneOrderWritten
  <2>10. Promised!ClawBack(o)
    <3>1. Stage[o] = [at |-> "earned", amount |-> n]
      BY <1>1, <2>2, StageCredited
    <3>2. Stage'[o] = [at |-> "clawed", amount |-> n]
      <4>1. orderFlows'[o] # <<>>
        BY <1>1, <2>2, <2>5, OneRow DEF Credited, RowsTyped
      <4> QED BY <1>1, <2>5, <4>1 DEF Stage
    <3>3. Stage' = [Stage EXCEPT ![o] = [at |-> "clawed", amount |-> n]]
      BY <1>1, <2>3, <3>2, StageWritten
    <3>4. Stage' = [Stage EXCEPT ![o].at = "clawed"]
      <4>1. [Stage[o] EXCEPT !.at = "clawed"] = [at |-> "clawed", amount |-> n]
        BY <3>1
      <4> HIDE DEF o, n, Stage
      <4> QED BY <3>3, <4>1
    <3>5. Stage[o].at = "earned" /\ Stage[o].amount = n
      BY <3>1
    <3> HIDE DEF o, n, u, Stage
    <3>6. account[Owner[o]].available >= n
          /\ account' = [account EXCEPT ![Owner[o]].available = @ - n,
                                        ![Owner[o]].total = @ - n]
      <4>1. account[u] \in AccountType /\ account \in [Users -> AccountType]
        BY <1>1, <2>2 DEF RowsTyped
      <4> QED BY <1>1, <1>4, <2>1, <4>1 DEF u, AccountType
    <3> QED BY <3>4, <3>5, <3>6 DEF Promised!ClawBack
  <2>11. PromiseStep
    BY <1>1, <2>10 DEF PromiseStep, Promised!Next
  <2> QED BY <2>9, <2>11
<1> QED BY <1>3, <1>4

LEMMA PaidChain ==
    ASSUME OneCallerEach, ChainInv, NEW w \in Workers, PaidWrite(w)
    PROVE  ChainRows' /\ PromiseStep
<1> DEFINE o == job[w].order
           s == [settlement[o][1] EXCEPT !.status = "PAID"]
           ss == [settlement[o] EXCEPT ![1] = s]
<1>1. o \in Orders /\ Credited(o) /\ settlement[o] # <<>>
  BY AtChainWrite DEF PaidWrite, ChainJob
<1>2. /\ Finish(w) /\ UNCHANGED <<order, orderFlows, deductFlows, account>>
      /\ settlement' = [settlement EXCEPT ![o] = ss]
  BY DEF PaidWrite
<1>3. RowsTyped
  BY DEF ChainInv, TypeInv
<1>4. settlement'[o] = ss /\ \A p \in Orders : p # o => SameRows(p)
  BY <1>1, <1>2, <1>3 DEF RowsTyped, SameRows
<1>5. settlement[o] \in Seq(RecordType) /\ Len(settlement[o]) = 1
  BY <1>1, <1>3 DEF Credited, RowsTyped
<1>6. s.status = "PAID"
  <2>1. settlement[o][1] \in RecordType
    BY <1>5, OneRow
  <2> QED BY <2>1 DEF RecordType
<1>7. Len(ss) = 1 /\ ss[1] = s /\ ss # <<>>
  <2>1. Len(ss) = 1 /\ ss[1] = s
    <3> HIDE DEF s
    <3> QED BY <1>5, RowMarked
  <2>2. Len(<<>>) = 0
    OBVIOUS
  <2> HIDE DEF s, ss
  <2> QED BY <2>1, <2>2
<1>8. /\ Len(settlement'[o]) = 1 /\ settlement'[o][1].status = "PAID"
      /\ settlement'[o] # <<>>
      /\ orderFlows'[o] = orderFlows[o] /\ deductFlows'[o] = deductFlows[o]
  <2> HIDE DEF s, ss
  <2> QED BY <1>2, <1>4, <1>6, <1>7
<1> HIDE DEF o, s, ss
<1>9. ASSUME NEW p, p = o
      PROVE  ShapeOK(p)' /\ Credited(p)' /\ settlement'[p] # <<>>
             /\ orderFlows'[p] = orderFlows[p] /\ deductFlows'[p] = deductFlows[p]
  <2>1. Credited(p)'
    BY <1>1, <1>8, <1>9 DEF Credited
  <2> QED BY <1>8, <1>9, <2>1 DEF ShapeOK
<1>10. PICK p \in Orders : p = o
  BY <1>1
<1>11. ShapeOK(p)' /\ \A q \in Orders : q # p => SameRows(q)
  BY <1>4, <1>9, <1>10
<1>12. ASSUME NEW v \in Workers, v # w, job[v].caller # None, job[v].order = p
       PROVE  ChainJob(v)'
  <2>1. job[v].caller \in Chain /\ ChainJob(v) /\ job[v].caller \in Callers
    BY <1>12, OthersOn
  <2>2. Credited(p) /\ ~Fresh(p) /\ ~Held(p)
    BY <1>1, <1>3, <1>10, ShapesDiffer
  <2>3. /\ job[v].caller \in {"mark_paid", "refund_b07"} /\ job[v].pc \notin {"load", "calibrate"}
        /\ job[v].caller = "refund_b07" =>
              /\ deductFlows[p] = <<>> /\ job[v].amount = orderFlows[p][1].amount
              /\ job[v].seen = "SUCCESS"
    BY <1>12, <2>1, <2>2 DEF ChainJob, Chain
  <2>4. /\ Credited(p)' /\ settlement'[p] # <<>>
        /\ orderFlows'[p] = orderFlows[p] /\ deductFlows'[p] = deductFlows[p]
    BY <1>9, <1>10
  <2>5. job'[v] = job[v]
    BY <1>2, <1>12, FinishJobs DEF ChainInv
  <2> QED BY <1>10, <1>12, <2>3, <2>4, <2>5 DEF ChainJob
<1>13. ChainRows'
  BY <1>2, <1>11, <1>10, <1>12, OneOrderWritten
<1> QED BY <1>2, <1>13, NoPromiseStep

-----------------------------------------------------------------------------
LEMMA BeginChain ==
    ASSUME OneCallerEach, ChainInv, NEW w \in Workers, NEW c \in Callers, NEW o \in Orders,
           Begin(w, c, o)
    PROVE  ChainRows' /\ PromiseStep
<1>t. RowsTyped /\ ShapeOK(o) /\ order[o].commission \in Commissions
      /\ \A v \in Workers : ChainJob(v)
  BY DEF ChainInv, TypeInv, ChainRows
<1>c. /\ c \in Chain /\ OpOf[c] # "reverse"
      /\ OpOf[c] = "settle"   => c = "settle_b07"
      /\ OpOf[c] = "freeze"   => c = "freeze_one"
      /\ OpOf[c] = "unfreeze" => c = "unfreeze_b12"
      /\ OpOf[c] = "refund"   => c = "refund_b07"
      /\ OpOf[c] = "paid"     => c = "mark_paid"
  BY ChainOps
<1>s. ~ (Fresh(o) /\ Held(o)) /\ ~ (Fresh(o) /\ Credited(o)) /\ ~ (Held(o) /\ Credited(o))
  BY <1>t, ShapesDiffer
<1>u. UNCHANGED <<order, orderFlows, deductFlows, settlement, account>>
  BY DEF Begin, SettleBegin, RefundBegin, ReverseBegin, FreezeBegin, UnfreezeBegin, PaidBegin
<1>l. Len(<<>>) = 0
  OBVIOUS
<1>0. PromiseStep
  BY <1>u, NoPromiseStep
<1>1. ASSUME SettleBegin(w, c, o) PROVE ChainRows'
  <2>1. c = "settle_b07"
    BY <1>1, <1>c DEF SettleBegin, CanStart
  <2>2. orderFlows[o] = <<>>
    BY <1>1, <2>1 DEF SettleBegin, Endpoints
  <2>3. Fresh(o)
    BY <1>t, <1>l, <2>2 DEF ShapeOK, Held, Credited
  <2>4. PICK n \in Commissions :
            Start(w, c, o, IF n = order[o].commission THEN "write" ELSE "calibrate", n, "NONE")
    BY <1>1 DEF SettleBegin
  <2> QED BY <1>u, <2>1, <2>3, <2>4, ChainStarted
<1>2. ASSUME RefundBegin(w, c, o) PROVE ChainRows'
  <2>1. c = "refund_b07" /\ c \in Tasks
    BY <1>2, <1>c DEF RefundBegin, CanStart, Tasks
  <2>2. /\ HasSuccess(o) /\ orderFlows[o] # <<>> /\ deductFlows[o] = <<>>
        /\ Start(w, c, o, "write", orderFlows[o][1].amount, orderFlows[o][1].status)
    BY <1>2, <2>1 DEF RefundBegin
  <2>3. Credited(o)
    <3>1. ~Held(o)
      <4> SUFFICES ASSUME Held(o) PROVE FALSE
        OBVIOUS
      <4>1. DOMAIN orderFlows[o] = {1}
        BY <1>t, OneRow DEF Held, RowsTyped
      <4> QED BY <2>2, <4>1 DEF HasSuccess, Held
    <3> QED BY <1>t, <2>2, <3>1 DEF ShapeOK, Fresh
  <2>4. orderFlows[o][1].status = "SUCCESS"
    BY <2>3 DEF Credited
  <2> QED BY <1>u, <2>1, <2>2, <2>3, <2>4, ChainStarted
<1>3. ASSUME FreezeBegin(w, c, o) PROVE ChainRows'
  <2>1. c = "freeze_one" /\ c \in Endpoints /\ c \notin Tasks
    BY <1>3, <1>c DEF FreezeBegin, CanStart, Endpoints, Tasks
  <2>2. /\ ~OpLocked("freeze", o) /\ settlement[o] = <<>>
        /\ Start(w, c, o, "write", order[o].commission, "NONE")
    BY <1>3, <2>1 DEF FreezeBegin
  <2>3. Fresh(o)
    BY <1>t, <1>l, <2>1, <2>2 DEF ShapeOK, Held, Credited
  <2>4. ASSUME NEW v \in Workers, job[v].caller = "freeze_one", job[v].order = o PROVE FALSE
    <3>1. job[v].pc = "write" /\ OpOf[job[v].caller] = "freeze"
      BY <1>t, <2>1, <2>4, OpTable DEF ChainJob
    <3> QED BY <2>2, <2>4, <3>1 DEF OpLocked
  <2> QED BY <1>t, <1>u, <2>1, <2>2, <2>3, <2>4, ChainStarted
<1>4. ASSUME UnfreezeBegin(w, c, o) PROVE ChainRows'
  <2>1. c = "unfreeze_b12"
    BY <1>4, <1>c DEF UnfreezeBegin, CanStart
  <2>2. /\ Len(settlement[o]) = 1 /\ settlement[o][1].status = "SETTLABLE"
        /\ Start(w, c, o, IF c \in Tasks THEN "lock" ELSE "write", settlement[o][1].amount, "NONE")
    BY <1>4 DEF UnfreezeBegin
  <2>3. Held(o) /\ settlement[o][1].amount = orderFlows[o][1].amount
    BY <1>t, <1>l, <2>2 DEF ShapeOK, Fresh, Credited, Held
  <2> QED BY <1>u, <2>1, <2>2, <2>3, ChainStarted
<1>5. ASSUME PaidBegin(w, c, o) PROVE ChainRows'
  <2>1. c = "mark_paid"
    BY <1>5, <1>c DEF PaidBegin, CanStart
  <2>2. /\ settlement[o] # <<>> /\ settlement[o][1].status = "SETTLED"
        /\ Start(w, c, o, "write", 0, "NONE")
    BY <1>5 DEF PaidBegin
  <2>3. Credited(o)
    BY <1>t, <2>2 DEF ShapeOK, Fresh, Held
  <2> QED BY <1>u, <2>1, <2>2, <2>3, ChainStarted
<1>6. ~ReverseBegin(w, c, o)
  BY <1>c DEF ReverseBegin, CanStart
<1> QED BY <1>0, <1>1, <1>2, <1>3, <1>4, <1>5, <1>6 DEF Begin

(* A worker that goes on to its write step keeps what it has read. *)
LEMMA GotoChain ==
    ASSUME ChainInv, NEW w \in Workers, Goto(w, "write"),
           UNCHANGED <<orderFlows, deductFlows, settlement>>,
           \A p \in Orders : order'[p].commission \in Commissions
    PROVE  ChainRows'
<1>1. job[w] \in JobType /\ job \in [Workers -> GoodJob]
  BY DEF ChainInv, TypeInv, JobsTyped, GoodJob
<1>2. /\ job'[w].pc = "write" /\ job'[w].caller = job[w].caller
      /\ job'[w].order = job[w].order /\ job'[w].amount = job[w].amount
      /\ job'[w].seen = job[w].seen
      /\ \A v \in Workers : v # w => job'[v] = job[v]
  BY <1>1 DEF Goto, JobType
<1>3. ChainJob(w)'
  <2> DEFINE o == job[w].order
  <2>1. SameRows(o)
    BY DEF SameRows
  <2>2. /\ orderFlows'[o] = orderFlows[o] /\ deductFlows'[o] = deductFlows[o]
        /\ settlement'[o] = settlement[o] /\ job'[w].order = o
    BY <1>2
  <2>3. /\ Fresh(o)' <=> Fresh(o)
        /\ Held(o)' <=> Held(o)
        /\ Credited(o)' <=> Credited(o)
    BY <1>2 DEF Fresh, Held, Credited
  <2>4. ChainJob(w)
    BY DEF ChainInv, ChainRows
  <2> QED BY <1>2, <2>2, <2>3, <2>4 DEF ChainJob
<1>4. FreezeAlone'
  BY <1>2 DEF ChainInv, ChainRows, FreezeAlone
<1> QED BY <1>2, <1>3, <1>4, NoRowWritten

LEMMA ChainStep ==
    ASSUME OneCallerEach, ChainInv, [Next]_vars
    PROVE  ChainRows' /\ PromiseStep
<1> DEFINE Goal == ChainRows' /\ PromiseStep
<1>t. /\ RowsTyped /\ \A p \in Orders : order[p].commission \in Commissions
      /\ \A w \in Workers : ChainJob(w) /\ job[w] \in GoodJob
  BY DEF ChainInv, TypeInv, ChainRows, JobsTyped
<1>1. CASE UNCHANGED vars
  <2>1. /\ UNCHANGED <<orderFlows, deductFlows, settlement, account, job>>
        /\ \A p \in Orders : order'[p].commission \in Commissions
    BY <1>t, <1>1 DEF vars
  <2> QED BY <2>1, NothingWritten, NoPromiseStep
<1>2. ASSUME NEW o \in Orders, NEW s \in OrderStatuses, OrderSync(o, s) PROVE Goal
  <2>1. /\ UNCHANGED <<orderFlows, deductFlows, settlement, account, job>>
        /\ \A p \in Orders : order'[p].commission \in Commissions
    BY <1>t, <1>2 DEF OrderSync, RowsTyped, OrderType
  <2> QED BY <2>1, NothingWritten, NoPromiseStep
<1>3. ASSUME NEW u \in Users, Withdraw(u) PROVE Goal
  <2>1. /\ UNCHANGED <<orderFlows, deductFlows, settlement, job>>
        /\ \A p \in Orders : order'[p].commission \in Commissions
    BY <1>t, <1>3 DEF Withdraw
  <2>2. PromiseStep
    BY <1>3 DEF Withdraw, PromiseStep, Promised!Next
  <2> QED BY <2>1, <2>2, NothingWritten
<1>4. ASSUME NEW w \in Workers, NEW c \in Callers, NEW o \in Orders, Begin(w, c, o) PROVE Goal
  BY <1>4, BeginChain
<1>5. ASSUME NEW w \in Workers, SettleCalibrate(w) PROVE Goal
  <2>1. job[w].order \in Orders /\ job[w].amount \in Commissions
    BY <1>t, <1>5 DEF SettleCalibrate, ChainJob, GoodJob
  <2>2. /\ Goto(w, "write") /\ UNCHANGED <<orderFlows, deductFlows, settlement, account>>
        /\ order' = [order EXCEPT ![job[w].order].commission = job[w].amount]
    BY <1>5 DEF SettleCalibrate
  <2>3. \A p \in Orders : order'[p].commission \in Commissions
    BY <1>t, <2>1, <2>2 DEF RowsTyped, OrderType
  <2> QED BY <2>2, <2>3, GotoChain, NoPromiseStep
<1>6. ASSUME NEW w \in Workers, OpLock(w) \/ Crash(w) PROVE Goal
  <2>1. /\ Finish(w) \/ Goto(w, "write")
        /\ UNCHANGED <<orderFlows, deductFlows, settlement, account>>
        /\ \A p \in Orders : order'[p].commission \in Commissions
    BY <1>t, <1>6 DEF OpLock, Crash
  <2> QED BY <2>1, GotoChain, NothingWritten, NoPromiseStep
<1>7. ASSUME NEW w \in Workers PROVE ~ReverseLoad(w) /\ ~DeductWrite(w, "reverse")
  <2>1. ~ReverseLoad(w)
    BY <1>t DEF ReverseLoad, ChainJob
  <2>2. ~DeductWrite(w, "reverse")
    BY AtChainWrite DEF DeductWrite
  <2> QED BY <2>1, <2>2
<1>8. ASSUME NEW w \in Workers,
             \/ SettleWrite(w) \/ DeductWrite(w, "refund") \/ FreezeWrite(w)
             \/ UnfreezeWrite(w) \/ PaidWrite(w)
      PROVE  Goal
  BY <1>8, SettleChain, RefundChain, FreezeChain, UnfreezeChain, PaidChain
<1> HIDE DEF Goal
<1>9. Goal
  <2>1. ASSUME NEW w \in Workers, HandlerStep(w) \/ Crash(w) PROVE Goal
    BY <1>5, <1>6, <1>7, <1>8, <2>1 DEF HandlerStep
  <2>2. UNCHANGED vars => Goal
    BY <1>1 DEF Goal
  <2> QED BY <1>2, <1>3, <1>4, <2>1, <2>2 DEF Next
<1> QED BY <1>9 DEF Goal

LEMMA ChainRunners ==
    ASSUME OneCallerEach, ChainInv, [Next]_vars
    PROVE  OneRunnerEach'
<1>1. {"settle_b07", "unfreeze_b12", "refund_b07"} \subseteq Tasks
  BY DEF Tasks
<1>2. ASSUME NEW c \in {"settle_b07", "unfreeze_b12", "refund_b07"}, SingleRunner(c)
      PROVE  SingleRunner(c)'
  BY <1>1, <1>2, RunnerStep DEF OneCallerEach, ChainInv
<1> QED BY <1>2 DEF ChainInv, OneRunnerEach

LEMMA ChainInit ==
    ASSUME Init
    PROVE  ChainInv /\ Promised!Init
<1>1. TypeInv
  BY InitTyped
<1>2. ASSUME NEW o \in Orders PROVE ShapeOK(o) /\ order[o].commission \in Commissions
  BY DEF Init, ShapeOK, Fresh
<1>3. \A w \in Workers : job[w] = Idle
  BY DEF Init
<1>4. Idle.caller = None /\ Idle.pc = "idle" /\ None \notin Chain
  BY ConstantsAssumption DEF Idle, Chain, Tasks, Endpoints
<1>5. ASSUME NEW w \in Workers PROVE ChainJob(w)
  BY <1>3, <1>4 DEF ChainJob, Chain
<1>6. FreezeAlone /\ OneRunnerEach
  BY <1>3, <1>4 DEF FreezeAlone, OneRunnerEach, SingleRunner, Chain
<1>7. Promised!Init
  <2>1. Stage = [o \in Orders |-> Promised!Nothing]
    BY DEF Init, Stage, Promised!Nothing
  <2>2. account = [u \in Users |-> Promised!ZeroAccount]
    BY Zenon DEF Init
  <2> QED BY <2>1, <2>2 DEF Promised!Init
<1> QED BY <1>1, <1>2, <1>5, <1>6, <1>7 DEF ChainInv, ChainRows

LEMMA ChainKept == ASSUME OneCallerEach PROVE ChainInv /\ [Next]_vars => ChainInv'
  BY StepTyped, ChainStep, ChainRunners DEF ChainInv

(* Whatever a handler has read before, however the handlers, the syncs, the *)
(* withdrawals and the crashes interleave, every step moves an order's     *)
(* commission one stage on, with its amount, or leaves it where it is, as  *)
(* long as one caller performs each operation and no task outlives its lock. *)
THEOREM ImplementsPromise ==
    ASSUME OneCallerEach
    PROVE  Spec => PromiseSpec
<1>1. Init => ChainInv /\ Promised!Init
  BY ChainInit
<1>2. ChainInv /\ [Next]_vars => ChainInv' /\ [Promised!Next]_(Promised!vars)
  BY ChainKept, ChainStep DEF PromiseStep
<1> QED BY <1>1, <1>2, PTL DEF Spec, PromiseSpec, Promised!Spec

-----------------------------------------------------------------------------
(* Sums of a column over the rows of one order. *)
LEMMA FlowSumEmpty == ASSUME NEW st PROVE FlowSum(<<>>, st) = 0
<1>1. {i \in DOMAIN <<>> : <<>>[i].status = st} = {}
  OBVIOUS
<1> QED BY <1>1, SumEmpty DEF FlowSum

LEMMA FlowSumOne ==
    ASSUME NEW flows \in Seq(FlowType), Len(flows) = 1, NEW st
    PROVE  FlowSum(flows, st) = IF flows[1].status = st THEN flows[1].amount ELSE 0
<1> DEFINE f == [i \in DOMAIN flows |-> flows[i].amount]
           S == {i \in DOMAIN flows : flows[i].status = st}
<1>1. DOMAIN flows = {1} /\ flows[1] \in FlowType
  BY OneRow
<1>2. f[1] = flows[1].amount /\ f[1] \in Int
  BY <1>1 DEF FlowType
<1>3. S = IF flows[1].status = st THEN {1} ELSE {}
  BY <1>1
<1>4. FlowSum(flows, st) = SumFunctionOnSet(f, S)
  BY DEF FlowSum
<1> HIDE DEF f, S
<1>5. CASE flows[1].status = st
  BY <1>2, <1>3, <1>4, <1>5, SumOne
<1>6. CASE flows[1].status # st
  BY <1>3, <1>4, <1>6, SumEmpty
<1> QED BY <1>5, <1>6

LEMMA DeductSum ==
    ASSUME NEW s \in Seq(Nat)
    PROVE  /\ s = <<>> => SumFunction(s) = 0
           /\ Len(s) = 1 => SumFunction(s) = s[1]
<1>1. CASE s = <<>>
  <2>1. DOMAIN s = {} /\ Len(s) # 1
    BY <1>1
  <2> QED BY <2>1, SumEmpty DEF SumFunction
<1>2. CASE Len(s) = 1
  <2>1. DOMAIN s = {1} /\ s[1] \in Nat /\ s # <<>>
    BY <1>2, OneRow
  <2> QED BY <2>1, SumOne DEF SumFunction
<1> QED BY <1>1, <1>2

(* What the rows of an order sum up to is what its stage says. *)
LEMMA ShapeSums ==
    ASSUME RowsTyped, NEW o \in Orders, ShapeOK(o)
    PROVE  /\ FlowSum(orderFlows[o], "SUCCESS") = Got[o]
           /\ FlowSum(orderFlows[o], "PENDING") = Waiting[o]
           /\ SumFunction(deductFlows[o]) = Back[o]
           /\ Stage[o] \in StageType
<1>1. deductFlows[o] \in Seq(Nat) /\ orderFlows[o] \in Seq(FlowType)
  BY DEF RowsTyped
<1>2. CASE Fresh(o)
  <2>1. Stage[o] = [at |-> "none", amount |-> 0]
    BY <1>2, StageFresh DEF Promised!Nothing
  <2>2. Got[o] = 0 /\ Waiting[o] = 0 /\ Back[o] = 0 /\ Stage[o] \in StageType
    BY <2>1 DEF Got, Waiting, Back, StageType
  <2>3. orderFlows[o] = <<>> /\ deductFlows[o] = <<>>
    BY <1>2 DEF Fresh
  <2> QED BY <1>1, <2>2, <2>3, FlowSumEmpty, DeductSum
<1>3. CASE Held(o)
  <2> DEFINE n == orderFlows[o][1].amount
  <2>1. n \in Nat /\ Stage[o] = [at |-> "promised", amount |-> n]
    BY <1>3, StageHeld
  <2>2. Got[o] = 0 /\ Waiting[o] = n /\ Back[o] = 0 /\ Stage[o] \in StageType
    BY <2>1 DEF Got, Waiting, Back, StageType
  <2>3. Len(orderFlows[o]) = 1 /\ orderFlows[o][1].status = "PENDING" /\ deductFlows[o] = <<>>
    BY <1>3 DEF Held
  <2>4. FlowSum(orderFlows[o], "SUCCESS") = 0 /\ FlowSum(orderFlows[o], "PENDING") = n
    BY <1>1, <2>3, FlowSumOne
  <2> QED BY <1>1, <2>2, <2>3, <2>4, DeductSum
<1>4. CASE Credited(o)
  <2> DEFINE n == orderFlows[o][1].amount
  <2>1. n \in Nat /\ Stage[o] = [at |-> IF deductFlows[o] = <<>> THEN "earned" ELSE "clawed",
                                 amount |-> n]
    BY <1>4, StageCredited
  <2>2. /\ Got[o] = n /\ Waiting[o] = 0 /\ Stage[o] \in StageType
        /\ Back[o] = IF deductFlows[o] = <<>> THEN 0 ELSE n
    BY <2>1 DEF Got, Waiting, Back, StageType
  <2>3. /\ Len(orderFlows[o]) = 1
        /\ orderFlows[o][1].status = "SUCCESS"
        /\ \/ deductFlows[o] = <<>>
           \/ Len(deductFlows[o]) = 1 /\ deductFlows[o][1] = n
    BY <1>4 DEF Credited
  <2>4. FlowSum(orderFlows[o], "SUCCESS") = n /\ FlowSum(orderFlows[o], "PENDING") = 0
    BY <1>1, <2>3, FlowSumOne
  <2>5. SumFunction(deductFlows[o]) = Back[o]
    <3>1. Len(deductFlows[o]) = 1 => deductFlows[o] # <<>>
      BY <1>1, OneRow
    <3> QED BY <1>1, <2>2, <2>3, <3>1, DeductSum
  <2> QED BY <2>2, <2>4, <2>5
<1> QED BY <1>2, <1>3, <1>4 DEF ShapeOK

LEMMA StageTyped == ASSUME ChainInv PROVE Stage \in [Orders -> StageType]
<1>1. \A o \in Orders : Stage[o] \in StageType
  BY ShapeSums DEF ChainInv, ChainRows, TypeInv
<1>2. Stage = [o \in Orders |-> Stage[o]]
  BY DEF Stage
<1> HIDE DEF Stage
<1> QED BY <1>1, <1>2

LEMMA MatchMeansMatch ==
    ASSUME ChainInv, StagesMatch
    PROVE  FlowsMatchAccount
<1>1. ASSUME NEW u \in Users
      PROVE  /\ SumFlows(u, "SUCCESS") = SumFunctionOnSet(Got, OrdersOf(u))
             /\ SumFlows(u, "PENDING") = SumFunctionOnSet(Waiting, OrdersOf(u))
             /\ SumDeducts(u) = SumFunctionOnSet(Back, OrdersOf(u))
  <2> DEFINE fs == [o \in Orders |-> FlowSum(orderFlows[o], "SUCCESS")]
             fp == [o \in Orders |-> FlowSum(orderFlows[o], "PENDING")]
             fd == [o \in Orders |-> SumFunction(deductFlows[o])]
  <2>1. IsFiniteSet(OrdersOf(u)) /\ OrdersOf(u) \subseteq Orders
    BY OrdersFinite
  <2>2. \A o \in OrdersOf(u) : fs[o] = Got[o] /\ fp[o] = Waiting[o] /\ fd[o] = Back[o]
    BY <2>1, ShapeSums DEF ChainInv, ChainRows, TypeInv
  <2>3. /\ SumFlows(u, "SUCCESS") = SumFunctionOnSet(fs, OrdersOf(u))
        /\ SumFlows(u, "PENDING") = SumFunctionOnSet(fp, OrdersOf(u))
        /\ SumDeducts(u) = SumFunctionOnSet(fd, OrdersOf(u))
    BY DEF SumFlows, SumDeducts
  <2> HIDE DEF fs, fp, fd
  <2> QED BY <2>1, <2>2, <2>3, SumSame
<1> QED BY <1>1 DEF FlowsMatchAccount, StagesMatch

LEMMA MatchInit == ASSUME Init PROVE StagesMatch
<1>1. \A o \in Orders : orderFlows[o] = <<>>
  BY DEF Init
<1>2. \A o \in Orders : Got[o] = 0 /\ Back[o] = 0 /\ Waiting[o] = 0
  BY <1>1 DEF Got, Back, Waiting, Stage
<1>3. ASSUME NEW u \in Users
      PROVE  /\ SumFunctionOnSet(Got, OrdersOf(u)) = 0
             /\ SumFunctionOnSet(Back, OrdersOf(u)) = 0
             /\ SumFunctionOnSet(Waiting, OrdersOf(u)) = 0
  BY <1>2, OrdersFinite, SumZero
<1>4. ASSUME NEW u \in Users
      PROVE  /\ account[u].available = 0 /\ account[u].held = 0
             /\ account[u].out = 0 /\ account[u].frozen = 0
  <2>1. account = [v \in Users |-> Promised!ZeroAccount]
    BY Zenon DEF Init
  <2>2. account[u] = Promised!ZeroAccount
    BY <2>1
  <2> QED BY <2>2 DEF Promised!ZeroAccount
<1> QED BY <1>3, <1>4 DEF StagesMatch

(* The flows explain every account in every state of the chain: nothing is *)
(* available that no flow credited, and nothing stays frozen without a     *)
(* PENDING flow or a withdrawal that will release it.                      *)
THEOREM FlowsAlwaysMatch ==
    ASSUME OneCallerEach
    PROVE  Spec => []FlowsMatchAccount
<1>1. Init => ChainInv /\ StagesMatch
  BY ChainInit, MatchInit
<1>2. ChainInv /\ StagesMatch /\ [Next]_vars => StagesMatch'
  BY ChainStep, MatchStep, StageTyped DEF ChainInv, TypeInv, PromiseStep
<1>3. ChainInv /\ StagesMatch => FlowsMatchAccount
  BY MatchMeansMatch
<1> QED BY <1>1, <1>2, <1>3, ChainKept, PTL DEF Spec

-----------------------------------------------------------------------------
(* B07-1.  Records and tasks keep their type; a worker never holds a retry *)
(* counter that has reached the limit, so the one it writes, whatever was  *)
(* written since it loaded the record, does not exceed it.                 *)
LEMMA MinIn == ASSUME NEW S \in SUBSET Nat, S # {} PROVE Min(S) \in S
<1>1. \E n \in S : \A m \in S : n <= m
  BY LeastNat
<1> QED BY <1>1 DEF Min

RecordRow == [status : RecordStatuses, retries : 0 .. MaxRetry]
TaskOn(n) ==
    [pc : {"idle", "create", "list", "mark", "deduct", "deducting", "close", "fail", "adjust"},
     caller : {None, Job, "identify", "reverse_one", "adjust"},
     todo : SUBSET (1 .. n), rec : 0 .. n,
     status : RecordStatuses \cup {None}, retries : 0 .. MaxRetry - 1]

RTypeInv ==
    /\ record \in Seq(RecordRow)
    /\ task \in [Workers -> TaskOn(Len(record))]
    /\ crashes \in 0 .. MaxCrashes /\ voided \in BOOLEAN /\ overlap \in BOOLEAN

LEMMA RTypeInvTypes == ASSUME RTypeInv PROVE RTypeOK
<1> USE ReverseAssumption
<1>1. Len(record) \in Nat /\ DOMAIN record = 1 .. Len(record)
  BY DEF RTypeInv
<1>2. ASSUME NEW w \in Workers
      PROVE  task[w] \in
          [pc : {"idle", "create", "list", "mark", "deduct", "deducting", "close",
                 "fail", "adjust"},
           caller : {None, Job, "identify", "reverse_one", "adjust"},
           todo : SUBSET DOMAIN record, rec : DOMAIN record \cup {0},
           status : RecordStatuses \cup {None}, retries : 0 .. MaxRetry]
  <2>1. task[w] \in TaskOn(Len(record))
    BY DEF RTypeInv
  <2> QED BY <1>1, <2>1 DEF TaskOn
<1>3. task \in [Workers ->
          [pc : {"idle", "create", "list", "mark", "deduct", "deducting", "close",
                 "fail", "adjust"},
           caller : {None, Job, "identify", "reverse_one", "adjust"},
           todo : SUBSET DOMAIN record, rec : DOMAIN record \cup {0},
           status : RecordStatuses \cup {None}, retries : 0 .. MaxRetry]]
  BY <1>2 DEF RTypeInv
<1> QED BY <1>3 DEF RTypeInv, RTypeOK, RecordRow

Sets(w, t) == task' = [task EXCEPT ![w] = t]

LEMMA NoTaskType == ASSUME NEW n \in Nat PROVE NoTask \in TaskOn(n) /\ NoTask.pc = "idle"
  BY ReverseAssumption DEF NoTask, TaskOn

LEMMA StepSets ==
    ASSUME NEW n \in Nat, task \in [Workers -> TaskOn(n)], NEW w \in Workers,
           NEW pc \in {"list", "deducting", "close", "fail"}, Step(w, pc)
    PROVE  \E t \in TaskOn(n) : Sets(w, t) /\ t.pc = pc
<1> DEFINE t == [task[w] EXCEPT !.pc = pc]
<1>1. t \in TaskOn(n) /\ t.pc = pc
  BY DEF TaskOn
<1>2. Sets(w, t)
  BY DEF Sets, Step
<1> HIDE DEF t
<1> QED BY <1>1, <1>2

LEMMA OwnSets ==
    ASSUME NEW n \in Nat, NEW w \in Workers,
           NEW c \in {None, Job, "identify", "reverse_one", "adjust"},
           NEW pc \in {"create", "mark", "adjust"}, NEW todo \in SUBSET (1 .. n), NEW r \in 0 .. n,
           NEW st \in RecordStatuses \cup {None}, NEW k \in 0 .. MaxRetry - 1,
           Own(w, c, pc, todo, r, st, k)
    PROVE  \E t \in TaskOn(n) : Sets(w, t) /\ t.pc = pc /\ t.rec = r /\ t.caller = c
<1> DEFINE t == [pc |-> pc, caller |-> c, todo |-> todo, rec |-> r,
                 status |-> st, retries |-> k]
<1>1. t \in TaskOn(n) /\ t.pc = pc /\ t.rec = r /\ t.caller = c
  BY DEF TaskOn
<1>2. Sets(w, t)
  BY DEF Sets, Own
<1> HIDE DEF t
<1> QED BY <1>1, <1>2

LEMMA ExecuteSets ==
    ASSUME NEW n \in Nat, NEW w \in Workers, NEW c \in {None, Job, "identify", "reverse_one", "adjust"},
           NEW todo \in SUBSET (1 .. n), Execute(w, c, todo)
    PROVE  \E t \in TaskOn(n) : Sets(w, t) /\ t.pc \in {"idle", "mark"}
<1>1. CASE todo = {}
  BY <1>1, NoTaskType DEF Execute, Sets
<1>2. CASE todo # {}
  <2> DEFINE r == Min(todo)
  <2>1. r \in 0 .. n
    <3>1. todo \in SUBSET Nat
      OBVIOUS
    <3>2. r \in todo
      BY <1>2, <3>1, MinIn
    <3> HIDE DEF r
    <3>3. r \in 1 .. n
      BY <3>2
    <3> QED BY <3>3
  <2>2. Own(w, c, "mark", todo \ {r}, r, "IDENTIFIED", 0)
    BY <1>2 DEF Execute
  <2> DEFINE rest == todo \ {r}
  <2>3. rest \in SUBSET (1 .. n) /\ Own(w, c, "mark", rest, r, "IDENTIFIED", 0)
    BY <2>2
  <2>4. "IDENTIFIED" \in RecordStatuses \cup {None} /\ 0 \in 0 .. MaxRetry - 1
    BY ReverseAssumption DEF RecordStatuses
  <2> HIDE DEF rest, r
  <2>5. \E t \in TaskOn(n) : Sets(w, t) /\ t.pc = "mark" /\ t.rec = r /\ t.caller = c
    BY <2>1, <2>3, <2>4, OwnSets
  <2> QED BY <2>5
<1> QED BY <1>1, <1>2

(* One worker's task changes, and the records keep or grow. *)
LEMMA TaskSet ==
    ASSUME RTypeInv, NEW w \in Workers, NEW t \in TaskOn(Len(record)), Sets(w, t),
           record' \in Seq(RecordRow), Len(record') \in {Len(record), Len(record) + 1},
           crashes' \in 0 .. MaxCrashes, voided' \in BOOLEAN, overlap' \in BOOLEAN
    PROVE  RTypeInv'
<1>1. Len(record) \in Nat /\ Len(record') \in Nat
  BY DEF RTypeInv
<1>2. \A j \in TaskOn(Len(record)) : j \in TaskOn(Len(record'))
  BY <1>1 DEF TaskOn
<1>3. task' \in [Workers -> TaskOn(Len(record'))]
  BY <1>2 DEF RTypeInv, Sets
<1> QED BY <1>3 DEF RTypeInv

(* A field of one record is overwritten. *)
LEMMA StatusWritten ==
    ASSUME RTypeInv, NEW r, NEW st \in RecordStatuses,
           record' = [record EXCEPT ![r].status = st]
    PROVE  record' \in Seq(RecordRow) /\ Len(record') = Len(record)
<1> DEFINE x == [record[r] EXCEPT !.status = st]
<1>1. record \in Seq(RecordRow) /\ record' = [record EXCEPT ![r] = x]
  BY DEF RTypeInv
<1>2. r \in DOMAIN record => record[r] \in RecordRow
  BY <1>1
<1>3. r \in DOMAIN record => x \in RecordRow
  BY <1>2 DEF RecordRow
<1> HIDE DEF x
<1>4. DOMAIN record' = 1 .. Len(record) /\ Len(record) \in Nat
  BY <1>1
<1> QED BY <1>1, <1>3, <1>4, ReplaceRow

LEMMA RetriesWritten ==
    ASSUME RTypeInv, NEW r, NEW k \in 0 .. MaxRetry,
           record' = [record EXCEPT ![r].retries = k]
    PROVE  record' \in Seq(RecordRow) /\ Len(record') = Len(record)
<1> DEFINE x == [record[r] EXCEPT !.retries = k]
<1>1. record \in Seq(RecordRow) /\ record' = [record EXCEPT ![r] = x]
  BY DEF RTypeInv
<1>2. r \in DOMAIN record => record[r] \in RecordRow
  BY <1>1
<1>3. r \in DOMAIN record => x \in RecordRow
  BY <1>2 DEF RecordRow
<1> HIDE DEF x
<1>4. DOMAIN record' = 1 .. Len(record) /\ Len(record) \in Nat
  BY <1>1
<1> QED BY <1>1, <1>3, <1>4, ReplaceRow

(* Each action's task, in terms the invariants below speak of. *)
LEMMA ContinueSets ==
    ASSUME RTypeInv, NEW w \in Workers
    PROVE  /\ CreateRecord(w) => \E t \in TaskOn(Len(record)) : Sets(w, t) /\ t.pc \in {"idle", "list"}
           /\ MarkFrozen(w) => \E t \in TaskOn(Len(record)) : Sets(w, t) /\ t.pc = "deduct"
           /\ Deduct(w) => \E t \in TaskOn(Len(record)) : Sets(w, t) /\ t.pc \in {"deducting", "fail"}
           /\ DeductStep(w) => \E t \in TaskOn(Len(record)) : Sets(w, t) /\ t.pc = Outcome(w)
           /\ AdjustWrite(w) => Sets(w, NoTask) /\ NoTask \in TaskOn(Len(record))
           /\ Die(w) => Sets(w, NoTask)
<1> DEFINE n == Len(record)
<1>1. n \in Nat /\ task \in [Workers -> TaskOn(n)]
  BY DEF RTypeInv
<1> HIDE DEF n
<1>2. ASSUME CreateRecord(w) PROVE \E t \in TaskOn(n) : Sets(w, t) /\ t.pc \in {"idle", "list"}
  <2>1. CASE Step(w, "list")
    BY <1>1, <2>1, StepSets
  <2>2. CASE Sets(w, NoTask)
    BY <1>1, <2>2, NoTaskType
  <2> QED BY <1>2, <2>1, <2>2 DEF CreateRecord, Sets
<1>3. ASSUME MarkFrozen(w) PROVE \E t \in TaskOn(n) : Sets(w, t) /\ t.pc = "deduct"
  <2> DEFINE t == [task[w] EXCEPT !.pc = "deduct", !.status = None]
  <2>1. t \in TaskOn(n) /\ t.pc = "deduct"
    BY <1>1 DEF TaskOn
  <2>2. Sets(w, t)
    BY <1>3 DEF Sets, MarkFrozen
  <2> HIDE DEF t
  <2> QED BY <2>1, <2>2
<1>4. ASSUME Deduct(w) PROVE \E t \in TaskOn(n) : Sets(w, t) /\ t.pc \in {"deducting", "fail"}
  BY <1>1, <1>4, StepSets DEF Deduct
<1>5. ASSUME DeductStep(w) PROVE \E t \in TaskOn(n) : Sets(w, t) /\ t.pc = Outcome(w)
  <2>1. Outcome(w) \in {"deducting", "close", "fail"} /\ Step(w, Outcome(w))
    BY <1>5 DEF DeductStep, Outcome
  <2> QED BY <1>1, <2>1, StepSets
<1>6. NoTask \in TaskOn(n)
  BY <1>1, NoTaskType
<1> QED BY <1>2, <1>3, <1>4, <1>5, <1>6 DEF AdjustWrite, Die, Sets, n

LEMMA ListedRecords ==
    ASSUME RTypeInv
    PROVE  Listed \in SUBSET (1 .. Len(record))
  BY DEF RTypeInv, Listed

(* The other steps of a task: it starts, or takes its next record. *)
LEMMA TakeSets ==
    ASSUME RTypeInv, NEW w \in Workers
    PROVE  /\ \A c : Identify(w, c) =>
                 \E t \in TaskOn(Len(record)) : Sets(w, t) /\ t.pc = "create"
           /\ \A c : List(w, c) =>
                 \E t \in TaskOn(Len(record)) : Sets(w, t) /\ t.pc \in {"idle", "mark"}
           /\ \A r \in DOMAIN record : Load(w, r) =>
                 \E t \in TaskOn(Len(record)) : Sets(w, t) /\ t.pc = "mark"
           /\ \A r \in DOMAIN record : AdjustRead(w, r) =>
                 \E t \in TaskOn(Len(record)) : Sets(w, t) /\ t.pc = "adjust"
           /\ Close(w) \/ Fail(w) =>
                 \E t \in TaskOn(Len(record)) : Sets(w, t) /\ t.pc \in {"idle", "mark"}
<1> DEFINE n == Len(record)
<1>1. n \in Nat /\ task[w] \in TaskOn(n) /\ DOMAIN record = 1 .. n
      /\ 0 \in 0 .. MaxRetry - 1 /\ None \in RecordStatuses \cup {None}
  BY ReverseAssumption DEF RTypeInv
<1>2. Listed \in SUBSET (1 .. n)
  BY ListedRecords
<1>3. task[w].caller \in {None, Job, "identify", "reverse_one", "adjust"}
      /\ task[w].todo \in SUBSET (1 .. n)
  BY <1>1 DEF TaskOn
<1>4. ASSUME NEW r \in DOMAIN record PROVE record[r] \in RecordRow
  BY <1>4 DEF RTypeInv
<1> HIDE DEF n
<1>5. ASSUME NEW c, Identify(w, c)
      PROVE  \E t \in TaskOn(n) : Sets(w, t) /\ t.pc = "create"
  <2>1. c \in {None, Job, "identify", "reverse_one", "adjust"} /\ Own(w, c, "create", {}, 0, None, 0)
    BY <1>5 DEF Identify
  <2>2. {} \in SUBSET (1 .. n) /\ 0 \in 0 .. n
    BY <1>1
  <2> DEFINE todo == {}
  <2>3. todo \in SUBSET (1 .. n) /\ Own(w, c, "create", todo, 0, None, 0)
    BY <2>1, <2>2
  <2> HIDE DEF todo
  <2> QED BY <1>1, <2>1, <2>2, <2>3, OwnSets
<1>6. ASSUME NEW c, List(w, c)
      PROVE  \E t \in TaskOn(n) : Sets(w, t) /\ t.pc \in {"idle", "mark"}
  <2>1. c \in {None, Job, "identify", "reverse_one", "adjust"} /\ Execute(w, c, Listed)
    BY <1>3, <1>6 DEF List
  <2> QED BY <1>1, <1>2, <2>1, ExecuteSets
<1>7. ASSUME NEW r \in DOMAIN record, Load(w, r)
      PROVE  \E t \in TaskOn(n) : Sets(w, t) /\ t.pc = "mark"
  <2> DEFINE todo == {}
             k == record[r].retries
             st == record[r].status
  <2>1. Own(w, "reverse_one", "mark", todo, r, st, k) /\ k < MaxRetry
    BY <1>7 DEF Load
  <2>2. todo \in SUBSET (1 .. n) /\ r \in 0 .. n
    BY <1>1
  <2>3. k \in 0 .. MaxRetry - 1 /\ st \in RecordStatuses \cup {None}
    BY <1>4, <2>1, ReverseAssumption DEF RecordRow
  <2> HIDE DEF todo, k, st
  <2> QED BY <1>1, <2>1, <2>2, <2>3, OwnSets
<1>8. ASSUME NEW r \in DOMAIN record, AdjustRead(w, r)
      PROVE  \E t \in TaskOn(n) : Sets(w, t) /\ t.pc = "adjust"
  <2> DEFINE todo == {}
  <2>1. Own(w, "adjust", "adjust", todo, r, None, 0)
    BY <1>8 DEF AdjustRead
  <2>2. todo \in SUBSET (1 .. n) /\ r \in 0 .. n
    BY <1>1
  <2> HIDE DEF todo
  <2> QED BY <1>1, <2>1, <2>2, OwnSets
<1>9. ASSUME Close(w) \/ Fail(w)
      PROVE  \E t \in TaskOn(n) : Sets(w, t) /\ t.pc \in {"idle", "mark"}
  <2>1. Execute(w, task[w].caller, task[w].todo)
    BY <1>9 DEF Close, Fail
  <2> QED BY <1>1, <1>3, <2>1, ExecuteSets
<1> QED BY <1>5, <1>6, <1>7, <1>8, <1>9 DEF n

(* One step of ReverseCommission, named for the case analyses below. *)
LEMMA RStepCases ==
    ASSUME [RNext]_allVars
    PROVE  \/ UNCHANGED allVars
           \/ Elsewhere
           \/ \E w \in Workers :
                 \/ \E c \in {Job, "identify"} : Identify(w, c)
                 \/ \E c : List(w, c)
                 \/ \E r \in DOMAIN record : Load(w, r) \/ AdjustRead(w, r)
                 \/ CreateRecord(w) \/ MarkFrozen(w) \/ Deduct(w) \/ DeductStep(w)
                 \/ Close(w) \/ Fail(w) \/ AdjustWrite(w) \/ Die(w)
  BY DEF RNext, StartJob, Continue

LEMMA RTypeStep == RTypeInv /\ [RNext]_allVars => RTypeInv'
<1> SUFFICES ASSUME RTypeInv, [RNext]_allVars PROVE RTypeInv'
  OBVIOUS
<1> USE ReverseAssumption
<1>0. Len(record) \in Nat /\ record \in Seq(RecordRow) /\ crashes \in 0 .. MaxCrashes
      /\ voided \in BOOLEAN /\ overlap \in BOOLEAN
  BY DEF RTypeInv
<1>1. CASE UNCHANGED <<record, task, crashes, voided, overlap>>
  BY <1>1 DEF RTypeInv
<1>2. ASSUME NEW w \in Workers, NEW t \in TaskOn(Len(record)), Sets(w, t),
             UNCHANGED <<record, crashes>>, voided' \in BOOLEAN, overlap' \in BOOLEAN
      PROVE  RTypeInv'
  BY <1>0, <1>2, TaskSet
<1>3. ASSUME NEW w \in Workers,
             \/ \E c \in {Job, "identify"} : Identify(w, c)
             \/ \E c : List(w, c)
             \/ \E r \in DOMAIN record : Load(w, r) \/ AdjustRead(w, r)
      PROVE  RTypeInv'
  <2>1. UNCHANGED <<record, crashes, voided, overlap>>
    BY <1>3 DEF Identify, List, Load, AdjustRead
  <2>2. \E t \in TaskOn(Len(record)) : Sets(w, t)
    BY <1>3, TakeSets
  <2> QED BY <1>0, <1>2, <2>1, <2>2
<1>4. ASSUME NEW w \in Workers, CreateRecord(w) PROVE RTypeInv'
  <2> DEFINE x == [status |-> "IDENTIFIED", retries |-> 0]
  <2>1. record' = Append(record, x) /\ UNCHANGED <<crashes, voided, overlap>>
    BY <1>4 DEF CreateRecord
  <2>2. x \in RecordRow
    BY DEF RecordRow, RecordStatuses
  <2> HIDE DEF x
  <2>3. record' \in Seq(RecordRow) /\ Len(record') = Len(record) + 1
    BY <1>0, <2>1, <2>2
  <2>4. \E t \in TaskOn(Len(record)) : Sets(w, t)
    BY <1>4, ContinueSets
  <2> QED BY <1>0, <2>1, <2>3, <2>4, TaskSet
<1>5. ASSUME NEW w \in Workers, MarkFrozen(w) PROVE RTypeInv'
  <2>1. "FROZEN" \in RecordStatuses
    BY DEF RecordStatuses
  <2>2. record' \in Seq(RecordRow) /\ Len(record') = Len(record)
    <3>1. record' = record \/ record' = [record EXCEPT ![task[w].rec].status = "FROZEN"]
      BY <1>5 DEF MarkFrozen
    <3> QED BY <1>0, <2>1, <3>1, StatusWritten
  <2>3. \E t \in TaskOn(Len(record)) : Sets(w, t)
    BY <1>5, ContinueSets
  <2>4. UNCHANGED <<crashes, voided, overlap>>
    BY <1>5 DEF MarkFrozen
  <2> QED BY <1>0, <2>2, <2>3, <2>4, TaskSet
<1>6. ASSUME NEW w \in Workers, Deduct(w) \/ DeductStep(w) PROVE RTypeInv'
  <2>1. UNCHANGED <<record, crashes>> /\ voided' \in BOOLEAN /\ overlap' \in BOOLEAN
    BY <1>0, <1>6 DEF Deduct, DeductStep
  <2>2. \E t \in TaskOn(Len(record)) : Sets(w, t)
    BY <1>6, ContinueSets
  <2> QED BY <1>2, <2>1, <2>2
<1>7. ASSUME NEW w \in Workers, Close(w) \/ AdjustWrite(w) PROVE RTypeInv'
  <2>1. "CLAWBACK_DONE" \in RecordStatuses /\ "ADJUSTED" \in RecordStatuses
    BY DEF RecordStatuses
  <2>2. record' \in Seq(RecordRow) /\ Len(record') = Len(record)
    <3>1. \/ record' = [record EXCEPT ![task[w].rec].status = "CLAWBACK_DONE"]
          \/ record' = [record EXCEPT ![task[w].rec].status = "ADJUSTED"]
      BY <1>7 DEF Close, AdjustWrite
    <3> QED BY <1>0, <2>1, <3>1, StatusWritten
  <2>3. \E t \in TaskOn(Len(record)) : Sets(w, t)
    BY <1>7, ContinueSets, TakeSets
  <2>4. UNCHANGED <<crashes, voided, overlap>>
    BY <1>7 DEF Close, AdjustWrite
  <2> QED BY <1>0, <2>2, <2>3, <2>4, TaskSet
<1>8. ASSUME NEW w \in Workers, Fail(w) PROVE RTypeInv'
  <2> DEFINE k == task[w].retries + 1
  <2>1. k \in 0 .. MaxRetry
    <3>1. task[w] \in TaskOn(Len(record))
      BY DEF RTypeInv
    <3> QED BY <3>1 DEF TaskOn
  <2>2. record' = [record EXCEPT ![task[w].rec].retries = k]
    BY <1>8 DEF Fail
  <2> HIDE DEF k
  <2>3. record' \in Seq(RecordRow) /\ Len(record') = Len(record)
    BY <2>1, <2>2, RetriesWritten
  <2>4. \E t \in TaskOn(Len(record)) : Sets(w, t)
    BY <1>8, TakeSets
  <2>5. UNCHANGED <<crashes, voided, overlap>>
    BY <1>8 DEF Fail
  <2> QED BY <1>0, <2>3, <2>4, <2>5, TaskSet
<1>9. ASSUME NEW w \in Workers, Die(w) PROVE RTypeInv'
  <2>1. Sets(w, NoTask) /\ NoTask \in TaskOn(Len(record))
    BY <1>0, <1>9, ContinueSets, NoTaskType
  <2>2. UNCHANGED <<record, voided, overlap>> /\ crashes' \in 0 .. MaxCrashes
    BY <1>0, <1>9 DEF Die
  <2> QED BY <1>0, <2>1, <2>2, TaskSet
<1>10. CASE UNCHANGED allVars \/ Elsewhere
  BY <1>1, <1>10 DEF allVars, Elsewhere, Around
<1> QED BY <1>3, <1>4, <1>5, <1>6, <1>7, <1>8, <1>9, <1>10, RStepCases

LEMMA RTyped == RInit /\ [][RNext]_allVars => []RTypeInv
<1>1. RInit => RTypeInv
  <2> SUFFICES ASSUME RInit PROVE RTypeInv
    OBVIOUS
  <2>1. record = <<>> /\ record \in Seq(RecordRow) /\ Len(record) = 0
    BY DEF RInit
  <2>2. NoTask \in TaskOn(Len(record))
    BY <2>1, NoTaskType
  <2>3. task \in [Workers -> TaskOn(Len(record))]
    BY <2>2 DEF RInit
  <2>4. crashes \in 0 .. MaxCrashes /\ voided \in BOOLEAN /\ overlap \in BOOLEAN
    <3>1. crashes = 0 /\ voided = FALSE /\ overlap = FALSE
      BY Zenon DEF RInit
    <3>2. crashes \in 0 .. MaxCrashes
      BY <3>1, ReverseAssumption
    <3>3. voided \in BOOLEAN /\ overlap \in BOOLEAN
      BY <3>1
    <3> QED BY <3>2, <3>3
  <2> QED BY <2>1, <2>3, <2>4 DEF RTypeInv
<1> QED BY <1>1, RTypeStep, PTL

(* A record of a reversal is tried at most MAX_RETRY_COUNT times, whatever  *)
(* workers of the task and of the endpoints count from the number they     *)
(* have loaded, adjust or die; no worker points at a record that is not    *)
(* there.                                                                  *)
THEOREM RecordsTyped == RSpec => []RTypeOK
<1>1. RTypeInv => RTypeOK
  BY RTypeInvTypes
<1> QED BY <1>1, RTyped, PTL DEF RSpec

-----------------------------------------------------------------------------
(* The deduction of B07-1 is the only one that "deducting" workers perform. *)
Reversers == {"reverse_b07_1", "reverse_one"}

JobsFit ==
    \A w \in Workers :
        IF task[w].pc = "deducting"
        THEN /\ job[w].pc \in {"load", "write"} /\ job[w].caller \in Reversers
             /\ job[w].order = RefundedOrder
        ELSE /\ job[w].caller \notin Reversers
             /\ task[w].pc # "idle" => job[w] = Idle

LEMMA FollowedOrder == RefundedOrder \in Orders
  BY ReverseAssumption DEF RefundedOrder

(* The commission's part of a step is a step of CommissionSettlement, or a *)
(* death in B07-1 code.                                                    *)
LEMMA CommissionPart ==
    ASSUME [RNext]_allVars
    PROVE  \/ [Next]_vars
           \/ \E w \in Workers :
                 Finish(w) /\ UNCHANGED <<order, orderFlows, deductFlows, settlement, account>>
<1>0. RefundedOrder \in Orders
  BY FollowedOrder
<1>1. CASE UNCHANGED allVars
  BY <1>1 DEF allVars, vars
<1>2. CASE Elsewhere
  BY <1>0, <1>2 DEF Elsewhere, Next
<1>3. ASSUME NEW w \in Workers,
             \/ \E c \in {Job, "identify"} : Identify(w, c)
             \/ \E c : List(w, c)
             \/ \E r \in DOMAIN record : Load(w, r) \/ AdjustRead(w, r)
             \/ CreateRecord(w) \/ MarkFrozen(w) \/ Close(w) \/ Fail(w) \/ AdjustWrite(w)
      PROVE  [Next]_vars
  BY <1>3 DEF Identify, List, Load, AdjustRead, CreateRecord, MarkFrozen, Close, Fail,
              AdjustWrite, commission, vars
<1>4. ASSUME NEW w \in Workers, Deduct(w) PROVE [Next]_vars
  <2>1. CASE Begin(w, task[w].caller, RefundedOrder)
    <3>1. task[w].caller \in Callers
      BY <2>1 DEF Begin, SettleBegin, RefundBegin, ReverseBegin, FreezeBegin, UnfreezeBegin,
                  PaidBegin, CanStart
    <3> QED BY <1>0, <2>1, <3>1 DEF Next
  <2>2. CASE UNCHANGED commission
    BY <2>2 DEF commission, vars
  <2> QED BY <1>4, <2>1, <2>2 DEF Deduct
<1>5. ASSUME NEW w \in Workers, DeductStep(w) PROVE [Next]_vars
  BY <1>5 DEF DeductStep, Next
<1>6. ASSUME NEW w \in Workers, Die(w)
      PROVE  Finish(w) /\ UNCHANGED <<order, orderFlows, deductFlows, settlement, account>>
  BY <1>6 DEF Die
<1> QED BY <1>1, <1>2, <1>3, <1>4, <1>5, <1>6, RStepCases

LEMMA CommissionTyped == RInit /\ [][RNext]_allVars => []TypeInv
<1>1. RInit => TypeInv
  <2> SUFFICES ASSUME RInit PROVE TypeInv
    OBVIOUS
  <2> DEFINE a == [Promised!ZeroAccount EXCEPT !.available = Others, !.total = Others]
  <2>1. a \in AccountType
    <3>1. Promised!ZeroAccount \in AccountType
      BY DEF Promised!ZeroAccount, AccountType
    <3> DEFINE Filled(z) == [z EXCEPT !.available = Others, !.total = Others]
    <3>2. ASSUME NEW z \in AccountType PROVE Filled(z) \in AccountType
      <4>1. Others \in Nat /\ Others \in Int
        BY ReverseAssumption
      <4> QED BY <4>1 DEF AccountType
    <3> QED BY Zenon, <3>1, <3>2
  <2>2. account = [u \in Users |-> a]
    BY Zenon DEF RInit
  <2> HIDE DEF a
  <2>3. account \in [Users -> AccountType]
    BY <2>1, <2>2
  <2>4. /\ order \in [Orders -> [status : {"PENDING"}, commission : Commissions]]
        /\ orderFlows = [o \in Orders |-> <<>>] /\ deductFlows = [o \in Orders |-> <<>>]
        /\ settlement = [o \in Orders |-> <<>>] /\ job = [w \in Workers |-> Idle]
    BY Zenon DEF RInit
  <2>5. order \in [Orders -> OrderType]
    <3>1. {"PENDING"} \subseteq OrderStatuses
      BY DEF OrderStatuses
    <3> QED BY <2>4, <3>1, ConstantsAssumption DEF OrderType
  <2>6. RowsTyped
    BY <2>3, <2>4, <2>5 DEF RowsTyped
  <2> QED BY <2>4, <2>6, IdleJob DEF TypeInv, JobsTyped, LoadFindsFlow
<1>2. TypeInv /\ [RNext]_allVars => TypeInv'
  <2> SUFFICES ASSUME TypeInv, [RNext]_allVars PROVE TypeInv'
    OBVIOUS
  <2>1. ASSUME NEW w \in Workers, Finish(w),
               UNCHANGED <<order, orderFlows, deductFlows, settlement, account>>
        PROVE  TypeInv'
    <3>1. RowsTyped' /\ FlowsKept
      BY <2>1, RowsUntouched DEF TypeInv, FlowsKept
    <3> QED BY <2>1, <3>1, WriteStep
  <2> QED BY <2>1, CommissionPart, StepTyped
<1> QED BY <1>1, <1>2, PTL

(* What a worker does to its job: it finishes, goes on with it, or takes    *)
(* one up.                                                                 *)
LEMMA JobGoesOn ==
    ASSUME JobsTyped, NEW w \in Workers, HandlerStep(w)
    PROVE  /\ job'[w] = Idle \/ (job'[w].caller = job[w].caller /\ job'[w].order = job[w].order
                                 /\ job'[w].pc = "write")
           /\ \A v \in Workers : v # w => job'[v] = job[v]
<1>1. job[w] \in GoodJob
  BY DEF JobsTyped
<1>2. CASE Finish(w)
  BY <1>2 DEF Finish, JobsTyped
<1>3. CASE Goto(w, "write")
  <2>1. job' = [job EXCEPT ![w] = [job[w] EXCEPT !.pc = "write"]]
    BY <1>3 DEF Goto
  <2>2. /\ [job[w] EXCEPT !.pc = "write"].caller = job[w].caller
        /\ [job[w] EXCEPT !.pc = "write"].order = job[w].order
        /\ [job[w] EXCEPT !.pc = "write"].pc = "write"
    BY <1>1 DEF GoodJob, JobType
  <2> QED BY <2>1, <2>2 DEF JobsTyped
<1>4. CASE ReverseLoad(w)
  <2> DEFINE o == job[w].order
             a == account[Owner[o]]
             j == [job[w] EXCEPT !.pc = "write", !.amount = orderFlows[o][1].amount,
                                 !.seen = orderFlows[o][1].status,
                                 !.read = [available |-> a.available, total |-> a.total]]
  <2>1. Finish(w) \/ job' = [job EXCEPT ![w] = j]
    BY <1>4 DEF ReverseLoad, JobsTyped
  <2>2. j.caller = job[w].caller /\ j.order = job[w].order /\ j.pc = "write"
    BY <1>1 DEF GoodJob, JobType
  <2> HIDE DEF j
  <2> QED BY <1>2, <2>1, <2>2 DEF JobsTyped
<1> QED BY <1>2, <1>3, <1>4 DEF HandlerStep, SettleCalibrate, SettleWrite, DeductWrite, OpLock,
                                FreezeWrite, UnfreezeWrite, PaidWrite

LEMMA JobTakenUp ==
    ASSUME JobsTyped, NEW w \in Workers, NEW c \in Callers, NEW o \in Orders, Begin(w, c, o)
    PROVE  /\ job[w] = Idle
           /\ job'[w].caller = c /\ job'[w].order = o
           /\ \A v \in Workers : v # w => job'[v] = job[v]
<1>1. job[w] = Idle
  BY DEF Begin, SettleBegin, RefundBegin, ReverseBegin, FreezeBegin, UnfreezeBegin,
         PaidBegin, CanStart
<1>2. \E pc, n, seen : Start(w, c, o, pc, n, seen)
  BY DEF Begin, SettleBegin, RefundBegin, ReverseBegin, FreezeBegin, UnfreezeBegin,
         PaidBegin
<1>3. job'[w].caller = c /\ job'[w].order = o /\ \A v \in Workers : v # w => job'[v] = job[v]
  BY <1>2 DEF Start, JobsTyped
<1> QED BY <1>1, <1>3

LEMMA ReverserOps ==
    ASSUME NEW c
    PROVE  /\ c \in Reversers => OpOf[c] = "reverse" /\ c # None
           /\ c \in Callers /\ OpOf[c] = "reverse" => c \in Reversers
           /\ Idle.caller \notin Reversers
<1> USE ConstantsAssumption
<1>1. c \in Reversers => c \in Tasks \cup Endpoints
  BY DEF Reversers, Tasks, Endpoints
<1>2. None \notin Reversers
  BY DEF Reversers, Tasks, Endpoints
<1>3. Idle.caller = None
  BY DEF Idle
<1> QED BY <1>1, <1>2, <1>3, OpTable, CallerOf DEF Reversers

(* A reversal validates, loads and writes; it takes no other step. *)
LEMMA ReverseSteps ==
    ASSUME JobsFit, JobsTyped, NEW w \in Workers, task[w].pc = "deducting", HandlerStep(w)
    PROVE  ReverseLoad(w) \/ (DeductWrite(w, "reverse") /\ job[w].pc = "write")
<1>1. job[w].pc \in {"load", "write"} /\ job[w].caller \in Reversers
  BY DEF JobsFit
<1>2. OpOf[job[w].caller] = "reverse"
  BY <1>1, ReverserOps
<1> QED BY <1>1, <1>2 DEF HandlerStep, SettleCalibrate, SettleWrite, DeductWrite, OpLock,
                          FreezeWrite, UnfreezeWrite, PaidWrite, AtWrite

LEMMA DeductBegins ==
    ASSUME RTypeInv, NEW w \in Workers, Begin(w, task[w].caller, RefundedOrder)
    PROVE  /\ task[w].caller \in Callers /\ task[w].caller \in Reversers
           /\ ReverseBegin(w, task[w].caller, RefundedOrder)
<1> DEFINE c == task[w].caller
<1>1. c \in Callers
  BY DEF Begin, SettleBegin, RefundBegin, ReverseBegin, FreezeBegin, UnfreezeBegin,
         PaidBegin, CanStart
<1>2. c \in {None, Job, "identify", "reverse_one", "adjust"}
  <2>1. task[w] \in TaskOn(Len(record))
    BY DEF RTypeInv
  <2> QED BY <2>1 DEF TaskOn
<1>3. c \in Reversers
  BY <1>1, <1>2, ConstantsAssumption DEF Reversers, Tasks, Endpoints, Job
<1>4. OpOf[c] = "reverse"
  BY <1>3, ReverserOps
<1> QED BY <1>1, <1>3, <1>4 DEF Begin, SettleBegin, RefundBegin, FreezeBegin, UnfreezeBegin,
                          PaidBegin, CanStart

FitsTask(t, j) ==
    IF t.pc = "deducting"
    THEN j.pc \in {"load", "write"} /\ j.caller \in Reversers /\ j.order = RefundedOrder
    ELSE j.caller \notin Reversers /\ (t.pc # "idle" => j = Idle)

LEMMA FitByWorker == JobsFit <=> \A w \in Workers : FitsTask(task[w], job[w])
  BY DEF JobsFit, FitsTask

LEMMA FitKept ==
    ASSUME JobsFit, RTypeInv, NEW w \in Workers, NEW t, Sets(w, t), FitsTask(t, job'[w]),
           \A v \in Workers : v # w => job'[v] = job[v]
    PROVE  JobsFit'
<1> SUFFICES ASSUME NEW v \in Workers PROVE FitsTask(task'[v], job'[v])
  BY DEF JobsFit, FitsTask
<1>1. task' = [task EXCEPT ![w] = t] /\ task \in [Workers -> TaskOn(Len(record))]
  BY DEF Sets, RTypeInv
<1>2. CASE v = w
  BY <1>1, <1>2
<1>3. CASE v # w
  BY <1>1, <1>3, FitByWorker
<1> QED BY <1>2, <1>3

LEMMA FitStep ==
    ASSUME RTypeInv, TypeInv, JobsFit, [RNext]_allVars
    PROVE  JobsFit'
<1>0. JobsTyped /\ RefundedOrder \in Orders /\ Len(record) \in Nat
      /\ task \in [Workers -> TaskOn(Len(record))]
  BY FollowedOrder DEF TypeInv, RTypeInv
<1>1. CASE UNCHANGED <<task, job>>
  BY <1>1 DEF JobsFit
(* A job of another operation goes on, ends or is taken up.                *)
<1>2. ASSUME UNCHANGED task, NEW w \in Workers, task[w] = NoTask,
             job'[w].caller \notin Reversers, \A v \in Workers : v # w => job'[v] = job[v]
      PROVE  JobsFit'
  <2>1. task[w].pc = "idle"
    BY <1>2 DEF NoTask
  <2> QED BY <1>2, <2>1 DEF JobsFit
<1>3. CASE Elsewhere
  <2>1. UNCHANGED task
    BY <1>3 DEF Elsewhere, Around
  <2>2. ASSUME NEW s \in OrderStatuses, OrderSync(RefundedOrder, s) PROVE JobsFit'
    BY <1>1, <2>1, <2>2 DEF OrderSync
  <2>3. ASSUME NEW u \in Users, Withdraw(u) PROVE JobsFit'
    BY <1>1, <2>1, <2>3 DEF Withdraw
  <2>4. ASSUME NEW w \in Workers, task[w] = NoTask, HandlerStep(w) PROVE JobsFit'
    <3>1. task[w].pc = "idle"
      BY <2>4 DEF NoTask
    <3>2. job[w].caller \notin Reversers
      BY <3>1 DEF JobsFit
    <3>3. job'[w].caller \notin Reversers
      BY <1>0, <2>4, <3>2, JobGoesOn, ReverserOps
    <3> QED BY <1>0, <1>2, <2>1, <2>4, <3>3, JobGoesOn
  <2>5. ASSUME NEW w \in Workers, NEW c \in Callers, OpOf[c] # "reverse", Free(w),
               Begin(w, c, RefundedOrder)
        PROVE  JobsFit'
    <3>1. task[w] = NoTask
      BY <2>5 DEF Free
    <3>2. job'[w].caller = c /\ c \notin Reversers
      BY <1>0, <2>5, JobTakenUp, ReverserOps
    <3> QED BY <1>0, <1>2, <2>1, <2>5, <3>1, <3>2, JobTakenUp
  <2> QED BY <1>3, <2>2, <2>3, <2>4, <2>5 DEF Elsewhere
(* A task goes on without a job.                                           *)
<1>4. ASSUME NEW w \in Workers, NEW t, Sets(w, t), t.pc # "deducting", job'[w] = Idle,
             \A v \in Workers : v # w => job'[v] = job[v]
      PROVE  JobsFit'
  BY <1>4, FitKept, ReverserOps DEF FitsTask
<1>5. ASSUME NEW w \in Workers,
             \/ \E c \in {Job, "identify"} : Identify(w, c)
             \/ \E c : List(w, c)
             \/ \E r \in DOMAIN record : Load(w, r) \/ AdjustRead(w, r)
      PROVE  JobsFit'
  <2>1. UNCHANGED job
    BY <1>5 DEF Identify, List, Load, AdjustRead, commission
  <2>2. job[w] = Idle \/ task[w].pc = "list"
    BY <1>5 DEF Identify, List, Load, AdjustRead, MayRun, Free
  <2>3. job'[w] = Idle
    BY <2>1, <2>2 DEF JobsFit
  <2>4. \E t \in TaskOn(Len(record)) : Sets(w, t) /\ t.pc # "deducting"
    BY <1>5, TakeSets
  <2> QED BY <1>4, <2>1, <2>3, <2>4
<1>6. ASSUME NEW w \in Workers,
             CreateRecord(w) \/ MarkFrozen(w) \/ Close(w) \/ Fail(w) \/ AdjustWrite(w)
      PROVE  JobsFit'
  <2>1. UNCHANGED job
    BY <1>6 DEF CreateRecord, MarkFrozen, Close, Fail, AdjustWrite, commission
  <2>2. task[w].pc \in {"create", "mark", "close", "fail", "adjust"}
    BY <1>6 DEF CreateRecord, MarkFrozen, Close, Fail, AdjustWrite
  <2>3. job'[w] = Idle
    BY <2>1, <2>2 DEF JobsFit
  <2>4. NoTask.pc # "deducting"
    BY DEF NoTask
  <2>5. \E t : Sets(w, t) /\ t.pc # "deducting"
    BY <1>6, <2>4, ContinueSets, TakeSets
  <2> QED BY <1>4, <2>1, <2>3, <2>5
<1>7. ASSUME NEW w \in Workers, Deduct(w) PROVE JobsFit'
  <2>1. task[w].pc = "deduct" /\ job[w] = Idle
    BY <1>7 DEF Deduct, JobsFit
  <2>2. CASE Step(w, "fail") /\ UNCHANGED commission
    <3>1. \E t \in TaskOn(Len(record)) : Sets(w, t) /\ t.pc = "fail"
      BY <1>0, <2>2, StepSets
    <3> QED BY <1>4, <2>1, <2>2, <3>1 DEF commission
  <2>3. CASE Step(w, "deducting") /\ Begin(w, task[w].caller, RefundedOrder)
    <3>1. PICK t \in TaskOn(Len(record)) : Sets(w, t) /\ t.pc = "deducting"
      BY <1>0, <2>3, StepSets
    <3>2. /\ task[w].caller \in Callers /\ task[w].caller \in Reversers
          /\ ReverseBegin(w, task[w].caller, RefundedOrder)
      BY <2>3, DeductBegins
    <3>3. job'[w].pc = "load" /\ job'[w].caller \in Reversers /\ job'[w].order = RefundedOrder
      BY <1>0, <3>2 DEF ReverseBegin, Start, JobsTyped
    <3>4. \A v \in Workers : v # w => job'[v] = job[v]
      BY <1>0, <2>3, <3>2, JobTakenUp
    <3> QED BY <3>1, <3>3, <3>4, FitKept DEF FitsTask
  <2> QED BY <1>7, <2>2, <2>3 DEF Deduct
<1>8. ASSUME NEW w \in Workers, DeductStep(w) PROVE JobsFit'
  <2>1. task[w].pc = "deducting" /\ HandlerStep(w)
    BY <1>8 DEF DeductStep
  <2>2. PICK t \in TaskOn(Len(record)) : Sets(w, t) /\ t.pc = Outcome(w)
    BY <1>8, ContinueSets
  <2>3. /\ job'[w] = Idle \/ (job'[w].caller = job[w].caller /\ job'[w].order = job[w].order
                              /\ job'[w].pc = "write")
        /\ \A v \in Workers : v # w => job'[v] = job[v]
    BY <1>0, <2>1, JobGoesOn
  <2>4. CASE job'[w] = Idle
    <3>1. t.pc # "deducting"
      BY <2>2, <2>4 DEF Outcome
    <3> QED BY <1>4, <2>2, <2>3, <2>4, <3>1
  <2>5. CASE job'[w] # Idle
    <3>1. t.pc = "deducting"
      BY <2>2, <2>5 DEF Outcome
    <3>2. job[w].caller \in Reversers /\ job[w].order = RefundedOrder
      BY <2>1 DEF JobsFit
    <3> QED BY <2>2, <2>3, <2>5, <3>1, <3>2, FitKept DEF FitsTask
  <2> QED BY <2>4, <2>5
<1>9. ASSUME NEW w \in Workers, Die(w) PROVE JobsFit'
  <2>1. Sets(w, NoTask) /\ NoTask.pc # "deducting"
    BY <1>9, ContinueSets DEF NoTask
  <2>2. job'[w] = Idle /\ \A v \in Workers : v # w => job'[v] = job[v]
    BY <1>0, <1>9 DEF Die, Finish, JobsTyped
  <2> QED BY <1>4, <2>1, <2>2
<1>10. CASE UNCHANGED allVars
  BY <1>1, <1>10 DEF allVars
<1> QED BY <1>3, <1>5, <1>6, <1>7, <1>8, <1>9, <1>10, RStepCases

-----------------------------------------------------------------------------
(* The reversal took effect.  That stays so, and it is so wherever a task   *)
(* is about to close its record.                                           *)
Clawed == deductFlows[RefundedOrder] # <<>> \/ voided
Done == \E r \in DOMAIN record : record[r].status = "CLAWBACK_DONE"

ClawInv ==
    /\ JobsFit
    /\ \A w \in Workers : task[w].pc = "close" => Clawed
    /\ Done => Clawed

LEMMA DeductAppended ==
    ASSUME TypeInv, NEW w \in Workers, NEW op, DeductWrite(w, op)
    PROVE  \/ UNCHANGED deductFlows
           \/ /\ deductFlows'[job[w].order] # <<>>
              /\ \A o \in Orders : o # job[w].order => deductFlows'[o] = deductFlows[o]
<1> DEFINE o == job[w].order
           n == job[w].amount
<1>1. job[w].pc = "write"
  BY DEF DeductWrite, AtWrite
<1>2. o \in Orders /\ n \in Nat /\ deductFlows \in [Orders -> Seq(Nat)]
  BY <1>1, JobAtWrite DEF TypeInv, RowsTyped
<1>3. UNCHANGED deductFlows \/ deductFlows' = [deductFlows EXCEPT ![o] = Append(deductFlows[o], n)]
  BY DEF DeductWrite
<1> HIDE DEF o, n
<1>4. Append(deductFlows[o], n) # <<>>
  BY <1>2
<1> QED BY <1>2, <1>3, <1>4 DEF o

LEMMA ClawedKept ==
    ASSUME TypeInv, RTypeInv, [RNext]_allVars, Clawed
    PROVE  Clawed'
<1>1. CASE deductFlows[RefundedOrder] # <<>>
  <2>1. CASE UNCHANGED deductFlows
    BY <1>1, <2>1 DEF Clawed
  <2>2. ASSUME NEW w \in Workers, NEW op \in {"refund", "reverse"}, DeductWrite(w, op)
        PROVE  Clawed'
    BY <1>1, <2>1, <2>2, DeductAppended, FollowedOrder DEF Clawed
  <2> QED BY <2>1, <2>2, CommissionPart, DeductsChange
<1>2. CASE voided
  <2>1. ASSUME NEW w \in Workers, DeductStep(w) PROVE voided'
    BY <1>2, <2>1 DEF DeductStep
  <2>2. ASSUME NEW w \in Workers,
               \/ \E c \in {Job, "identify"} : Identify(w, c)
               \/ \E c : List(w, c)
               \/ \E r \in DOMAIN record : Load(w, r) \/ AdjustRead(w, r)
               \/ CreateRecord(w) \/ MarkFrozen(w) \/ Deduct(w)
               \/ Close(w) \/ Fail(w) \/ AdjustWrite(w) \/ Die(w)
        PROVE  voided' = voided
    BY <2>2 DEF Identify, List, Load, AdjustRead, CreateRecord, MarkFrozen, Deduct, Close, Fail,
                AdjustWrite, Die
  <2>3. ASSUME UNCHANGED allVars \/ Elsewhere PROVE voided' = voided
    BY <2>3 DEF allVars, Elsewhere, Around
  <2>4. voided'
    BY <1>2, <2>1, <2>2, <2>3, RStepCases
  <2> QED BY <2>4 DEF Clawed
<1> QED BY <1>1, <1>2 DEF Clawed

(* Only the end of a reversal closes a record as clawed back. *)
LEMMA OverwrittenStatus ==
    ASSUME RTypeInv, NEW k, NEW st, st # "CLAWBACK_DONE",
           record' = [record EXCEPT ![k].status = st], Done'
    PROVE  Done
<1> DEFINE x == [record[k] EXCEPT !.status = st]
<1>1. record \in Seq(RecordRow) /\ record' = [record EXCEPT ![k] = x]
  BY DEF RTypeInv
<1>2. k \in DOMAIN record => record[k] \in RecordRow
  BY <1>1
<1>3. k \in DOMAIN record => x.status = st
  BY <1>2 DEF RecordRow
<1> HIDE DEF x
<1>4. DOMAIN record' = DOMAIN record
      /\ \A r \in DOMAIN record : record'[r] = IF r = k THEN x ELSE record[r]
  BY <1>1
<1> QED BY <1>3, <1>4 DEF Done

LEMMA OverwrittenRetries ==
    ASSUME RTypeInv, NEW k, NEW n, record' = [record EXCEPT ![k].retries = n], Done'
    PROVE  Done
<1> DEFINE x == [record[k] EXCEPT !.retries = n]
<1>1. record \in Seq(RecordRow) /\ record' = [record EXCEPT ![k] = x]
  BY DEF RTypeInv
<1>2. k \in DOMAIN record => record[k] \in RecordRow
  BY <1>1
<1>3. k \in DOMAIN record => x.status = record[k].status
  BY <1>2 DEF RecordRow
<1> HIDE DEF x
<1>4. DOMAIN record' = DOMAIN record
      /\ \A r \in DOMAIN record : record'[r] = IF r = k THEN x ELSE record[r]
  BY <1>1
<1> QED BY <1>3, <1>4 DEF Done

LEMMA DoneByClose ==
    ASSUME RTypeInv, [RNext]_allVars, Done'
    PROVE  Done \/ \E w \in Workers : Close(w)
<1>0. ASSUME UNCHANGED record PROVE Done
  BY <1>0 DEF Done
<1>1. CASE UNCHANGED allVars \/ Elsewhere
  BY <1>0, <1>1 DEF allVars, Elsewhere, Around
<1>2. ASSUME NEW w \in Workers,
             \/ \E c \in {Job, "identify"} : Identify(w, c)
             \/ \E c : List(w, c)
             \/ \E r \in DOMAIN record : Load(w, r) \/ AdjustRead(w, r)
             \/ Deduct(w) \/ DeductStep(w) \/ Die(w)
      PROVE  Done
  <2>1. UNCHANGED record
    BY <1>2 DEF Identify, List, Load, AdjustRead, Deduct, DeductStep, Die
  <2> QED BY <1>0, <2>1
<1>3. ASSUME NEW w \in Workers, CreateRecord(w) PROVE Done
  <2> DEFINE x == [status |-> "IDENTIFIED", retries |-> 0]
  <2>1. record \in Seq(RecordRow) /\ record' = Append(record, x) /\ x.status # "CLAWBACK_DONE"
    BY <1>3 DEF CreateRecord, RTypeInv
  <2> HIDE DEF x
  <2>2. /\ DOMAIN record' = 1 .. Len(record) + 1 /\ Len(record) \in Nat
        /\ DOMAIN record = 1 .. Len(record)
        /\ record'[Len(record) + 1] = x
        /\ \A r \in DOMAIN record : record'[r] = record[r]
    BY <2>1
  <2> QED BY <2>1, <2>2 DEF Done
<1>4. ASSUME NEW w \in Workers, MarkFrozen(w) PROVE Done
  <2>1. record' = record \/ record' = [record EXCEPT ![task[w].rec].status = "FROZEN"]
    BY <1>4 DEF MarkFrozen
  <2>2. CASE record' = [record EXCEPT ![task[w].rec].status = "FROZEN"]
    BY <2>2, OverwrittenStatus
  <2> QED BY <1>0, <2>1, <2>2
<1>5. ASSUME NEW w \in Workers, AdjustWrite(w) PROVE Done
  BY <1>5, OverwrittenStatus DEF AdjustWrite
<1>6. ASSUME NEW w \in Workers, Fail(w) PROVE Done
  <2>1. record' = [record EXCEPT ![task[w].rec].retries = task[w].retries + 1]
    BY <1>6 DEF Fail
  <2> QED BY <2>1, OverwrittenRetries
<1> QED BY <1>1, <1>2, <1>3, <1>4, <1>5, <1>6, RStepCases

(* A reversal that reports success has taken effect. *)
LEMMA CloseMeansClawed ==
    ASSUME TypeInv, JobsFit, NEW w \in Workers, DeductStep(w), Outcome(w) = "close"
    PROVE  Clawed'
<1>1. task[w].pc = "deducting" /\ HandlerStep(w)
  BY DEF DeductStep
<1>2. /\ job[w].pc \in {"load", "write"} /\ job[w].order = RefundedOrder
      /\ job \in [Workers -> GoodJob] /\ JobsTyped /\ RefundedOrder \in Orders
  BY <1>1, FollowedOrder DEF JobsFit, TypeInv, JobsTyped
<1>3. /\ job'[w] = Idle
      /\ job[w].pc = "load" \/ job[w].seen = "PENDING" \/ deductFlows' # deductFlows
  BY Zenon DEF Outcome
<1>4. CASE job[w].pc = "load"
  <2>1. ReverseLoad(w)
    BY <1>1, <1>2, <1>4, ReverseSteps
  <2>2. deductFlows[RefundedOrder] # <<>>
    <3>1. SUFFICES ASSUME deductFlows[RefundedOrder] = <<>> PROVE FALSE
      OBVIOUS
    <3>2. job'[w].pc = "write"
      BY <1>2, <2>1, <3>1 DEF ReverseLoad, GoodJob, JobType
    <3> QED BY <1>3, <3>2 DEF Idle
  <2>3. UNCHANGED deductFlows
    BY <2>1 DEF ReverseLoad
  <2> QED BY <2>2, <2>3 DEF Clawed
<1>5. CASE job[w].pc = "write" /\ job[w].seen = "PENDING"
  <2>1. voided'
    BY <1>5 DEF DeductStep
  <2> QED BY <2>1 DEF Clawed
<1>6. CASE job[w].pc = "write" /\ job[w].seen # "PENDING"
  <2>1. DeductWrite(w, "reverse")
    BY <1>1, <1>2, <1>6, ReverseSteps DEF ReverseLoad
  <2>2. deductFlows' # deductFlows
    BY <1>3, <1>6
  <2> QED BY <1>2, <2>1, <2>2, DeductAppended DEF Clawed
<1> QED BY <1>2, <1>4, <1>5, <1>6

LEMMA ClawStep ==
    ASSUME RTypeInv, TypeInv, ClawInv, [RNext]_allVars
    PROVE  ClawInv'
<1>1. JobsFit' /\ JobsFit
  BY FitStep DEF ClawInv
<1>0. task \in [Workers -> TaskOn(Len(record))]
  BY DEF RTypeInv
<1>2. ASSUME NEW w \in Workers, NEW t, Sets(w, t), t.pc = "close" => Clawed'
      PROVE  \A v \in Workers : task'[v].pc = "close" => Clawed'
  <2>1. ASSUME NEW v \in Workers, task'[v].pc = "close" PROVE Clawed'
    <3>1. task'[v] = IF v = w THEN t ELSE task[v]
      BY <1>0, <1>2 DEF Sets
    <3>2. v # w => Clawed
      BY <2>1, <3>1 DEF ClawInv
    <3> QED BY <1>2, <2>1, <3>1, <3>2, ClawedKept
  <2> QED BY <2>1
<1>3. \A v \in Workers : task'[v].pc = "close" => Clawed'
  <2>1. CASE UNCHANGED task
    BY <2>1, ClawedKept DEF ClawInv
  <2>2. CASE UNCHANGED allVars \/ Elsewhere
    BY <2>1, <2>2 DEF allVars, Elsewhere, Around
  <2>3. ASSUME NEW w \in Workers,
               \/ \E c \in {Job, "identify"} : Identify(w, c)
               \/ \E c : List(w, c)
               \/ \E r \in DOMAIN record : Load(w, r) \/ AdjustRead(w, r)
               \/ CreateRecord(w) \/ MarkFrozen(w) \/ Deduct(w) \/ Close(w) \/ Fail(w)
               \/ AdjustWrite(w) \/ Die(w)
        PROVE  \E t : Sets(w, t) /\ t.pc # "close"
    <3>1. NoTask.pc # "close"
      BY DEF NoTask
    <3> QED BY <2>3, <3>1, ContinueSets, TakeSets
  <2>4. ASSUME NEW w \in Workers, DeductStep(w)
        PROVE  \A v \in Workers : task'[v].pc = "close" => Clawed'
    <3>1. PICK t \in TaskOn(Len(record)) : Sets(w, t) /\ t.pc = Outcome(w)
      BY <2>4, ContinueSets
    <3>2. t.pc = "close" => Clawed'
      BY <1>1, <2>4, <3>1, CloseMeansClawed
    <3> QED BY <1>2, <3>1, <3>2
  <2> QED BY <1>2, <2>2, <2>3, <2>4, RStepCases
<1>4. Done' => Clawed'
  <2>1. ASSUME NEW w \in Workers, Close(w) PROVE Clawed
    BY <2>1 DEF Close, ClawInv
  <2> QED BY <2>1, DoneByClose, ClawedKept DEF ClawInv
<1> QED BY <1>1, <1>3, <1>4 DEF ClawInv

(* CLAWBACK_DONE is never a lie: a record that says so has a DEDUCT flow,  *)
(* or its order's flow was voided before it was credited - whatever the    *)
(* task and the endpoints do at the same time, whoever deducts besides     *)
(* them, and wherever a worker dies.                                       *)
THEOREM DoneAlwaysClawed == RSpec => []DoneIsClawedBack
<1>1. RInit => ClawInv
  <2> SUFFICES ASSUME RInit PROVE ClawInv
    OBVIOUS
  <2>1. task = [w \in Workers |-> NoTask] /\ job = [w \in Workers |-> Idle] /\ record = <<>>
    BY Zenon DEF RInit
  <2>2. NoTask.pc = "idle"
    BY DEF NoTask
  <2> QED BY <2>1, <2>2, ReverserOps DEF ClawInv, JobsFit, Done
<1>2. RTypeInv /\ TypeInv /\ ClawInv /\ [RNext]_allVars => ClawInv'
  BY ClawStep
<1>3. ClawInv => DoneIsClawedBack
  BY DEF ClawInv, DoneIsClawedBack, Done, Clawed
<1> QED BY <1>1, <1>2, <1>3, RTyped, CommissionTyped, PTL DEF RSpec

-----------------------------------------------------------------------------
(* Everything but a deduction adds flows and marks them SUCCESS. *)
FlowsGrow ==
    \A o \in Orders : \A i \in DOMAIN orderFlows[o] :
        /\ i \in DOMAIN orderFlows'[o]
        /\ orderFlows'[o][i].status \in {orderFlows[o][i].status, "SUCCESS"}

LEMMA AppendGrows ==
    ASSUME RowsTyped, NEW o \in Orders, NEW r \in FlowType,
           orderFlows' = [orderFlows EXCEPT ![o] = Append(orderFlows[o], r)]
    PROVE  FlowsGrow
<1>1. orderFlows[o] \in Seq(FlowType)
  BY DEF RowsTyped
<1>2. ASSUME NEW i \in DOMAIN orderFlows[o]
      PROVE  /\ i \in DOMAIN Append(orderFlows[o], r)
             /\ Append(orderFlows[o], r)[i] = orderFlows[o][i]
  BY <1>1
<1>3. \A p \in Orders : orderFlows'[p] = IF p = o THEN Append(orderFlows[o], r) ELSE orderFlows[p]
  BY DEF RowsTyped
<1> QED BY <1>2, <1>3 DEF FlowsGrow

LEMMA MarkGrows ==
    ASSUME RowsTyped, NEW o \in Orders, NEW k,
           orderFlows' = [orderFlows EXCEPT ![o] =
                             [orderFlows[o] EXCEPT ![k] = [orderFlows[o][k] EXCEPT !.status = "SUCCESS"]]]
    PROVE  FlowsGrow
<1> DEFINE r == [orderFlows[o][k] EXCEPT !.status = "SUCCESS"]
           t == [orderFlows[o] EXCEPT ![k] = r]
<1>1. orderFlows[o] \in Seq(FlowType)
  BY DEF RowsTyped
<1>2. k \in DOMAIN orderFlows[o] => orderFlows[o][k] \in FlowType
  BY <1>1
<1>3. k \in DOMAIN orderFlows[o] => r.status = "SUCCESS"
  BY <1>2 DEF FlowType
<1>4. \A p \in Orders : orderFlows'[p] = IF p = o THEN t ELSE orderFlows[p]
  BY DEF RowsTyped
<1> HIDE DEF r
<1>5. \A i \in DOMAIN orderFlows[o] : i \in DOMAIN t /\ t[i] = IF i = k THEN r ELSE orderFlows[o][i]
  OBVIOUS
<1> HIDE DEF t
<1> QED BY <1>3, <1>4, <1>5 DEF FlowsGrow

LEMMA GrowOrDeduct ==
    ASSUME TypeInv, [Next]_vars
    PROVE  FlowsGrow \/ \E w \in Workers, op \in {"refund", "reverse"} : DeductWrite(w, op)
<1>t. RowsTyped /\ JobsTyped
  BY DEF TypeInv
<1>0. ASSUME UNCHANGED orderFlows PROVE FlowsGrow
  BY <1>0 DEF FlowsGrow
<1>1. ASSUME NEW w \in Workers, NEW c \in Callers, NEW o \in Orders,
             \/ SettleBegin(w, c, o) \/ RefundBegin(w, c, o) \/ ReverseBegin(w, c, o)
             \/ FreezeBegin(w, c, o) \/ UnfreezeBegin(w, c, o) \/ PaidBegin(w, c, o)
      PROVE  UNCHANGED orderFlows
  BY <1>1 DEF SettleBegin, RefundBegin, ReverseBegin, FreezeBegin, UnfreezeBegin, PaidBegin
<1>2. ASSUME NEW w \in Workers,
             \/ SettleCalibrate(w) \/ ReverseLoad(w) \/ OpLock(w) \/ PaidWrite(w) \/ Crash(w)
      PROVE  UNCHANGED orderFlows
  BY <1>2 DEF SettleCalibrate, ReverseLoad, OpLock, PaidWrite, Crash
<1>3. ASSUME \/ \E o \in Orders, s \in OrderStatuses : OrderSync(o, s)
             \/ \E u \in Users : Withdraw(u)
             \/ UNCHANGED vars
      PROVE  UNCHANGED orderFlows
  BY <1>3 DEF OrderSync, Withdraw, vars
<1>4. ASSUME NEW w \in Workers, SettleWrite(w) \/ FreezeWrite(w) PROVE FlowsGrow
  <2> DEFINE o == job[w].order
             n == job[w].amount
             a == [status |-> "SUCCESS", amount |-> n]
             b == [status |-> "PENDING", amount |-> n]
  <2>1. o \in Orders /\ n \in Nat
    <3>1. job[w].pc = "write"
      BY <1>4 DEF SettleWrite, FreezeWrite, AtWrite
    <3> QED BY <1>t, <3>1, JobAtWrite
  <2>2. a \in FlowType /\ b \in FlowType
    BY <2>1 DEF FlowType
  <2>3. \/ UNCHANGED orderFlows
        \/ orderFlows' = [orderFlows EXCEPT ![o] = Append(orderFlows[o], a)]
        \/ orderFlows' = [orderFlows EXCEPT ![o] = Append(orderFlows[o], b)]
    BY <1>4 DEF SettleWrite, FreezeWrite
  <2> HIDE DEF o, a, b
  <2> QED BY <1>0, <1>t, <2>1, <2>2, <2>3, AppendGrows
<1>5. ASSUME NEW w \in Workers, UnfreezeWrite(w) PROVE FlowsGrow
  <2> DEFINE o == job[w].order
             k == settlement[o][1].flow
  <2>1. o \in Orders
    <3>1. job[w].pc = "write"
      BY <1>5 DEF UnfreezeWrite, AtWrite
    <3> QED BY <1>t, <3>1, JobAtWrite
  <2>2. CASE UNCHANGED orderFlows
    BY <1>0, <2>2
  <2>3. CASE ~UNCHANGED orderFlows
    <3>1. orderFlows' = [orderFlows EXCEPT ![o] =
                            [orderFlows[o] EXCEPT ![k] = [orderFlows[o][k] EXCEPT !.status = "SUCCESS"]]]
      BY <1>5, <1>t, <2>1, <2>3 DEF UnfreezeWrite, RowsTyped
    <3> HIDE DEF o, k
    <3> QED BY <1>t, <2>1, <3>1, MarkGrows
  <2> QED BY <2>2, <2>3
<1> QED BY <1>0, <1>1, <1>2, <1>3, <1>4, <1>5, StepCases

FirstStatus == orderFlows[RefundedOrder][1].status
Live == orderFlows[RefundedOrder] # <<>>

LEMMA GrowthKeeps ==
    ASSUME RowsTyped, RowsTyped', FlowsGrow
    PROVE  /\ Live => Live' /\ FirstStatus' \in {FirstStatus, "SUCCESS"}
           /\ HasSuccess(RefundedOrder) => HasSuccess(RefundedOrder)'
<1> DEFINE o == RefundedOrder
<1>1. o \in Orders
  BY FollowedOrder
<1>2. orderFlows[o] \in Seq(FlowType) /\ orderFlows'[o] \in Seq(FlowType)
  BY <1>1 DEF RowsTyped
<1>3. Live => 1 \in DOMAIN orderFlows[o]
  BY <1>2 DEF Live
<1>4. 1 \in DOMAIN orderFlows'[o] => Live'
  BY <1>2 DEF Live
<1> HIDE DEF o
<1> QED BY <1>1, <1>3, <1>4 DEF FlowsGrow, HasSuccess, FirstStatus, Live, o

(* What a reversal has in hand stays true of the order's first flow,       *)
(* unless another worker reverses the same order at the same time: the     *)
(* flow is PENDING and nothing is deducted yet, or it is credited.         *)
InHand(w) ==
    /\ Live
    /\ job[w].pc = "load" => FirstStatus \in {"PENDING", "SUCCESS"}
    /\ job[w].pc = "write" =>
          \/ job[w].seen = "PENDING" /\ deductFlows[RefundedOrder] = <<>>
          \/ job[w].seen = "SUCCESS" /\ FirstStatus = "SUCCESS"

Alone(w) == \A v \in Workers : task[v].pc = "deducting" => v = w

CreditInv ==
    /\ JobsFit
    /\ ~overlap => \A w \in Workers : task[w].pc = "deducting" => Alone(w) /\ InHand(w)
    /\ OnlyCreditedDeducted

LEMMA CreditKept ==
    ASSUME TypeInv, TypeInv', CreditInv, FlowsGrow, UNCHANGED <<deductFlows, overlap>>,
           \A v \in Workers : task'[v].pc = "deducting" =>
               task[v].pc = "deducting" /\ job'[v] = job[v]
    PROVE  /\ ~overlap' => \A w \in Workers : task'[w].pc = "deducting" => Alone(w)' /\ InHand(w)'
           /\ OnlyCreditedDeducted'
<1>1. /\ Live => Live' /\ FirstStatus' \in {FirstStatus, "SUCCESS"}
      /\ HasSuccess(RefundedOrder) => HasSuccess(RefundedOrder)'
  BY GrowthKeeps DEF TypeInv
<1>2. ASSUME ~overlap', NEW w \in Workers, task'[w].pc = "deducting"
      PROVE  Alone(w)' /\ InHand(w)'
  <2>1. Alone(w) /\ InHand(w) /\ job'[w] = job[w]
    BY <1>2 DEF CreditInv
  <2>2. Alone(w)'
    BY <2>1 DEF Alone
  <2>3. InHand(w)'
    BY <1>1, <2>1 DEF InHand
  <2> QED BY <2>2, <2>3
<1>3. OnlyCreditedDeducted'
  BY <1>1 DEF CreditInv, OnlyCreditedDeducted
<1> QED BY <1>2, <1>3

LEMMA CreditStep ==
    ASSUME RTypeInv, TypeInv, TypeInv', CreditInv, [RNext]_allVars,
           \A c \in Callers : OpOf[c] # "refund"
    PROVE  CreditInv'
<1> DEFINE Goal == /\ ~overlap' => \A w \in Workers :
                          task'[w].pc = "deducting" => Alone(w)' /\ InHand(w)'
                   /\ OnlyCreditedDeducted'
<1>0. /\ JobsTyped /\ RowsTyped /\ RowsTyped' /\ RefundedOrder \in Orders /\ JobsFit
      /\ job \in [Workers -> GoodJob] /\ task \in [Workers -> TaskOn(Len(record))]
      /\ Len(record) \in Nat
  BY FollowedOrder DEF TypeInv, RTypeInv, JobsTyped, CreditInv
<1>f. JobsFit'
  BY FitStep DEF CreditInv
<1>1. ASSUME UNCHANGED orderFlows PROVE FlowsGrow
  BY <1>1 DEF FlowsGrow
(* A task goes on, its deduction not begun or not any more.                *)
<1>2. ASSUME NEW w \in Workers, NEW t, Sets(w, t), t.pc # "deducting",
             \A v \in Workers : v # w => job'[v] = job[v],
             UNCHANGED <<orderFlows, deductFlows, overlap>>
      PROVE  Goal
  <2>1. \A v \in Workers : task'[v].pc = "deducting" =>
            task[v].pc = "deducting" /\ job'[v] = job[v]
    BY <1>0, <1>2 DEF Sets
  <2> QED BY <1>1, <1>2, <2>1, CreditKept
<1>3. ASSUME UNCHANGED allVars PROVE Goal
  <2>1. UNCHANGED <<task, job, orderFlows, deductFlows, overlap>>
    BY <1>3 DEF allVars
  <2> QED BY <1>1, <2>1, CreditKept
<1>4. ASSUME Elsewhere PROVE Goal
  <2>1. UNCHANGED <<task, overlap>>
    BY <1>4 DEF Elsewhere, Around
  <2>2. ASSUME NEW w \in Workers, NEW op \in {"refund", "reverse"}, DeductWrite(w, op),
               task[w] = NoTask
        PROVE  FALSE
    <3>1. task[w].pc = "idle"
      BY <2>2 DEF NoTask
    <3>2. job[w].pc = "write" /\ OpOf[job[w].caller] = op
      BY <2>2 DEF DeductWrite, AtWrite
    <3>3. job[w].caller \in Callers
      BY <1>0, <3>2, JobAtWrite
    <3> QED BY <1>0, <3>1, <3>2, <3>3, ReverserOps DEF JobsFit
  <2>3. [Next]_vars
    BY <1>0, <1>4 DEF Elsewhere, Next
  <2>4. ASSUME NEW v \in Workers, NEW op \in {"refund", "reverse"}, DeductWrite(v, op) PROVE FALSE
    <3>1. job[v].pc = "write" /\ OpOf[job[v].caller] = op /\ job'[v] = Idle
      BY <1>0, <2>4 DEF DeductWrite, AtWrite, Finish
    <3>2. job'[v] # job[v]
      BY <3>1 DEF Idle
    <3>3. task[v] # NoTask
      BY <2>2, <2>4
    <3>4. CASE UNCHANGED job
      BY <3>2, <3>4
    <3>5. ASSUME NEW w \in Workers, task[w] = NoTask, HandlerStep(w) PROVE FALSE
      BY <1>0, <3>2, <3>3, <3>5, JobGoesOn
    <3>6. ASSUME NEW w \in Workers, NEW c \in Callers, Free(w), Begin(w, c, RefundedOrder)
          PROVE  FALSE
      BY <1>0, <3>2, <3>3, <3>6, JobTakenUp DEF Free
    <3> QED BY <1>4, <3>4, <3>5, <3>6 DEF Elsewhere, OrderSync, Withdraw
  <2>5. FlowsGrow /\ UNCHANGED deductFlows
    BY <2>3, <2>4, GrowOrDeduct, DeductsChange
  <2>6. \A v \in Workers : task[v].pc = "deducting" => job'[v] = job[v]
    <3>1. CASE UNCHANGED job
      BY <3>1
    <3>2. ASSUME NEW w \in Workers, task[w] = NoTask, HandlerStep(w)
          PROVE  \A v \in Workers : task[v].pc = "deducting" => job'[v] = job[v]
      BY <1>0, <3>2, JobGoesOn DEF NoTask
    <3>3. ASSUME NEW w \in Workers, NEW c \in Callers, Free(w), Begin(w, c, RefundedOrder)
          PROVE  \A v \in Workers : task[v].pc = "deducting" => job'[v] = job[v]
      BY <1>0, <3>3, JobTakenUp DEF Free, NoTask
    <3> QED BY <1>4, <3>1, <3>2, <3>3 DEF Elsewhere, OrderSync, Withdraw
  <2> QED BY <2>1, <2>5, <2>6, CreditKept
<1>5. ASSUME NEW w \in Workers,
             \/ \E c \in {Job, "identify"} : Identify(w, c)
             \/ \E c : List(w, c)
             \/ \E r \in DOMAIN record : Load(w, r) \/ AdjustRead(w, r)
             \/ CreateRecord(w) \/ MarkFrozen(w) \/ Close(w) \/ Fail(w) \/ AdjustWrite(w)
      PROVE  Goal
  <2>1. UNCHANGED <<job, orderFlows, deductFlows, overlap>>
    BY <1>5 DEF Identify, List, Load, AdjustRead, CreateRecord, MarkFrozen, Close, Fail,
                AdjustWrite, commission
  <2>2. NoTask.pc # "deducting"
    BY DEF NoTask
  <2>3. \E t : Sets(w, t) /\ t.pc # "deducting"
    BY <1>5, <2>2, TakeSets, ContinueSets
  <2> QED BY <1>2, <2>1, <2>3
<1>6. ASSUME NEW w \in Workers, Die(w) PROVE Goal
  <2>1. Sets(w, NoTask) /\ NoTask.pc # "deducting"
    BY <1>6, ContinueSets DEF NoTask
  <2>2. UNCHANGED <<orderFlows, deductFlows, overlap>> /\ Finish(w)
    BY <1>6 DEF Die
  <2>3. \A v \in Workers : v # w => job'[v] = job[v]
    BY <1>0, <2>2 DEF Finish
  <2> QED BY <1>2, <2>1, <2>2, <2>3
<1>7. ASSUME NEW w \in Workers, Deduct(w) PROVE Goal
  <2>1. CASE Step(w, "fail") /\ UNCHANGED commission /\ UNCHANGED overlap
    <3>1. PICK t \in TaskOn(Len(record)) : Sets(w, t) /\ t.pc = "fail"
      BY <1>0, <2>1, StepSets
    <3> QED BY <1>2, <2>1, <3>1 DEF commission
  <2>2. CASE /\ Step(w, "deducting") /\ Begin(w, task[w].caller, RefundedOrder)
             /\ overlap' = (overlap \/ \E v \in Workers : task[v].pc = "deducting")
    <3>1. PICK t \in TaskOn(Len(record)) : Sets(w, t) /\ t.pc = "deducting"
      BY <1>0, <2>2, StepSets
    <3>2. ReverseBegin(w, task[w].caller, RefundedOrder)
      BY <2>2, DeductBegins
    <3>3. /\ UNCHANGED <<orderFlows, deductFlows>> /\ Live
          /\ FirstStatus \in {"PENDING", "SUCCESS"} /\ job'[w].pc = "load"
      BY <1>0, <3>2 DEF ReverseBegin, DeductValid, Start, Live, FirstStatus
    <3>4. ASSUME ~overlap', NEW v \in Workers, task'[v].pc = "deducting"
          PROVE  Alone(v)' /\ InHand(v)'
      <4>1. \A u \in Workers : task'[u].pc = "deducting" => u = w
        BY <1>0, <2>2, <3>1, <3>4 DEF Sets
      <4>2. v = w /\ Alone(v)'
        BY <3>4, <4>1 DEF Alone
      <4>3. InHand(w)'
        BY <3>3 DEF InHand, Live, FirstStatus
      <4> QED BY <4>2, <4>3
    <3>5. OnlyCreditedDeducted'
      BY <2>2, <3>3 DEF CreditInv, OnlyCreditedDeducted, HasSuccess
    <3> QED BY <3>4, <3>5
  <2> QED BY <1>7, <2>1, <2>2 DEF Deduct
<1>8. ASSUME NEW w \in Workers, DeductStep(w) PROVE Goal
  <2>1. task[w].pc = "deducting" /\ HandlerStep(w) /\ UNCHANGED overlap
    BY <1>8 DEF DeductStep
  <2>2. PICK t \in TaskOn(Len(record)) : Sets(w, t) /\ t.pc = Outcome(w)
    BY <1>8, ContinueSets
  <2>3. CASE overlap
    BY <2>1, <2>3 DEF OnlyCreditedDeducted
  <2>4. CASE ~overlap
    <3>1. Alone(w) /\ InHand(w)
      BY <2>1, <2>4 DEF CreditInv
    <3>2. \A v \in Workers : task'[v].pc = "deducting" => v = w /\ job'[w] # Idle
      BY <1>0, <2>2, <3>1 DEF Sets, Alone, Outcome
    <3>3. CASE ReverseLoad(w)
      <4>1. UNCHANGED <<orderFlows, deductFlows>> /\ job[w].pc = "load"
            /\ job[w].order = RefundedOrder
        BY <1>0, <2>1, <3>3 DEF ReverseLoad, JobsFit
      <4>2. job'[w] # Idle => /\ job'[w].pc = "write" /\ job'[w].seen = FirstStatus
                              /\ deductFlows[RefundedOrder] = <<>>
        BY <1>0, <3>3, <4>1 DEF ReverseLoad, Finish, GoodJob, JobType, FirstStatus
      <4>3. ASSUME NEW v \in Workers, task'[v].pc = "deducting" PROVE Alone(v)' /\ InHand(v)'
        <5>1. v = w /\ job'[w] # Idle
          BY <3>2, <4>3
        <5>2. InHand(w)'
          BY <3>1, <4>1, <4>2, <5>1 DEF InHand, Live, FirstStatus
        <5> QED BY <3>2, <5>1, <5>2 DEF Alone
      <4>4. OnlyCreditedDeducted'
        BY <2>1, <4>1 DEF CreditInv, OnlyCreditedDeducted, HasSuccess
      <4> QED BY <4>3, <4>4
    <3>4. CASE DeductWrite(w, "reverse") /\ job[w].pc = "write"
      <4>1. job'[w] = Idle /\ job[w].order = RefundedOrder
        BY <1>0, <2>1, <3>4 DEF DeductWrite, Finish, JobsFit
      <4>2. \A v \in Workers : task'[v].pc # "deducting"
        BY <3>2, <4>1
      <4>3. CASE job[w].seen = "PENDING" /\ deductFlows[RefundedOrder] = <<>>
        <5>1. UNCHANGED deductFlows
          BY <3>4, <4>3 DEF DeductWrite
        <5> QED BY <4>2, <4>3, <5>1 DEF OnlyCreditedDeducted
      <4>4. CASE job[w].seen = "SUCCESS" /\ FirstStatus = "SUCCESS"
        <5>1. UNCHANGED orderFlows
          BY <3>4, <4>4 DEF DeductWrite
        <5>2. orderFlows[RefundedOrder] \in Seq(FlowType) /\ Live
          BY <1>0, <3>1 DEF RowsTyped, InHand
        <5>3. 1 \in DOMAIN orderFlows[RefundedOrder]
          BY <5>2 DEF Live
        <5>4. HasSuccess(RefundedOrder)'
          BY <4>4, <5>1, <5>3 DEF HasSuccess, FirstStatus
        <5> QED BY <4>2, <5>4 DEF OnlyCreditedDeducted
      <4> QED BY <3>1, <3>4, <4>3, <4>4 DEF InHand
    <3> QED BY <1>0, <2>1, <3>3, <3>4, ReverseSteps
  <2> QED BY <2>3, <2>4
<1>9. Goal
  <2> HIDE DEF Goal
  <2> QED BY <1>3, <1>4, <1>5, <1>6, <1>7, <1>8, RStepCases
<1> QED BY <1>9, <1>f DEF CreditInv

(* Only credited money is clawed back: an order is deducted only while one *)
(* of its flows is SUCCESS, and a flow voided while PENDING is never       *)
(* deducted afterwards - unless two workers deduct it at the same time,    *)
(* which the history variable records, and provided the refund operations  *)
(* of B07 (whose endpoint takes a flow in any status) are not in use.      *)
THEOREM OnlyCreditsAreDeducted ==
    ASSUME \A c \in Callers : OpOf[c] # "refund"
    PROVE  RSpec => []OnlyCreditedDeducted
<1>1. RInit => CreditInv
  <2> SUFFICES ASSUME RInit PROVE CreditInv
    OBVIOUS
  <2>1. /\ task = [w \in Workers |-> NoTask] /\ job = [w \in Workers |-> Idle]
        /\ deductFlows = [o \in Orders |-> <<>>]
    BY Zenon DEF RInit
  <2>2. NoTask.pc = "idle" /\ deductFlows[RefundedOrder] = <<>>
    BY <2>1, FollowedOrder DEF NoTask
  <2> QED BY <2>1, <2>2, ReverserOps DEF CreditInv, JobsFit, OnlyCreditedDeducted
<1>2. RTypeInv /\ TypeInv /\ TypeInv' /\ CreditInv /\ [RNext]_allVars => CreditInv'
  BY CreditStep
<1>3. CreditInv => OnlyCreditedDeducted
  BY DEF CreditInv
<1> QED BY <1>1, <1>2, <1>3, RTyped, CommissionTyped, PTL DEF RSpec

-----------------------------------------------------------------------------
(* Races.  Whoever may be called, a second credit or deduction needs two   *)
(* handlers that have both checked the order before either writes: as long *)
(* as no two have, one that has checked it still finds it as it was.       *)
RaceKinds == {"credit", "deduct"}

(* Only a reversal loads the flows after its check. *)
LoadReverses == \A w \in Workers : job[w].pc = "load" => OpOf[job[w].caller] = "reverse"

LEMMA LoadReversesStep ==
    ASSUME TypeInv, LoadReverses, [Next]_vars
    PROVE  LoadReverses'
<1>t. JobsTyped
  BY DEF TypeInv
<1> SUFFICES ASSUME NEW v \in Workers, job'[v].pc = "load"
             PROVE  OpOf[job'[v].caller] = "reverse"
  BY DEF LoadReverses
<1>1. CASE job'[v] = job[v]
  BY <1>1 DEF LoadReverses
<1>2. ASSUME NEW w \in Workers, HandlerStep(w) PROVE job'[v] = job[v]
  <2>1. Idle.pc # "load"
    BY DEF Idle
  <2> QED BY <1>t, <1>2, <2>1, JobGoesOn
<1>3. ASSUME NEW w \in Workers, Crash(w) PROVE job'[v] = job[v]
  <2>1. job'[w] = Idle /\ Idle.pc # "load" /\ (v # w => job'[v] = job[v])
    BY <1>t, <1>3 DEF Crash, Finish, Idle, JobsTyped
  <2> QED BY <2>1
<1>4. ASSUME NEW w \in Workers, NEW c \in Callers, NEW o \in Orders, Begin(w, c, o)
      PROVE  OpOf[job'[v].caller] = "reverse"
  <2>1. job'[w].caller = c /\ \A x \in Workers : x # w => job'[x] = job[x]
    BY <1>t, <1>4, JobTakenUp
  <2>2. CASE v # w
    BY <1>1, <2>1, <2>2
  <2>3. CASE v = w /\ ReverseBegin(w, c, o)
    BY <2>1, <2>3 DEF ReverseBegin, CanStart
  <2>4. CASE v = w /\ ~ReverseBegin(w, c, o)
    <3>1. \E pc \in {"write", "calibrate", "lock"} : \E n, seen : Start(w, c, o, pc, n, seen)
      BY <1>4, <2>4 DEF Begin, SettleBegin, RefundBegin, FreezeBegin, UnfreezeBegin, PaidBegin
    <3>2. job'[w].pc # "load"
      BY <1>t, <3>1 DEF Start, JobsTyped
    <3> QED BY <2>4, <3>2
  <2> QED BY <2>2, <2>3, <2>4
<1>5. CASE UNCHANGED job
  BY <1>1, <1>5
<1>6. ASSUME \/ \E o \in Orders, s \in OrderStatuses : OrderSync(o, s)
             \/ \E u \in Users : Withdraw(u)
             \/ UNCHANGED vars
      PROVE  UNCHANGED job
  BY <1>6 DEF OrderSync, Withdraw, vars
<1> QED BY <1>1, <1>2, <1>3, <1>4, <1>5, <1>6 DEF Next

(* A worker that has checked an order had done so before, or finds the     *)
(* order unwritten in this step.                                           *)
LEMMA CheckMade ==
    ASSUME TypeInv, LoadReverses, [Next]_vars,
           NEW v \in Workers, NEW k \in RaceKinds, NEW o \in Orders, Checked(v, k, o)'
    PROVE  \/ Checked(v, k, o)
           \/ k = "credit" /\ \E c \in Callers : SettleBegin(v, c, o)
           \/ k = "deduct" /\ deductFlows[o] = <<>> /\ UNCHANGED deductFlows
<1> DEFINE Goal == \/ Checked(v, k, o)
                   \/ k = "credit" /\ \E c \in Callers : SettleBegin(v, c, o)
                   \/ k = "deduct" /\ deductFlows[o] = <<>> /\ UNCHANGED deductFlows
<1>t. JobsTyped
  BY DEF TypeInv
<1>c. /\ job'[v].pc \notin {"idle", "load"} /\ job'[v].order = o
      /\ OpOf[job'[v].caller] \in IF k = "credit" THEN {"settle"} ELSE {"refund", "reverse"}
  BY DEF Checked
<1>1. CASE job'[v] = job[v]
  BY <1>c, <1>1 DEF Checked
<1>i. Idle.pc = "idle"
  BY DEF Idle
<1>2. ASSUME NEW w \in Workers, HandlerStep(w) PROVE Goal
  <2>1. /\ job'[w] = Idle \/ (job'[w].caller = job[w].caller /\ job'[w].order = job[w].order)
        /\ \A x \in Workers : x # w => job'[x] = job[x]
    BY <1>t, <1>2, JobGoesOn
  <2>2. CASE v # w
    BY <1>1, <2>1, <2>2
  <2>3. CASE v = w /\ job[v].pc # "load"
    <3>1. job[v].pc # "idle"
      BY <1>2, <2>3 DEF HandlerStep, SettleCalibrate, SettleWrite, ReverseLoad, DeductWrite, OpLock,
                        FreezeWrite, UnfreezeWrite, PaidWrite, AtWrite
    <3> QED BY <1>c, <1>i, <2>1, <2>3, <3>1 DEF Checked
  <2>4. CASE v = w /\ job[v].pc = "load"
    <3>1. ReverseLoad(v)
      BY <1>2, <2>4 DEF HandlerStep, SettleCalibrate, SettleWrite, DeductWrite, OpLock,
                        FreezeWrite, UnfreezeWrite, PaidWrite, AtWrite
    <3>2. ~Finish(v)
      BY <1>t, <1>c, <1>i DEF Finish, JobsTyped
    <3>3. job[v].order = o /\ OpOf[job'[v].caller] = "reverse"
      BY <1>c, <1>i, <2>1, <2>4 DEF LoadReverses
    <3>4. deductFlows[o] = <<>> /\ UNCHANGED deductFlows
      BY <3>1, <3>2, <3>3 DEF ReverseLoad
    <3>5. k = "deduct"
      BY <1>c, <3>3 DEF RaceKinds
    <3> QED BY <3>4, <3>5
  <2> QED BY <2>2, <2>3, <2>4
<1>3. ASSUME NEW w \in Workers, Crash(w) PROVE Goal
  <2>1. job'[w] = Idle /\ (v # w => job'[v] = job[v])
    BY <1>t, <1>3 DEF Crash, Finish, JobsTyped
  <2> QED BY <1>1, <1>c, <1>i, <2>1
<1>4. ASSUME NEW w \in Workers, NEW c \in Callers, NEW p \in Orders, Begin(w, c, p)
      PROVE  Goal
  <2>1. /\ job'[w].caller = c /\ job'[w].order = p
        /\ \A x \in Workers : x # w => job'[x] = job[x]
    BY <1>t, <1>4, JobTakenUp
  <2>2. CASE v # w
    BY <1>1, <2>1, <2>2
  <2>3. CASE v = w
    <3>1. p = o /\ OpOf[c] \in IF k = "credit" THEN {"settle"} ELSE {"refund", "reverse"}
      BY <1>c, <2>1, <2>3
    <3>2. CASE k = "credit"
      <4>1. SettleBegin(v, c, o)
        BY <1>4, <2>3, <3>1, <3>2 DEF Begin, RefundBegin, ReverseBegin, FreezeBegin, UnfreezeBegin,
                                      PaidBegin, CanStart
      <4> QED BY <3>2, <4>1
    <3>3. CASE k = "deduct"
      <4>1. RefundBegin(v, c, o) \/ ReverseBegin(v, c, o)
        BY <1>4, <2>3, <3>1, <3>3 DEF Begin, SettleBegin, FreezeBegin, UnfreezeBegin,
                                      PaidBegin, CanStart
      <4>2. deductFlows[o] = <<>> /\ UNCHANGED deductFlows
        BY <4>1 DEF RefundBegin, ReverseBegin, DeductValid
      <4> QED BY <3>3, <4>2
    <3> QED BY <3>2, <3>3 DEF RaceKinds
  <2> QED BY <2>2, <2>3
<1>5. ASSUME \/ \E p \in Orders, s \in OrderStatuses : OrderSync(p, s)
             \/ \E u \in Users : Withdraw(u)
             \/ UNCHANGED vars
      PROVE  job'[v] = job[v]
  BY <1>5 DEF OrderSync, Withdraw, vars
<1>6. Goal
  <2> HIDE DEF Goal
  <2> QED BY <1>1, <1>2, <1>3, <1>4, <1>5 DEF Next, Goal
<1> QED BY <1>6

LEMMA ReversesLoad == Spec => []LoadReverses
<1>1. Init => LoadReverses
  BY DEF Init, Idle, LoadReverses
<1>2. TypeInv /\ LoadReverses /\ [Next]_vars => LoadReverses'
  BY LoadReversesStep
<1> QED BY <1>1, <1>2, Typed, PTL DEF Spec

(* Nobody else has checked an order that a worker without a race writes.   *)
LEMMA LastCheck ==
    ASSUME JobsTyped,
           NEW w \in Workers, NEW v \in Workers, NEW k \in RaceKinds, NEW o \in Orders,
           ~Racing(k, o), Checked(w, k, o), Finish(w)
    PROVE  ~(Checked(v, k, o)')
<1> SUFFICES ASSUME Checked(v, k, o)' PROVE FALSE
  OBVIOUS
<1>1. v # w
  BY DEF Checked, Finish, Idle, JobsTyped
<1>2. Checked(v, k, o)
  BY <1>1 DEF Checked, Finish, JobsTyped
<1> QED BY <1>1, <1>2 DEF Racing

(* At first nobody has checked anything. *)
LEMMA NothingChecked ==
    ASSUME Init
    PROVE  \A w \in Workers : job[w].pc = "idle" /\ \A k, o : ~Checked(w, k, o)
<1>1. \A w \in Workers : job[w].pc = "idle"
  BY DEF Init, Idle
<1> QED BY <1>1 DEF Checked

(* Without a race the first deduction is the only one. *)
DeductedFirst(o) ==
    /\ Len(deductFlows[o]) <= 1
    /\ \A w \in Workers : Checked(w, "deduct", o) => deductFlows[o] = <<>>

LEMMA DeductRaceStep ==
    ASSUME NEW o \in Orders, TypeInv, LoadReverses, DeductedFirst(o), ~Racing("deduct", o),
           [Next]_vars
    PROVE  DeductedFirst(o)'
<1>t. RowsTyped /\ JobsTyped
  BY DEF TypeInv
<1>1. /\ Len(deductFlows[o]) <= 1
      /\ \A v \in Workers : Checked(v, "deduct", o) => deductFlows[o] = <<>>
  BY DEF DeductedFirst
<1>2. ASSUME deductFlows'[o] = deductFlows[o]
      PROVE  \A v \in Workers : Checked(v, "deduct", o)' => deductFlows'[o] = <<>>
  <2> SUFFICES ASSUME NEW v \in Workers, Checked(v, "deduct", o)' PROVE deductFlows[o] = <<>>
    BY <1>2
  <2>1. "deduct" \in RaceKinds /\ "deduct" # "credit"
    BY DEF RaceKinds
  <2> QED BY <1>1, <2>1, CheckMade
<1>3. CASE deductFlows'[o] = deductFlows[o]
  BY <1>1, <1>2, <1>3 DEF DeductedFirst
<1>4. ASSUME NEW w \in Workers, NEW op \in {"refund", "reverse"}, DeductWrite(w, op),
             deductFlows'[o] # deductFlows[o]
      PROVE  /\ Len(deductFlows'[o]) <= 1
             /\ \A v \in Workers : ~(Checked(v, "deduct", o)')
  <2>1. job[w].pc = "write" /\ OpOf[job[w].caller] = op /\ Finish(w)
    BY <1>4 DEF DeductWrite, AtWrite
  <2>2. job[w].order \in Orders /\ job[w].amount \in Nat
    BY <1>t, <2>1, JobAtWrite
  <2>3. deductFlows' = [deductFlows EXCEPT ![job[w].order] = Append(@, job[w].amount)]
    BY <1>4 DEF DeductWrite
  <2>4. job[w].order = o /\ deductFlows'[o] = Append(deductFlows[o], job[w].amount)
    BY <1>t, <1>4, <2>2, <2>3 DEF RowsTyped
  <2>5. Checked(w, "deduct", o)
    BY <2>1, <2>4 DEF Checked
  <2>6. deductFlows'[o] = Append(<<>>, job[w].amount)
    BY <1>1, <2>4, <2>5
  <2>7. Len(deductFlows'[o]) = 1
    BY <2>2, <2>6, FirstRow
  <2>8. "deduct" \in RaceKinds
    BY DEF RaceKinds
  <2>9. \A v \in Workers : ~(Checked(v, "deduct", o)')
    BY <1>t, <1>1, <2>1, <2>5, <2>8, LastCheck
  <2> QED BY <2>7, <2>9
<1>5. UNCHANGED deductFlows \/ \E w \in Workers, op \in {"refund", "reverse"} : DeductWrite(w, op)
  BY DeductsChange
<1> QED BY <1>3, <1>4, <1>5 DEF DeductedFirst

(* Whatever tasks and endpoints deduct, with or without locks that hold,   *)
(* and whatever crashes: an order is deducted a second time only if some   *)
(* time two of them have both found it not deducted yet.                   *)
THEOREM SecondDeductionIsCaused == Spec => SecondDeductionHasCause
<1>1. ASSUME NEW o \in Orders
      PROVE  Spec => ([]~Racing("deduct", o) => [](Len(deductFlows[o]) <= 1))
  <2>1. Init => DeductedFirst(o)
    <3>1. Len(<<>>) = 0
      OBVIOUS
    <3> QED BY <3>1, NothingChecked DEF Init, DeductedFirst
  <2>2. TypeInv /\ LoadReverses /\ DeductedFirst(o) /\ ~Racing("deduct", o) /\ [Next]_vars
            => DeductedFirst(o)'
    BY DeductRaceStep
  <2>3. DeductedFirst(o) => Len(deductFlows[o]) <= 1
    BY DEF DeductedFirst
  <2> QED BY <2>1, <2>2, <2>3, Typed, ReversesLoad, PTL DEF Spec
<1> QED BY <1>1 DEF SecondDeductionHasCause

(* The same for credits, as long as B12 has left no settlement record: its *)
(* flow waits PENDING, and a PENDING flow may be marked FAILED, which does *)
(* not keep settle_single_order from crediting the order.                  *)
LEMMA AppendedRow ==
    ASSUME NEW R, NEW s \in Seq(R), NEW r
    PROVE  Append(s, r) # <<>>
<1>1. Len(Append(s, r)) = Len(s) + 1 /\ Len(s) \in Nat
  OBVIOUS
<1>2. Len(<<>>) = 0
  OBVIOUS
<1> QED BY <1>1, <1>2

LEMMA RecordsKept ==
    ASSUME TypeInv, [Next]_vars, NEW o \in Orders, settlement[o] # <<>>
    PROVE  settlement'[o] # <<>>
<1>t. RowsTyped /\ JobsTyped /\ settlement[o] \in Seq(RecordType)
  BY DEF TypeInv, RowsTyped
<1>0. CASE UNCHANGED settlement
  BY <1>0
<1>1. ASSUME NEW w \in Workers, FreezeWrite(w) PROVE settlement'[o] # <<>>
  <2> DEFINE p == job[w].order
             r == [status |-> "SETTLABLE", amount |-> job[w].amount, flow |-> Len(orderFlows[p]) + 1]
  <2>1. UNCHANGED settlement \/ settlement' = [settlement EXCEPT ![p] = Append(@, r)]
    BY <1>1 DEF FreezeWrite
  <2> HIDE DEF p, r
  <2>2. Append(settlement[o], r) # <<>>
    BY <1>t, AppendedRow
  <2> QED BY <1>t, <2>1, <2>2 DEF RowsTyped
<1>2. ASSUME NEW w \in Workers, NEW st \in {"SETTLED", "PAID"},
             settlement' = [settlement EXCEPT ![job[w].order][1].status = st]
      PROVE  settlement'[o] # <<>>
  <2> DEFINE r == [settlement[o][1] EXCEPT !.status = st]
  <2>1. settlement'[o] = IF job[w].order = o THEN [settlement[o] EXCEPT ![1] = r] ELSE settlement[o]
    BY <1>t, <1>2 DEF RowsTyped
  <2>2. 1 \in DOMAIN settlement[o] => r \in RecordType
    <3>1. 1 \in DOMAIN settlement[o] => settlement[o][1] \in RecordType
      BY <1>t
    <3> QED BY <1>2, <3>1 DEF RecordType, SettlementStatuses
  <2> HIDE DEF r
  <2>3. [settlement[o] EXCEPT ![1] = r] # <<>>
    BY <1>t, <2>2, ReplaceRow
  <2> QED BY <2>1, <2>3
<1>3. ASSUME NEW w \in Workers, UnfreezeWrite(w) \/ PaidWrite(w) PROVE settlement'[o] # <<>>
  <2>1. CASE UnfreezeWrite(w)
    <3>1. CASE account[Owner[job[w].order]].frozen >= job[w].amount
      <4>1. settlement' = [settlement EXCEPT ![job[w].order][1].status = "SETTLED"]
        BY <2>1, <3>1, Zenon DEF UnfreezeWrite
      <4> QED BY <1>2, <4>1
    <3>2. CASE ~(account[Owner[job[w].order]].frozen >= job[w].amount)
      <4>1. UNCHANGED settlement
        BY <2>1, <3>2, Zenon DEF UnfreezeWrite
      <4> QED BY <1>0, <4>1
    <3> QED BY <3>1, <3>2
  <2>2. CASE PaidWrite(w)
    <3>1. settlement' = [settlement EXCEPT ![job[w].order][1].status = "PAID"]
      BY <2>2 DEF PaidWrite
    <3> QED BY <1>2, <3>1
  <2> QED BY <1>3, <2>1, <2>2
<1>4. ASSUME NEW w \in Workers, NEW c \in Callers, NEW p \in Orders,
             \/ SettleBegin(w, c, p) \/ RefundBegin(w, c, p) \/ ReverseBegin(w, c, p)
             \/ FreezeBegin(w, c, p) \/ UnfreezeBegin(w, c, p) \/ PaidBegin(w, c, p)
      PROVE  UNCHANGED settlement
  BY <1>4 DEF SettleBegin, RefundBegin, ReverseBegin, FreezeBegin, UnfreezeBegin, PaidBegin
<1>5. ASSUME NEW w \in Workers,
             \/ SettleCalibrate(w) \/ SettleWrite(w) \/ ReverseLoad(w) \/ OpLock(w) \/ Crash(w)
             \/ DeductWrite(w, "refund") \/ DeductWrite(w, "reverse")
      PROVE  UNCHANGED settlement
  <2>1. CASE SettleCalibrate(w) \/ ReverseLoad(w) \/ OpLock(w) \/ Crash(w)
    BY <2>1 DEF SettleCalibrate, ReverseLoad, OpLock, Crash
  <2>2. CASE SettleWrite(w)
    BY <2>2 DEF SettleWrite
  <2>3. CASE DeductWrite(w, "refund") \/ DeductWrite(w, "reverse")
    BY <2>3 DEF DeductWrite
  <2> QED BY <1>5, <2>1, <2>2, <2>3
<1>6. ASSUME \/ \E p \in Orders, s \in OrderStatuses : OrderSync(p, s)
             \/ \E u \in Users : Withdraw(u)
             \/ UNCHANGED vars
      PROVE  UNCHANGED settlement
  BY <1>6 DEF OrderSync, Withdraw, vars
<1> QED BY <1>0, <1>1, <1>3, <1>4, <1>5, <1>6, StepCases

(* A worker that has seen a PENDING flow saw it before, or it is there.    *)
LEMMA SeenPending ==
    ASSUME TypeInv, [Next]_vars, NEW v \in Workers,
           job'[v].pc # "idle", job'[v].seen = "PENDING"
    PROVE  \/ job[v].pc # "idle" /\ job[v].seen = "PENDING" /\ job[v].order = job'[v].order
           \/ /\ orderFlows[job'[v].order] # <<>>
              /\ orderFlows[job'[v].order][1].status = "PENDING"
<1> DEFINE Goal == \/ job[v].pc # "idle" /\ job[v].seen = "PENDING" /\ job[v].order = job'[v].order
                   \/ /\ orderFlows[job'[v].order] # <<>>
                      /\ orderFlows[job'[v].order][1].status = "PENDING"
<1>t. RowsTyped /\ JobsTyped /\ LoadFindsFlow /\ job \in [Workers -> JobType]
  BY DEF TypeInv, JobsTyped, GoodJob
<1>i. Idle.pc = "idle"
  BY DEF Idle
<1>1. CASE job'[v] = job[v]
  BY <1>1
<1>2. ASSUME NEW w \in Workers, Finish(w) PROVE Goal
  BY <1>t, <1>i, <1>1, <1>2 DEF Finish
<1>3. ASSUME NEW w \in Workers, SettleCalibrate(w) \/ OpLock(w) PROVE Goal
  <2>1. job[w].pc # "idle" /\ (Finish(w) \/ Goto(w, "write"))
    BY <1>3 DEF SettleCalibrate, OpLock
  <2>2. CASE Goto(w, "write")
    <3>1. job'[v].seen = job[v].seen /\ job'[v].order = job[v].order
          /\ (v # w => job'[v] = job[v])
      BY <1>t, <2>2 DEF Goto, JobType
    <3> QED BY <1>1, <2>1, <3>1
  <2> QED BY <1>2, <2>1, <2>2
<1>4. ASSUME NEW w \in Workers, ReverseLoad(w) PROVE Goal
  <2> DEFINE o == job[w].order
             a == account[Owner[o]]
             j == [job[w] EXCEPT !.pc = "write", !.amount = orderFlows[o][1].amount,
                                 !.seen = orderFlows[o][1].status,
                                 !.read = [available |-> a.available, total |-> a.total]]
  <2>1. Finish(w) \/ job' = [job EXCEPT ![w] = j]
    BY <1>4 DEF ReverseLoad
  <2>2. j.seen = orderFlows[o][1].status /\ j.order = o
    BY <1>t DEF JobType
  <2>3. orderFlows[o] # <<>>
    BY <1>4, <1>t DEF ReverseLoad, LoadFindsFlow
  <2> HIDE DEF j
  <2> QED BY <1>t, <1>1, <1>2, <2>1, <2>2, <2>3
<1>5. ASSUME NEW w \in Workers, NEW c \in Callers, NEW o \in Orders,
             \/ SettleBegin(w, c, o) \/ RefundBegin(w, c, o) \/ ReverseBegin(w, c, o)
             \/ FreezeBegin(w, c, o) \/ UnfreezeBegin(w, c, o) \/ PaidBegin(w, c, o)
      PROVE  Goal
  <2>1. ASSUME NEW pc, NEW n, NEW seen, Start(w, c, o, pc, n, seen)
        PROVE  (v = w => job'[v].seen = seen /\ job'[v].order = o) /\ (v # w => job'[v] = job[v])
    BY <1>t, <2>1 DEF Start
  <2>2. CASE RefundBegin(w, c, o)
    <3>1. orderFlows[o] # <<>>
          /\ Start(w, c, o, "write", orderFlows[o][1].amount, orderFlows[o][1].status)
      BY <2>2 DEF RefundBegin
    <3> QED BY <1>1, <2>1, <3>1
  <2>3. CASE ~RefundBegin(w, c, o)
    <3>1. \E pc, n : Start(w, c, o, pc, n, "NONE")
      BY <1>5, <2>3 DEF SettleBegin, ReverseBegin, FreezeBegin, UnfreezeBegin, PaidBegin
    <3> QED BY <1>1, <2>1, <3>1
  <2> QED BY <2>2, <2>3
<1>6. ASSUME NEW w \in Workers,
             \/ SettleWrite(w) \/ DeductWrite(w, "refund") \/ DeductWrite(w, "reverse")
             \/ FreezeWrite(w) \/ UnfreezeWrite(w) \/ PaidWrite(w) \/ Crash(w)
      PROVE  Goal
  <2>1. CASE SettleWrite(w)
    BY <1>2, <2>1 DEF SettleWrite
  <2>2. CASE DeductWrite(w, "refund") \/ DeductWrite(w, "reverse")
    <3>1. Finish(w)
      BY <2>2 DEF DeductWrite
    <3> QED BY <1>2, <3>1
  <2>3. CASE FreezeWrite(w)
    BY <1>2, <2>3 DEF FreezeWrite
  <2>4. CASE UnfreezeWrite(w)
    <3>1. Finish(w)
      BY <2>4, Zenon DEF UnfreezeWrite
    <3> QED BY <1>2, <3>1
  <2>5. CASE PaidWrite(w) \/ Crash(w)
    BY <1>2, <2>5 DEF PaidWrite, Crash
  <2> QED BY <1>6, <2>1, <2>2, <2>3, <2>4, <2>5
<1>7. ASSUME \/ \E o \in Orders, s \in OrderStatuses : OrderSync(o, s)
             \/ \E u \in Users : Withdraw(u)
             \/ UNCHANGED vars
      PROVE  job'[v] = job[v]
  BY <1>7 DEF OrderSync, Withdraw, vars
<1>8. Goal
  <2> HIDE DEF Goal
  <2> QED BY <1>1, <1>3, <1>4, <1>5, <1>6, <1>7, StepCases DEF Goal
<1> QED BY <1>8

(* A flow is added by a settlement, or together with a settlement record.  *)
LEMMA NewFlow ==
    ASSUME TypeInv, [Next]_vars, NEW o \in Orders, Len(orderFlows'[o]) # Len(orderFlows[o])
    PROVE  \/ settlement'[o] # <<>>
           \/ \E w \in Workers, r \in FlowType :
                 /\ Finish(w) /\ Checked(w, "credit", o)
                 /\ r.status = "SUCCESS" /\ orderFlows'[o] = Append(orderFlows[o], r)
<1>t. RowsTyped /\ JobsTyped
  BY DEF TypeInv
<1>1. PICK w \in Workers : SettleWrite(w) \/ FreezeWrite(w)
  BY FlowsChange DEF LengthsKept
<1>2. job[w].pc = "write" /\ Finish(w)
  BY <1>1 DEF SettleWrite, FreezeWrite, AtWrite
<1> DEFINE p == job[w].order
           r == [status |-> "SUCCESS", amount |-> job[w].amount]
<1>3. p \in Orders /\ job[w].amount \in Nat
  BY <1>t, <1>2, JobAtWrite
<1>4. CASE SettleWrite(w)
  <2>1. UNCHANGED orderFlows \/ orderFlows' = [orderFlows EXCEPT ![p] = Append(orderFlows[p], r)]
    BY <1>4 DEF SettleWrite
  <2>2. r \in FlowType /\ r.status = "SUCCESS"
    BY <1>3 DEF FlowType
  <2>3. OpOf[job[w].caller] = "settle"
    BY <1>4 DEF SettleWrite, AtWrite
  <2> HIDE DEF p, r
  <2>4. p = o /\ orderFlows'[o] = Append(orderFlows[o], r)
    BY <1>t, <1>3, <2>1 DEF RowsTyped
  <2>5. Checked(w, "credit", o)
    BY <1>2, <2>3, <2>4 DEF Checked, p
  <2> QED BY <1>2, <2>2, <2>4, <2>5
<1>5. CASE FreezeWrite(w)
  <2> DEFINE s == [status |-> "SETTLABLE", amount |-> job[w].amount, flow |-> Len(orderFlows[p]) + 1]
             f == [status |-> "PENDING", amount |-> job[w].amount]
  <2>1. \/ UNCHANGED orderFlows
        \/ /\ orderFlows' = [orderFlows EXCEPT ![p] = Append(orderFlows[p], f)]
           /\ settlement' = [settlement EXCEPT ![p] = Append(settlement[p], s)]
    BY <1>5 DEF FreezeWrite
  <2>2. settlement[p] \in Seq(RecordType)
    BY <1>t, <1>3 DEF RowsTyped
  <2> HIDE DEF p, s, f
  <2>3. p = o /\ settlement'[o] = Append(settlement[o], s)
    BY <1>t, <1>3, <2>1 DEF RowsTyped
  <2>4. Append(settlement[o], s) # <<>>
    BY <2>2, <2>3, AppendedRow
  <2> QED BY <2>3, <2>4
<1> QED BY <1>1, <1>4, <1>5

(* The first flow of an order without a record is a credit, and without a *)
(* race the only one.                                                      *)
CreditedFirst(o) ==
    settlement[o] = <<>> =>
        /\ Len(orderFlows[o]) <= 1
        /\ orderFlows[o] # <<>> => orderFlows[o][1].status = "SUCCESS"
        /\ \A w \in Workers :
              /\ job[w].pc # "idle" /\ job[w].seen = "PENDING" => job[w].order # o
              /\ Checked(w, "credit", o) => orderFlows[o] = <<>>

LEMMA FirstStaysCredit ==
    ASSUME TypeInv, TypeInv', [Next]_vars, NEW o \in Orders,
           CreditedFirst(o), settlement[o] = <<>>, settlement'[o] = <<>>, orderFlows'[o] # <<>>
    PROVE  orderFlows'[o][1].status = "SUCCESS"
<1>t. RowsTyped /\ JobsTyped /\ orderFlows[o] \in Seq(FlowType)
  BY DEF TypeInv, RowsTyped
<1>1. CASE orderFlows[o] # <<>>
  <2>1. orderFlows[o][1].status = "SUCCESS" /\ 1 \in DOMAIN orderFlows[o]
    BY <1>t, <1>1 DEF CreditedFirst
  <2>2. CASE FlowsGrow
    BY <2>1, <2>2 DEF FlowsGrow
  <2>3. ASSUME NEW w \in Workers, NEW op \in {"refund", "reverse"}, DeductWrite(w, op)
        PROVE  orderFlows'[o] = orderFlows[o]
    <3>1. CASE job[w].seen = "PENDING"
      <4>1. job[w].order # o
        BY <2>3, <3>1 DEF CreditedFirst, DeductWrite, AtWrite
      <4>2. orderFlows' = [orderFlows EXCEPT ![job[w].order][1].status = "FAILED"]
        BY <2>3, <3>1 DEF DeductWrite
      <4> QED BY <1>t, <4>1, <4>2 DEF RowsTyped
    <3>2. CASE job[w].seen # "PENDING"
      BY <2>3, <3>2 DEF DeductWrite
    <3> QED BY <3>1, <3>2
  <2> QED BY <2>1, <2>2, <2>3, GrowOrDeduct
<1>2. CASE orderFlows[o] = <<>>
  <2>1. Len(orderFlows'[o]) # Len(orderFlows[o])
    <3>1. orderFlows'[o] \in Seq(FlowType)
      BY DEF TypeInv, RowsTyped
    <3> QED BY <1>2, <3>1
  <2>2. PICK r \in FlowType : r.status = "SUCCESS" /\ orderFlows'[o] = Append(<<>>, r)
    BY <1>2, <2>1, NewFlow
  <2>3. Append(<<>>, r)[1] = r
    OBVIOUS
  <2> QED BY <2>2, <2>3
<1> QED BY <1>1, <1>2

LEMMA CreditRaceStep ==
    ASSUME NEW o \in Orders, TypeInv, TypeInv', LoadReverses, CreditedFirst(o),
           ~Racing("credit", o), [Next]_vars
    PROVE  CreditedFirst(o)'
<1>t. RowsTyped /\ JobsTyped
  BY DEF TypeInv
<1> SUFFICES ASSUME settlement'[o] = <<>> PROVE CreditedFirst(o)'
  BY DEF CreditedFirst
<1>1. settlement[o] = <<>> /\ CreditedFirst(o)
  BY RecordsKept
<1>2. orderFlows'[o] # <<>> => orderFlows'[o][1].status = "SUCCESS"
  BY <1>1, FirstStaysCredit
<1>3. ASSUME NEW v \in Workers, job'[v].pc # "idle", job'[v].seen = "PENDING"
      PROVE  job'[v].order # o
  <2>1. SUFFICES ASSUME job'[v].order = o PROVE FALSE
    OBVIOUS
  <2>2. \/ job[v].pc # "idle" /\ job[v].seen = "PENDING" /\ job[v].order = o
        \/ orderFlows[o] # <<>> /\ orderFlows[o][1].status = "PENDING"
    BY <1>3, <2>1, SeenPending
  <2> QED BY <1>1, <2>2 DEF CreditedFirst
<1>4. /\ Len(orderFlows[o]) <= 1
      /\ \A v \in Workers : Checked(v, "credit", o) => orderFlows[o] = <<>>
  BY <1>1 DEF CreditedFirst
<1>k. "credit" \in RaceKinds /\ "credit" # "deduct"
  BY DEF RaceKinds
<1>s. orderFlows[o] \in Seq(FlowType) /\ orderFlows'[o] \in Seq(FlowType)
  BY DEF TypeInv, RowsTyped
<1>5. /\ Len(orderFlows'[o]) <= 1
      /\ \A v \in Workers : Checked(v, "credit", o)' => orderFlows'[o] = <<>>
  <2>1. CASE Len(orderFlows'[o]) = Len(orderFlows[o])
    <3>1. ASSUME NEW v \in Workers, Checked(v, "credit", o)' PROVE orderFlows[o] = <<>>
      <4>1. Checked(v, "credit", o) \/ \E c \in Callers : SettleBegin(v, c, o)
        BY <1>k, <3>1, CheckMade
      <4>2. (\E c \in Callers : SettleBegin(v, c, o)) => orderFlows[o] = <<>>
        BY <1>1 DEF CreditedFirst, SettleBegin
      <4> QED BY <1>4, <4>1, <4>2
    <3>2. orderFlows[o] = <<>> => orderFlows'[o] = <<>>
      BY <1>s, <2>1
    <3> QED BY <1>4, <2>1, <3>1, <3>2
  <2>2. CASE Len(orderFlows'[o]) # Len(orderFlows[o])
    <3>1. PICK w \in Workers, r \in FlowType :
              /\ Finish(w) /\ Checked(w, "credit", o)
              /\ orderFlows'[o] = Append(orderFlows[o], r)
      BY <2>2, NewFlow
    <3>2. Len(orderFlows'[o]) = 1
      <4>1. orderFlows'[o] = Append(<<>>, r)
        BY <1>4, <3>1
      <4> QED BY <4>1
    <3>3. \A v \in Workers : ~(Checked(v, "credit", o)')
      BY <1>t, <1>k, <3>1, LastCheck
    <3> QED BY <3>2, <3>3
  <2> QED BY <2>1, <2>2
<1> QED BY <1>2, <1>3, <1>5 DEF CreditedFirst

(* Whatever tasks and endpoints settle, refund and freeze, with or without *)
(* locks that hold, and whatever crashes: an order has a second ORDER flow *)
(* only when B12 has a settlement record of it, or some time two           *)
(* settlements have both found no flow that stops them.                    *)
THEOREM SecondCreditIsCaused == Spec => SecondCreditHasCause
<1>1. ASSUME NEW o \in Orders
      PROVE  Spec => ([]~Racing("credit", o)
                          => [](Len(orderFlows[o]) > 1 => settlement[o] # <<>>))
  <2>1. Init => CreditedFirst(o)
    <3>1. Len(<<>>) = 0
      OBVIOUS
    <3> QED BY <3>1, NothingChecked DEF Init, CreditedFirst
  <2>2. TypeInv /\ TypeInv' /\ LoadReverses /\ CreditedFirst(o) /\ ~Racing("credit", o)
            /\ [Next]_vars => CreditedFirst(o)'
    BY CreditRaceStep
  <2>3. TypeInv /\ CreditedFirst(o) => (Len(orderFlows[o]) > 1 => settlement[o] # <<>>)
    <3>1. TypeInv => Len(orderFlows[o]) \in Nat
      BY DEF TypeInv, RowsTyped
    <3> QED BY <3>1 DEF CreditedFirst
  <2> QED BY <2>1, <2>2, <2>3, Typed, ReversesLoad, PTL DEF Spec
<1> QED BY <1>1 DEF SecondCreditHasCause
=============================================================================
