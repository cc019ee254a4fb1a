------------------------- MODULE OrderStatusProofs -------------------------
(***************************************************************************)
(* Theorems about OrderStatus: type correctness, and where the steps come  *)
(* from that no transition table has.                                      *)
(***************************************************************************)
EXTENDS OrderStatus, TLAPS

(* Every writer but the synchronisation has decided on the status it read, *)
(* the refund on REFUNDED; a reader fills the cache with a status.         *)
Decided(j) ==
    \/ j.kind = "sync"
    \/ j.kind = "close" /\ j.seen = "PENDING" /\ j.target = "INVALID"
    \/ j.kind = "refund" /\ j.seen = "REFUNDED" /\ j.target = "REFUNDED"
    \/ j.kind \in {"b12", "cps"} /\ j.seen \in Statuses /\ j.target \in Table(j.kind, j.seen)

JobsDecided ==
    \A w \in Workers :
        /\ job[w].pc \in {"persist", "insert"} => job[w].kind = "sync"
        /\ job[w].pc \in {"load", "write"} => Decided(job[w])
        /\ job[w].pc = "fill" => job[w].seen \in Statuses

Inv == TypeOK /\ JobsDecided

JobType == [pc : {"idle", "persist", "insert", "load", "write", "invalidate", "fill",
                  "expire"},
            kind : Kinds \cup {None}, seen : Statuses \cup {None},
            target : Statuses \cup {None}]

-----------------------------------------------------------------------------
(* A known channel status maps to a status of the row, any other to None. *)
LEMMA MappedType ==
    ASSUME NEW c \in DOMAIN ChannelNext PROVE Mapped(c) \in Statuses \cup {None}
BY DEF ChannelNext, Mapped, Statuses

(* The channel's own states are closed under its steps. *)
LEMMA ChannelClosed ==
    ASSUME NEW c \in DOMAIN ChannelNext PROVE ChannelNext[c] \subseteq DOMAIN ChannelNext
BY DEF ChannelNext

LEMMA InitHolds == Init => Inv
<1> SUFFICES ASSUME Init PROVE Inv
    OBVIOUS
<1>1. cache \in [val : Statuses \cup {None}, expires : BOOLEAN] /\ ~cache.expires
    BY DEF Init, Uncached
<1>2. \A w \in Workers : job[w] \in JobType /\ job[w].pc = "idle"
    BY DEF Init, Idle, JobType
<1>3. faults \in 0 .. MaxFaults /\ edits \in 0 .. MaxEdits
    BY StatusAssumption DEF Init
<1>4. job \in [Workers -> JobType]
    BY <1>2 DEF Init
<1> QED BY <1>1, <1>2, <1>3, <1>4 DEF Init, Inv, TypeOK, JobsDecided, JobType

-----------------------------------------------------------------------------
LEMMA InvStep == Inv /\ [Next]_vars => Inv'
<1> SUFFICES ASSUME Inv, [Next]_vars PROVE Inv'
    OBVIOUS
<1> USE StatusAssumption DEF Inv, TypeOK, JobsDecided
<1>1. ASSUME NEW w \in Workers, Finish(w),
             /\ UNCHANGED channel
             /\ status' \in Statuses \cup {None}
             /\ cache' \in [val : Statuses \cup {None}, expires : BOOLEAN]
             /\ cache'.expires => cache'.val # None
             /\ leaked' \in BOOLEAN /\ faults' \in 0 .. MaxFaults /\ UNCHANGED edits
      PROVE  Inv'
    BY <1>1 DEF Finish, Idle
<1>2. ASSUME NEW w \in Workers, NEW j \in JobType, job' = [job EXCEPT ![w] = j],
             j.pc \in {"persist", "insert"} => j.kind = "sync",
             j.pc \in {"load", "write"} => Decided(j),
             j.pc = "fill" => j.seen \in Statuses,
             UNCHANGED channel,
             status' \in Statuses \cup {None},
             cache' \in [val : Statuses \cup {None}, expires : BOOLEAN],
             cache'.expires => cache'.val # None,
             UNCHANGED leaked, UNCHANGED faults, edits' \in 0 .. MaxEdits
      PROVE  Inv'
    BY <1>2 DEF JobType
<1>3. CASE ChannelMoves
    BY <1>3, ChannelClosed DEF ChannelMoves
<1>4. CASE CacheExpires
    BY <1>4 DEF CacheExpires, Uncached
<1>5. ASSUME NEW w \in Workers, SyncPull(w) PROVE Inv'
  <2> DEFINE j == [pc |-> "persist", kind |-> "sync", seen |-> None,
                   target |-> Mapped(channel)]
  <2>1. j \in JobType
      BY <1>5, MappedType DEF JobType, SyncPull
  <2> QED BY <1>2, <1>5, <2>1 DEF SyncPull, Start
<1>6. ASSUME NEW w \in Workers, CloseRead(w) PROVE Inv'
  <2> DEFINE j == [pc |-> "write", kind |-> "close", seen |-> status,
                   target |-> "INVALID"]
  <2>1. j \in JobType /\ Decided(j)
      BY <1>6 DEF JobType, CloseRead, Statuses, Decided
  <2> QED BY <1>2, <1>6, <2>1 DEF CloseRead, Start
<1>7. ASSUME NEW w \in Workers, ReadMiss(w) PROVE Inv'
  <2> DEFINE j == [pc |-> "fill", kind |-> None, seen |-> status, target |-> None]
  <2>1. j \in JobType /\ j.seen \in Statuses
      BY <1>7 DEF JobType, ReadMiss
  <2> QED BY <1>2, <1>7, <2>1 DEF ReadMiss, Start
<1>8. ASSUME NEW w \in Workers, NEW kind \in {"b12", "cps"}, NEW target \in Statuses,
             EditRead(w, kind, target)
      PROVE  Inv'
  <2> DEFINE j == [pc |-> "write", kind |-> kind, seen |-> status, target |-> target]
  <2>1. j \in JobType /\ Decided(j)
      BY <1>8 DEF JobType, EditRead, Decided
  <2> QED BY <1>2, <1>8, <2>1 DEF EditRead, Start
<1>9. ASSUME NEW w \in Workers, SyncPersist(w) PROVE Inv'
  <2>1. CASE status = None
    <3> DEFINE j == [job[w] EXCEPT !.pc = "insert",
                                   !.target = IF @ = None THEN "PENDING" ELSE @]
    <3>1. j \in JobType /\ j.pc = "insert" /\ j.kind = "sync"
        BY <1>9 DEF SyncPersist, JobType, Statuses
    <3>2. job' = [job EXCEPT ![w] = j]
        BY <1>9, <2>1 DEF SyncPersist
    <3> QED BY <1>2, <1>9, <3>1, <3>2 DEF SyncPersist
  <2>2. CASE status # None /\ job[w].target = None
      BY <1>1, <1>9, <2>2 DEF SyncPersist
  <2>3. CASE status # None /\ job[w].target # None
    <3> DEFINE j == [job[w] EXCEPT !.pc = "write"]
    <3>1. j \in JobType /\ j.pc = "write" /\ Decided(j)
        BY <1>9 DEF SyncPersist, JobType, Decided
    <3>2. job' = [job EXCEPT ![w] = j]
        BY <1>9, <2>3 DEF SyncPersist, Goto
    <3> QED BY <1>2, <1>9, <3>1, <3>2 DEF SyncPersist
  <2> QED BY <2>1, <2>2, <2>3
<1>10. ASSUME NEW w \in Workers, SyncInsert(w) PROVE Inv'
    BY <1>1, <1>10 DEF SyncInsert
<1>11. ASSUME NEW w \in Workers, Write(w) PROVE Inv'
  <2> DEFINE j == [job[w] EXCEPT !.pc = "invalidate"]
  <2>1. j \in JobType /\ j.pc = "invalidate"
      BY DEF JobType
  <2> QED BY <1>2, <1>11, <2>1 DEF Write, Goto
<1>12. ASSUME NEW w \in Workers, Invalidate(w) PROVE Inv'
  <2>1. /\ cache' \in [val : Statuses \cup {None}, expires : BOOLEAN]
        /\ cache'.expires => cache'.val # None
    <3>1. CASE cache' = Uncached
        BY <3>1 DEF Uncached
    <3> QED BY <1>12, <3>1 DEF Invalidate
  <2>2. faults' \in 0 .. MaxFaults
      BY <1>12 DEF Invalidate, Fault, Smooth
  <2> QED BY <1>1, <1>12, <2>1, <2>2 DEF Invalidate
<1>13. ASSUME NEW w \in Workers, Fill(w) PROVE Inv'
  <2>1. CASE /\ Smooth
             /\ cache' = [val |-> job[w].seen, expires |-> FALSE]
             /\ Goto(w, "expire")
    <3> DEFINE j == [job[w] EXCEPT !.pc = "expire"]
    <3>1. j \in JobType /\ j.pc = "expire"
        BY DEF JobType
    <3>2. /\ cache' \in [val : Statuses \cup {None}, expires : BOOLEAN]
          /\ cache'.expires = FALSE
        BY <2>1
    <3>3. job' = [job EXCEPT ![w] = j]
        BY <2>1 DEF Goto
    <3> QED BY <1>2, <1>13, <2>1, <3>1, <3>2, <3>3 DEF Fill, Smooth
  <2>2. CASE Fault("redis") /\ UNCHANGED cache /\ Finish(w)
      BY <1>1, <1>13, <2>2 DEF Fill, Fault
  <2> QED BY <1>13, <2>1, <2>2 DEF Fill
<1>14. ASSUME NEW w \in Workers, Expire(w) PROVE Inv'
  <2>1. /\ cache' \in [val : Statuses \cup {None}, expires : BOOLEAN]
        /\ cache'.expires => cache'.val # None
    <3>1. CASE cache' = [cache EXCEPT !.expires = cache.val # None]
        BY <3>1
    <3> QED BY <1>14, <3>1 DEF Expire
  <2>2. faults' \in 0 .. MaxFaults
      BY <1>14 DEF Expire, Fault, Smooth
  <2>3. leaked' \in BOOLEAN
      BY <1>14 DEF Expire
  <2> QED BY <1>1, <1>14, <2>1, <2>2, <2>3 DEF Expire
<1>15. ASSUME NEW w \in Workers, Crash(w) PROVE Inv'
    BY <1>1, <1>15 DEF Crash, Fault
<1>16. CASE UNCHANGED vars
    BY <1>16 DEF vars
<1>17. ASSUME NEW w \in Workers, RefundCheck(w) PROVE Inv'
  <2> DEFINE j == [pc |-> "load", kind |-> "refund", seen |-> status,
                   target |-> "REFUNDED"]
  <2>1. j \in JobType /\ Decided(j)
      BY <1>17 DEF JobType, RefundCheck, Statuses, Decided
  <2> QED BY <1>2, <1>17, <2>1 DEF RefundCheck, Start
<1>18. ASSUME NEW w \in Workers, RefundLoad(w) PROVE Inv'
  <2>1. CASE Finish(w)
      BY <1>1, <1>18, <2>1 DEF RefundLoad
  <2>2. ASSUME NEW pc \in {"invalidate", "write"}, Goto(w, pc) PROVE Inv'
    <3> DEFINE j == [job[w] EXCEPT !.pc = pc]
    <3>1. j \in JobType /\ j.pc = pc /\ Decided(j)
        BY <1>18 DEF RefundLoad, JobType, Decided
    <3>2. job' = [job EXCEPT ![w] = j]
        BY <2>2 DEF Goto
    <3> QED BY <1>2, <1>18, <3>1, <3>2 DEF RefundLoad
  <2> QED BY <1>18, <2>1, <2>2 DEF RefundLoad
<1> QED
    BY <1>3, <1>4, <1>5, <1>6, <1>7, <1>8, <1>9, <1>10, <1>11, <1>12, <1>13, <1>14,
       <1>15, <1>16, <1>17, <1>18 DEF Next, Step

(* Every reachable state is well typed: row and cache hold statuses of the *)
(* table whatever the channel sends, and only a filled entry expires.      *)
THEOREM TypeCorrect == Spec => []TypeOK
<1>1. Inv => TypeOK
    BY DEF Inv
<1> QED BY <1>1, InitHolds, InvStep, PTL DEF Spec

-----------------------------------------------------------------------------
(* Of the steps of the row that neither service's table has, each one      *)
(* stores what the channel said or is the second of two writers that raced *)
(* (the UPDATEs of order_dao.py and order_sync_dao.py by id).              *)
THEOREM IllegalIsCaused == Spec => IllegalHasCause
<1> DEFINE Caused ==
        \A a, b \in Statuses :
            (/\ status = a /\ status' = b /\ a # b
             /\ b \notin Table("b12", a) \cup Table("cps", a))
            => \E w \in Workers : /\ Writer(w)
                                  /\ job[w].kind = "sync" \/ job[w].seen # a
<1>1. ASSUME Inv, [Next]_vars PROVE Caused
  <2>1. CASE UNCHANGED status
      BY <2>1
  <2>2. ASSUME NEW w \in Workers, SyncInsert(w) PROVE Caused
      BY <2>2, NoneAssumption DEF SyncInsert
  <2>3. ASSUME NEW w \in Workers, Write(w) PROVE Caused
    <3> SUFFICES ASSUME NEW a \in Statuses, NEW b \in Statuses,
                        status = a, status' = b, a # b,
                        b \notin Table("b12", a) \cup Table("cps", a)
                 PROVE  Writer(w) /\ (job[w].kind = "sync" \/ job[w].seen # a)
        OBVIOUS
    <3>1. Writer(w)
        BY <1>1, <2>3 DEF Write, Writer, Goto, Inv, TypeOK
    <3>2. Decided(job[w]) /\ job[w].target = b
        BY <1>1, <2>3 DEF Write, Inv, JobsDecided
    <3>3. "INVALID" \in Table("b12", "PENDING")
        BY DEF Table
    <3> QED BY <3>1, <3>2, <3>3 DEF Decided
  <2> QED
      BY <1>1, <2>1, <2>2, <2>3
      DEF Next, Step, vars, ChannelMoves, CacheExpires, SyncPull, CloseRead, ReadMiss,
          RefundCheck, RefundLoad, Crash, EditRead, SyncPersist, Invalidate, Fill, Expire
<1>2. Spec => []Inv
    BY InitHolds, InvStep, PTL DEF Spec
<1> QED BY <1>1, <1>2, PTL DEF IllegalHasCause, Spec
=============================================================================
