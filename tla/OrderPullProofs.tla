--------------------------- MODULE OrderPullProofs ---------------------------
(***************************************************************************)
(* What holds of OrderPull for every length of time, window, run and queue *)
(* and any number of failures: types, and that an order the cursor has     *)
(* passed is stored or was given up for a reason the code leaves alone.    *)
(***************************************************************************)
EXTENDS OrderPull, TLAPS

PCs == {"idle", "begin", "pull", "calling", "queue", "sort", "check", "insert", "save"}
ProcType == [pc : PCs, start : 0 .. MaxTime, until : 0 .. MaxTime, win : Windows,
             attempt : 0 .. MaxRetry, got : SUBSET Orders]

USE PullAssumption DEF PCs

-----------------------------------------------------------------------------
(* The operators: a breaker stays one, windows end within time, ...        *)
LEMMA BreakerSteps ==
    ASSUME NEW b \in Breakers
    PROVE  /\ Probed(b) \in Breakers /\ Succeeded(b) \in Breakers
           /\ Failed(b) \in Breakers /\ Ripened(b) \in Breakers
           /\ Expired(b) \subseteq Breakers
<1> USE ThresholdAssumption DEF Breakers
<1>1. Probed(b) \in Breakers
  BY DEF Probed
<1>2. Closed \in Breakers
  BY DEF Closed
<1>3. \A n \in 0 .. Threshold : Opened(n) \in Breakers
  BY DEF Opened
<1>4. b.fails \in 0 .. Threshold /\ (b.fails < Threshold => b.fails + 1 \in 0 .. Threshold)
  OBVIOUS
<1>5. \A c \in Breakers, n \in 0 .. Threshold : [c EXCEPT !.fails = n] \in Breakers
  OBVIOUS
<1>6. Failed(b) \in Breakers
  BY <1>3, <1>4, <1>5 DEF Failed
<1>7. Ripened(b) \in Breakers
  BY DEF Ripened
<1>8. [Closed EXCEPT !.fails = b.fails] \in Breakers /\ [b EXCEPT !.fails = 0] \in Breakers
  BY <1>2, <1>4, <1>5
<1>9. Expired(b) \subseteq Breakers
  BY <1>8 DEF Expired
<1> QED BY <1>1, <1>2, <1>6, <1>7, <1>9 DEF Succeeded

LEMMA WindowType ==
    ASSUME NEW from \in 0 .. MaxTime, NEW until \in 0 .. MaxTime
    PROVE  Window(from, until) \in Windows /\ Window(from, until).from = from
<1>1. Least(from + WindowLen, until) \in 0 .. MaxTime
  BY DEF Least
<1> QED BY <1>1 DEF Window, Windows

LEMMA CoversType ==
    ASSUME NEW w \in [from : Int, to : Int], w.from >= 0, w.to <= MaxTime
    PROVE  Covers(w) \subseteq Orders
  BY DEF Covers, Orders

(* ... and a run covers a span of time within what has passed. *)
LEMMA ProductType == MaxWindows * WindowLen \in Nat
<1>1. \A m, n \in Nat : m * n \in Nat
  OBVIOUS
<1> QED BY <1>1

LEMMA IdleType == Idle \in ProcType
  BY DEF Idle, ProcType, NoWindow, Windows

-----------------------------------------------------------------------------
(* What a step does to the processes: one of them takes a next state.      *)
Becomes(p, j) == proc' = [proc EXCEPT ![p] = j]

LEMMA BecomesType ==
    ASSUME proc \in [Procs -> ProcType], NEW p \in Procs, NEW j \in ProcType, Becomes(p, j)
    PROVE  /\ proc' \in [Procs -> ProcType] /\ proc'[p] = j
           /\ \A q \in Procs \ {p} : proc'[q] = proc[q]
  BY DEF Becomes

LEMMA GotoBecomes ==
    ASSUME proc \in [Procs -> ProcType], NEW p \in Procs, NEW pc \in PCs, Goto(p, pc)
    PROVE  \E j \in ProcType : /\ Becomes(p, j) /\ j.pc = pc /\ j.got = proc[p].got
                               /\ j.start = proc[p].start /\ j.win = proc[p].win
<1> DEFINE j == [proc[p] EXCEPT !.pc = pc]
<1>1. j \in ProcType /\ j.pc = pc /\ j.got = proc[p].got
      /\ j.start = proc[p].start /\ j.win = proc[p].win
  BY DEF ProcType
<1>2. Becomes(p, j)
  BY DEF Becomes, Goto
<1> HIDE DEF j
<1> QED BY <1>1, <1>2

(* ... with the orders it has got. *)
LEMMA GotBecomes ==
    ASSUME proc \in [Procs -> ProcType], NEW p \in Procs, NEW pc \in PCs,
           NEW got \in SUBSET Orders, proc' = [proc EXCEPT ![p].pc = pc, ![p].got = got]
    PROVE  \E j \in ProcType : /\ Becomes(p, j) /\ j.pc = pc /\ j.got = got
                               /\ j.start = proc[p].start /\ j.win = proc[p].win
<1> DEFINE j == [proc[p] EXCEPT !.pc = pc, !.got = got]
<1>1. j \in ProcType /\ j.pc = pc /\ j.got = got
      /\ j.start = proc[p].start /\ j.win = proc[p].win
  BY DEF ProcType
<1>2. Becomes(p, j)
  BY DEF Becomes
<1> HIDE DEF j
<1> QED BY <1>1, <1>2

(* The run of p behind the end of a window: done, or at the next one. *)
LEMMA NextWindowBecomes ==
    ASSUME proc \in [Procs -> ProcType], NEW p \in Procs, NextWindow(p)
    PROVE  \E j \in ProcType : /\ Becomes(p, j)
                               /\ \/ j = Idle
                                  \/ /\ j.pc = "pull" /\ j.start = proc[p].start
                                     /\ j.win.from = proc[p].win.to
<1>1. CASE End(p)
  BY <1>1, IdleType DEF End, Becomes
<1>2. CASE ~End(p)
  <2> DEFINE done == proc[p].win.to
             win  == Window(done, proc[p].until)
             j    == [proc[p] EXCEPT !.pc = "pull", !.attempt = 1, !.got = {}, !.win = win]
  <2>1. done \in 0 .. MaxTime /\ proc[p].until \in 0 .. MaxTime
    BY DEF ProcType, Windows
  <2>2. win \in Windows /\ win.from = done
    BY <2>1, WindowType
  <2>3. Becomes(p, j)
    BY <1>2 DEF NextWindow, Becomes
  <2> HIDE DEF done, win
  <2>4. j \in ProcType /\ j.pc = "pull" /\ j.start = proc[p].start /\ j.win = win
    <3>1. proc[p] \in ProcType /\ 1 \in 0 .. MaxRetry
      OBVIOUS
    <3> QED BY <2>2, <3>1 DEF ProcType
  <2> HIDE DEF j
  <2> QED BY <2>2, <2>3, <2>4 DEF done
<1> QED BY <1>1, <1>2

(* A failed call: the next attempt at the same window, or the queue. *)
LEMMA CallFailsBecomes ==
    ASSUME proc \in [Procs -> ProcType], NEW p \in Procs, CallFails(p)
    PROVE  \E j \in ProcType : /\ Becomes(p, j) /\ j.pc \in {"pull", "queue"}
                               /\ j.start = proc[p].start /\ j.win = proc[p].win
<1>1. proc[p] \in ProcType
  OBVIOUS
<1>2. CASE proc[p].attempt < MaxRetry
  <2> DEFINE j == [proc[p] EXCEPT !.pc = "pull", !.attempt = @ + 1]
  <2>1. proc[p].attempt + 1 \in 0 .. MaxRetry
    BY <1>1, <1>2 DEF ProcType
  <2>2. j \in ProcType /\ j.pc = "pull" /\ j.start = proc[p].start /\ j.win = proc[p].win
    BY <1>1, <2>1 DEF ProcType
  <2>3. Becomes(p, j)
    BY <1>2 DEF CallFails, Becomes
  <2> HIDE DEF j
  <2> QED BY <2>2, <2>3
<1>3. CASE ~(proc[p].attempt < MaxRetry)
  BY <1>3, GotoBecomes DEF CallFails
<1> QED BY <1>2, <1>3

(* A run that begins, at its first window, if it does. *)
LEMMA BeginBecomes ==
    ASSUME TypeOK, NEW p \in Procs, Begin(p)
    PROVE  \E j \in ProcType : /\ Becomes(p, j)
                               /\ \/ j = Idle
                                  \/ j.pc = "pull" /\ j.win.from = j.start
<1>1. PICK known \in BOOLEAN :
        /\ known => cursor # None
        /\ LET back  == IF now < Lookback THEN 0 ELSE now - Lookback
               start == IF known THEN cursor ELSE back
               until == Least(now, start + MaxWindows * WindowLen)
           IN IF Blocks(breaker) \/ start >= now
              THEN End(p)
              ELSE proc' = [proc EXCEPT ![p] =
                      [pc |-> "pull", start |-> start, until |-> until,
                       win |-> Window(start, until), attempt |-> 1, got |-> {}]]
  BY DEF Begin
<1> DEFINE back  == IF now < Lookback THEN 0 ELSE now - Lookback
           start == IF known THEN cursor ELSE back
           until == Least(now, start + MaxWindows * WindowLen)
           j == [pc |-> "pull", start |-> start, until |-> until,
                 win |-> Window(start, until), attempt |-> 1, got |-> {}]
<1>2. start \in 0 .. MaxTime
  BY <1>1 DEF TypeOK
<1> HIDE DEF start
<1>3. until \in 0 .. MaxTime
  BY <1>2, ProductType DEF Least, TypeOK
<1> HIDE DEF until
<1>4. j \in ProcType /\ j.win.from = j.start /\ j.pc = "pull"
  BY <1>2, <1>3, WindowType DEF ProcType
<1>5. End(p) \/ Becomes(p, j)
  BY <1>1 DEF Becomes, start, until
<1> HIDE DEF j
<1> QED BY <1>4, <1>5, IdleType DEF End, Becomes
-----------------------------------------------------------------------------
(* Types. *)
LEMMA InitType == Init => TypeOK
<1>1. Closed \in Breakers
  BY ThresholdAssumption DEF Closed, Breakers
<1> QED BY <1>1, IdleType DEF Init, TypeOK, ProcType

LEMMA StepType == TypeOK /\ [Next]_vars => TypeOK'
<1> SUFFICES ASSUME TypeOK, [Next]_vars PROVE TypeOK'
  OBVIOUS
<1>0. proc \in [Procs -> ProcType] /\ breaker \in Breakers
  BY DEF TypeOK, ProcType
<1>1. ASSUME NEW kind, Fault(kind) PROVE faults' \in 0 .. MaxFaults
  BY <1>1 DEF Fault, TypeOK
<1>2. ASSUME Smooth PROVE faults' \in 0 .. MaxFaults
  BY <1>2 DEF Smooth, TypeOK
<1>3. ASSUME NEW p \in Procs, NEW j \in ProcType, Becomes(p, j)
      PROVE  proc' \in [Procs -> ProcType]
  BY <1>0, <1>3, BecomesType
<1>4. ASSUME NEW p \in Procs, NEW pc \in PCs, Goto(p, pc) PROVE proc' \in [Procs -> ProcType]
  BY <1>0, <1>3, <1>4, GotoBecomes
<1>5. ASSUME NEW p \in Procs, End(p) PROVE proc' \in [Procs -> ProcType]
  BY <1>3, <1>5, IdleType DEF End, Becomes
<1>6. ASSUME NEW p \in Procs, NEW orders \in SUBSET Orders, Drop(p, orders)
      PROVE  dropped' \subseteq Orders
  BY <1>6 DEF Drop, TypeOK
<1>7. ASSUME NEW from \in 0 .. MaxTime, NEW to \in 0 .. MaxTime, MoveCursor(from, to)
      PROVE  cursor' \in 0 .. MaxTime /\ dropped' \subseteq Orders
  <2> DEFINE w == [from |-> IF cursor = None THEN 0 ELSE cursor, to |-> from]
  <2>1. w \in [from : Int, to : Int] /\ w.from >= 0 /\ w.to <= MaxTime
    BY DEF TypeOK
  <2> HIDE DEF w
  <2>2. Covers(w) \subseteq Orders
    BY <2>1, CoversType
  <2> QED BY <1>7, <2>2 DEF MoveCursor, TypeOK, w
<1>8. ASSUME NEW p \in Procs
      PROVE  /\ Covers(proc[p].win) \subseteq Orders /\ proc[p].got \subseteq Orders
             /\ proc[p].win \in Windows /\ proc[p].win.to \in 0 .. MaxTime
             /\ proc[p].start \in 0 .. MaxTime
  <2>1. proc[p] \in ProcType
    BY <1>0
  <2> QED BY <2>1, CoversType DEF ProcType, Windows
<1>g. ASSUME NEW p \in Procs, NEW pc \in PCs, NEW got \in SUBSET Orders,
             proc' = [proc EXCEPT ![p].pc = pc, ![p].got = got]
      PROVE  proc' \in [Procs -> ProcType]
  <2>1. PICK j \in ProcType : Becomes(p, j)
    BY <1>0, <1>g, GotBecomes
  <2> QED BY <1>3, <2>1
<1> USE DEF TypeOK
<1>9. CASE Tick
  BY <1>9 DEF Tick
<1>10. CASE BreakerRipens \/ BreakerExpires
  BY <1>0, <1>10, BreakerSteps DEF BreakerRipens, BreakerExpires
<1>11. CASE OtherCall
  BY <1>0, <1>1, <1>2, <1>11, BreakerSteps DEF OtherCall
<1>12. CASE CursorExpires \/ QueueExpires
  <2>1. <<>> \in Seq(Windows)
    OBVIOUS
  <2>2. faults' \in 0 .. MaxFaults
    BY <1>1, <1>12 DEF CursorExpires, QueueExpires
  <2>3. CASE CursorExpires
    BY <2>2, <2>3 DEF CursorExpires
  <2>4. CASE QueueExpires
    BY <2>1, <2>2, <2>4 DEF QueueExpires
  <2> QED BY <1>12, <2>3, <2>4
<1>13. CASE Pop
  <2> DEFINE j == [Idle EXCEPT !.pc = "pull", !.win = Head(failed), !.attempt = MaxRetry]
  <2>1. Head(failed) \in Windows /\ Tail(failed) \in Seq(Windows)
    BY <1>13 DEF Pop
  <2>2. j \in ProcType
    <3>1. MaxRetry \in 0 .. MaxRetry
      OBVIOUS
    <3>2. \A i \in ProcType, w \in Windows :
             [i EXCEPT !.pc = "pull", !.win = w, !.attempt = MaxRetry] \in ProcType
      BY <3>1 DEF ProcType
    <3> QED BY <2>1, <3>2, IdleType
  <2>3. Becomes("retry", j) /\ "retry" \in Procs
    BY <1>13 DEF Pop, Becomes
  <2> HIDE DEF j
  <2>4. proc' \in [Procs -> ProcType]
    BY <1>3, <2>2, <2>3
  <2> QED BY <1>13, <2>1, <2>4 DEF Pop, ProcType
<1>14. ASSUME NEW start \in 0 .. MaxTime, SyncFrom(start) PROVE TypeOK'
  <2>1. start \in 0 .. MaxTime
    OBVIOUS
  <2>2. cursor' \in 0 .. MaxTime /\ dropped' \subseteq Orders
    BY <1>7, <1>14, <2>1 DEF SyncFrom
  <2>3. proc' \in [Procs -> ProcType]
    BY <1>4, <1>14 DEF SyncFrom
  <2> QED BY <1>14, <2>2, <2>3 DEF SyncFrom, ProcType
<1>15. ASSUME NEW p \in Procs, Begin(p) PROVE TypeOK'
  <2>1. proc' \in [Procs -> ProcType]
    BY <1>3, <1>15, BeginBecomes
  <2>2. faults' \in 0 .. MaxFaults
    BY <1>1, <1>2, <1>15 DEF Begin
  <2> QED BY <1>0, <1>15, <2>1, <2>2, BreakerSteps DEF Begin, ProcType
<1>16. ASSUME NEW p \in Procs, Call(p) PROVE TypeOK'
  <2>1. CASE Goto(p, "calling") /\ UNCHANGED dropped
    BY <1>0, <1>4, <1>16, <2>1, BreakerSteps DEF Call, ProcType
  <2>2. CASE /\ proc' = [proc EXCEPT ![p].pc = "save", ![p].got = {}]
             /\ Drop(p, Covers(proc[p].win))
    <3>0. {} \in SUBSET Orders
      OBVIOUS
    <3>1. proc' \in [Procs -> ProcType]
      BY <1>g, <2>2, <3>0
    <3>2. dropped' \subseteq Orders
      BY <1>6, <1>8, <2>2
    <3> QED BY <1>0, <1>16, <3>1, <3>2, BreakerSteps DEF Call, ProcType
  <2> QED BY <1>16, <2>1, <2>2 DEF Call
<1>17. ASSUME NEW p \in Procs, Answer(p) PROVE TypeOK'
  <2>1. PICK page \in SUBSET Covers(proc[p].win) :
          /\ IF page = Covers(proc[p].win) THEN Smooth ELSE Fault("page")
          /\ proc' = [proc EXCEPT ![p].pc = "sort", ![p].got = page]
          /\ Drop(p, Covers(proc[p].win) \ page)
    BY <1>17 DEF Answer
  <2>2. proc' \in [Procs -> ProcType]
    BY <1>8, <1>g, <2>1
  <2>3. dropped' \subseteq Orders
    BY <1>6, <1>8, <2>1
  <2>4. faults' \in 0 .. MaxFaults
    BY <1>1, <1>2, <2>1
  <2> QED BY <1>0, <1>17, <2>2, <2>3, <2>4, BreakerSteps DEF Answer, ProcType
<1>18. ASSUME NEW p \in Procs, CallFails(p) PROVE TypeOK'
  <2>1. proc' \in [Procs -> ProcType]
    BY <1>0, <1>3, <1>18, CallFailsBecomes
  <2> QED BY <1>0, <1>1, <1>18, <2>1, BreakerSteps DEF CallFails, ProcType
<1>19. ASSUME NEW p \in Procs, Queue(p) PROVE TypeOK'
  <2>1. failed' \in Seq(Windows)
    BY <1>8, <1>19 DEF Queue
  <2>2. proc' \in [Procs -> ProcType] /\ faults' \in 0 .. MaxFaults
    BY <1>1, <1>2, <1>5, <1>19 DEF Queue
  <2> QED BY <1>19, <2>1, <2>2 DEF Queue, ProcType
<1>20. ASSUME NEW p \in Procs, Sort(p) PROVE TypeOK'
  <2>1. faults' \in 0 .. MaxFaults
    BY <1>1, <1>2, <1>20 DEF Sort
  <2>2. CASE proc' = [proc EXCEPT ![p].pc = "check", ![p].got = @ \ stored]
    <3>1. proc[p].got \ stored \in SUBSET Orders
      BY <1>8
    <3>2. proc' \in [Procs -> ProcType]
      BY <1>g, <2>2, <3>1
    <3> QED BY <1>20, <2>1, <3>2 DEF Sort, ProcType
  <2>3. CASE Goto(p, "queue") \/ End(p)
    BY <1>4, <1>5, <1>20, <2>1, <2>3 DEF Sort, ProcType
  <2> QED BY <1>20, <2>2, <2>3 DEF Sort
<1>21. ASSUME NEW p \in Procs, Check(p) PROVE TypeOK'
  <2>1. proc[p].got \ stored \in SUBSET Orders
    BY <1>8
  <2>2. proc' = [proc EXCEPT ![p].pc = "insert", ![p].got = proc[p].got \ stored]
    BY <1>21 DEF Check
  <2>3. "insert" \in PCs
    BY DEF PCs
  <2> DEFINE rest == proc[p].got \ stored
  <2>4. proc' = [proc EXCEPT ![p].pc = "insert", ![p].got = rest] /\ rest \in SUBSET Orders
    BY <2>1, <2>2
  <2> HIDE DEF rest
  <2>5. proc' \in [Procs -> ProcType]
    BY <1>g, <2>3, <2>4
  <2> QED BY <1>21, <2>5 DEF Check, ProcType
<1>22. ASSUME NEW p \in Procs, Insert(p) PROVE TypeOK'
  <2>1. proc' \in [Procs -> ProcType]
    BY <1>4, <1>22 DEF Insert
  <2>2. stored' \subseteq Orders
    BY <1>8, <1>22 DEF Insert
  <2>3. dropped' \subseteq Orders
    <3>1. CASE UNCHANGED dropped
      BY <3>1
    <3>2. CASE Drop(p, proc[p].got \ stored')
      BY <1>6, <1>8, <3>2
    <3> QED BY <1>22, <3>1, <3>2 DEF Insert
  <2>4. faults' \in 0 .. MaxFaults
    BY <1>1, <1>2, <1>22 DEF Insert
  <2> QED BY <1>22, <2>1, <2>2, <2>3, <2>4 DEF Insert, ProcType
<1>23. ASSUME NEW p \in Procs, Save(p) PROVE TypeOK'
  <2>1. proc' \in [Procs -> ProcType]
    BY <1>0, <1>3, <1>23, NextWindowBecomes DEF Save
  <2>2. cursor' \in 0 .. MaxTime \cup {None} /\ dropped' \subseteq Orders
    <3>1. CASE UNCHANGED <<cursor, dropped>>
      BY <3>1
    <3>2. CASE MoveCursor(proc[p].start, proc[p].win.to)
      BY <1>7, <1>8, <3>2
    <3> QED BY <1>23, <3>1, <3>2 DEF Save
  <2>3. faults' \in 0 .. MaxFaults
    BY <1>1, <1>2, <1>23 DEF Save
  <2> QED BY <1>23, <2>1, <2>2, <2>3 DEF Save, ProcType
<1>24. ASSUME NEW p \in Procs, Crash(p) PROVE TypeOK'
  BY <1>1, <1>5, <1>24 DEF Crash, ProcType
<1>25. CASE UNCHANGED vars
  BY <1>25 DEF vars
<1>26. CASE Next
  BY <1>9, <1>10, <1>11, <1>12, <1>13, <1>14, <1>15, <1>16, <1>17, <1>18, <1>19, <1>20,
     <1>21, <1>22, <1>23, <1>24, <1>26 DEF Next, Step
<1> QED BY <1>25, <1>26

(* Every state is well typed: windows, cursors and attempts stay within    *)
(* their bounds, also for windows that come back from the queue.           *)
THEOREM TypeCorrect == Spec => []TypeOK
  BY InitType, StepType, PTL DEF Spec
-----------------------------------------------------------------------------
(* Losses.  An order is accounted for once it is stored or given up.  What *)
(* a run other than a retry has left behind since its start is accounted   *)
(* for, and so is, once the channel has answered, all of its window but    *)
(* the orders it holds.                                                    *)
Accounted == stored \cup dropped

CoversRun(p) ==
    /\ \A o \in Orders : proc[p].start < o /\ o <= proc[p].win.from => o \in Accounted
    /\ \A o \in Orders :
          proc[p].win.from < o /\ o <= proc[p].win.to =>
             /\ proc[p].pc \in {"sort", "check", "insert"} => o \in proc[p].got \cup Accounted
             /\ proc[p].pc = "save" => o \in Accounted

LossInv == LossHasCause /\ \A p \in Procs \ {"retry"} : CoversRun(p)

(* A process that is idle, begins a run or calls has left nothing behind. *)
LEMMA OthersCovered ==
    ASSUME LossInv, NEW p \in Procs, \A q \in Procs \ {p} : proc'[q] = proc[q],
           Accounted \subseteq Accounted', p # "retry" => CoversRun(p)',
           LossHasCause'
    PROVE  LossInv'
<1> SUFFICES ASSUME NEW q \in Procs \ {"retry", p} PROVE CoversRun(q)'
  BY DEF LossInv
<1>1. proc'[q] = proc[q] /\ CoversRun(q)
  BY DEF LossInv
<1> QED BY <1>1 DEF CoversRun

(* A cursor that stays, or is lost, has passed nothing more. *)
LEMMA CursorKept ==
    ASSUME LossHasCause, Accounted \subseteq Accounted', cursor' \in {cursor, None}
    PROVE  LossHasCause'
  BY DEF LossHasCause, Passed, Accounted

(* A cursor that is moved passes what its mover has accounted for, and     *)
(* drops what lies before that.                                            *)
LEMMA CursorMoved ==
    ASSUME TypeOK, LossHasCause, NEW from \in 0 .. MaxTime, NEW to \in 0 .. MaxTime,
           MoveCursor(from, to), stored' = stored,
           \A o \in Orders : from < o /\ o <= to => o \in Accounted
    PROVE  LossHasCause' /\ Accounted \subseteq Accounted'
<1>1. cursor' = to /\ dropped \subseteq dropped'
  BY DEF MoveCursor
<1>2. ASSUME NEW o \in Orders, o <= to PROVE o \in Accounted'
  <2>0. o \in Int /\ o >= 1 /\ from \in Int
    BY DEF Orders
  <2>1. CASE from < o
    BY <1>1, <1>2, <2>1 DEF Accounted
  <2>2. CASE o <= from /\ Passed(o)
    BY <1>1, <2>2 DEF LossHasCause, Accounted
  <2>3. CASE o <= from /\ ~Passed(o)
    <3> DEFINE old == IF cursor = None THEN 0 ELSE cursor
    <3>1. old \in Int /\ old < o
      BY <2>0, <2>3 DEF Passed, TypeOK
    <3>2. o \in Covers([from |-> old, to |-> from])
      BY <2>0, <2>3, <3>1 DEF Covers
    <3> QED BY <3>2 DEF MoveCursor, Accounted
  <2> QED BY <2>0, <2>1, <2>2, <2>3
<1> QED BY <1>1, <1>2 DEF LossHasCause, Passed, Accounted

LEMMA LossStep == TypeOK /\ LossInv /\ [Next]_vars => LossInv'
<1> SUFFICES ASSUME TypeOK, LossInv, [Next]_vars PROVE LossInv'
  OBVIOUS
<1>0. proc \in [Procs -> ProcType] /\ LossHasCause
  BY DEF TypeOK, ProcType, LossInv
(* The kinds of step: nothing is moved, a process goes on or ends, ...     *)
<1>1. ASSUME UNCHANGED <<stored, dropped, proc>>, cursor' \in {cursor, None} PROVE LossInv'
  <2>1. Accounted \subseteq Accounted'
    BY <1>1 DEF Accounted
  <2> QED BY <1>0, <1>1, <2>1, CursorKept DEF LossInv, CoversRun, Accounted
<1>2. ASSUME NEW p \in Procs, NEW j \in ProcType, Becomes(p, j),
             Accounted \subseteq Accounted', LossHasCause',
             p # "retry" =>
                /\ \A o \in Orders : j.start < o /\ o <= j.win.from => o \in Accounted'
                /\ \A o \in Orders :
                      j.win.from < o /\ o <= j.win.to =>
                         /\ j.pc \in {"sort", "check", "insert"} => o \in j.got \cup Accounted'
                         /\ j.pc = "save" => o \in Accounted'
      PROVE  LossInv'
  <2>1. proc'[p] = j /\ \A q \in Procs \ {p} : proc'[q] = proc[q]
    BY <1>0, <1>2, BecomesType
  <2>2. p # "retry" => CoversRun(p)'
    BY <1>2, <2>1 DEF CoversRun
  <2> QED BY <1>2, <2>1, <2>2, OthersCovered
<1>3. ASSUME Accounted \subseteq Accounted', cursor' = cursor PROVE LossHasCause'
  BY <1>0, <1>3, CursorKept
<1>4. ASSUME NEW p \in Procs, p # "retry"
      PROVE  CoversRun(p) /\ proc[p] \in ProcType
  BY <1>0, <1>4 DEF LossInv
<1>5. ASSUME NEW p \in Procs, End(p), Accounted \subseteq Accounted', LossHasCause'
      PROVE  LossInv'
  <2>1. Becomes(p, Idle)
    BY <1>5 DEF End, Becomes
  <2>2. /\ \A o \in Orders : ~ (Idle.start < o /\ o <= Idle.win.from)
        /\ Idle.pc = "idle"
    BY DEF Idle, NoWindow, Orders
  <2> QED BY <1>2, <1>5, <2>1, <2>2, IdleType
<1>6. ASSUME NEW p \in Procs, NEW j \in ProcType, Becomes(p, j), UNCHANGED <<stored, dropped>>,
             LossHasCause', j.start = proc[p].start, j.win = proc[p].win,
             j.pc \in {"begin", "pull", "calling", "queue"}
      PROVE  LossInv'
  <2>1. Accounted' = Accounted
    BY <1>6 DEF Accounted
  <2> QED BY <1>2, <1>4, <1>6, <2>1 DEF CoversRun
<1>7. CASE Tick \/ BreakerRipens \/ BreakerExpires \/ OtherCall
  BY <1>1, <1>7 DEF Tick, BreakerRipens, BreakerExpires, OtherCall
<1>8. CASE CursorExpires \/ QueueExpires
  BY <1>1, <1>8 DEF CursorExpires, QueueExpires
<1>9. CASE Pop
  <2> DEFINE j == [Idle EXCEPT !.pc = "pull", !.win = Head(failed), !.attempt = MaxRetry]
  <2>1. Becomes("retry", j) /\ "retry" \in Procs /\ UNCHANGED <<stored, dropped, cursor>>
    BY <1>9 DEF Pop, Becomes
  <2>2. \A q \in Procs \ {"retry"} : proc'[q] = proc[q]
    BY <1>0, <2>1 DEF Becomes
  <2>3. Accounted' = Accounted
    BY <2>1 DEF Accounted
  <2>4. LossHasCause'
    BY <1>3, <2>1, <2>3
  <2> QED BY <2>1, <2>2, <2>3, <2>4, OthersCovered
<1>10. ASSUME NEW start \in 0 .. MaxTime, SyncFrom(start) PROVE LossInv'
  <2>1. start \in 0 .. MaxTime
    BY DEF TypeOK
  <2>2. LossHasCause' /\ Accounted \subseteq Accounted'
    BY <1>0, <1>10, <2>1, CursorMoved DEF SyncFrom, Orders
  <2>3. PICK j \in ProcType : /\ Becomes("sync", j) /\ j.pc = "begin"
                              /\ j.start = proc["sync"].start /\ j.win = proc["sync"].win
    BY <1>0, <1>10, GotoBecomes DEF SyncFrom
  <2>4. "sync" \in Procs /\ CoversRun("sync")
    BY <1>10 DEF SyncFrom, LossInv
  <2>5. \A o \in Orders : j.start < o /\ o <= j.win.from => o \in Accounted'
    BY <2>2, <2>3, <2>4 DEF CoversRun
  <2> QED BY <1>2, <2>2, <2>3, <2>4, <2>5
<1>11. ASSUME NEW p \in Procs, Begin(p) PROVE LossInv'
  <2>1. UNCHANGED <<stored, dropped, cursor>>
    BY <1>11 DEF Begin
  <2>2. Accounted' = Accounted
    BY <2>1 DEF Accounted
  <2>3. LossHasCause'
    BY <1>3, <2>1, <2>2
  <2>4. PICK j \in ProcType : Becomes(p, j) /\ (j = Idle \/ (j.pc = "pull" /\ j.win.from = j.start))
    BY <1>11, BeginBecomes
  <2>5. CASE j = Idle
    BY <1>5, <2>2, <2>3, <2>4, <2>5 DEF End, Becomes
  <2>6. CASE j.pc = "pull" /\ j.win.from = j.start
    <3>1. \A o \in Orders : ~ (j.start < o /\ o <= j.win.from)
      BY <2>6 DEF ProcType, Orders
    <3> QED BY <1>2, <2>2, <2>3, <2>4, <2>6, <3>1
  <2> QED BY <2>4, <2>5, <2>6
<1>12. ASSUME NEW p \in Procs, Call(p) PROVE LossInv'
  <2>1. stored' = stored /\ cursor' = cursor
    BY <1>12 DEF Call
  <2>2. CASE Goto(p, "calling") /\ UNCHANGED dropped
    <3>1. PICK j \in ProcType : /\ Becomes(p, j) /\ j.pc = "calling"
                                /\ j.start = proc[p].start /\ j.win = proc[p].win
      BY <1>0, <2>2, GotoBecomes
    <3>2. LossHasCause'
      BY <1>3, <2>1, <2>2 DEF Accounted
    <3> QED BY <1>6, <2>1, <2>2, <3>1, <3>2
  <2>3. CASE /\ proc' = [proc EXCEPT ![p].pc = "save", ![p].got = {}]
             /\ Drop(p, Covers(proc[p].win))
    <3> DEFINE j == [proc[p] EXCEPT !.pc = "save", !.got = {}]
    <3>1. /\ j \in ProcType /\ Becomes(p, j) /\ j.pc = "save"
          /\ j.start = proc[p].start /\ j.win = proc[p].win
      BY <1>0, <2>3 DEF ProcType, Becomes
    <3> HIDE DEF j
    <3>2. Accounted \subseteq Accounted'
      BY <2>1, <2>3 DEF Accounted, Drop
    <3>3. LossHasCause'
      BY <1>3, <2>1, <3>2
    <3>4. CASE p = "retry"
      BY <1>2, <3>1, <3>2, <3>3, <3>4
    <3>5. CASE p # "retry"
      <4>1. proc[p].win.from \in Int /\ proc[p].win.to \in Int
        BY <1>4, <3>5 DEF ProcType, Windows
      <4>2. \A o \in Orders : proc[p].win.from < o /\ o <= proc[p].win.to => o \in Accounted'
        BY <2>1, <2>3, <3>5, <4>1 DEF Drop, Covers, Orders, Accounted
      <4>3. \A o \in Orders : proc[p].start < o /\ o <= proc[p].win.from => o \in Accounted'
        BY <1>4, <3>2, <3>5 DEF CoversRun
      <4> QED BY <1>2, <3>1, <3>2, <3>3, <4>2, <4>3
    <3> QED BY <3>4, <3>5
  <2> QED BY <1>12, <2>2, <2>3 DEF Call
<1>13. ASSUME NEW p \in Procs, Answer(p) PROVE LossInv'
  <2>1. stored' = stored /\ cursor' = cursor
    BY <1>13 DEF Answer
  <2>2. PICK page \in SUBSET Covers(proc[p].win) :
          /\ proc' = [proc EXCEPT ![p].pc = "sort", ![p].got = page]
          /\ Drop(p, Covers(proc[p].win) \ page)
    BY <1>13 DEF Answer
  <2>3. page \in SUBSET Orders
    <3>1. proc[p] \in ProcType
      BY <1>0
    <3> QED BY <3>1, CoversType DEF ProcType, Windows
  <2> DEFINE j == [proc[p] EXCEPT !.pc = "sort", !.got = page]
  <2>4. /\ j \in ProcType /\ Becomes(p, j) /\ j.pc = "sort" /\ j.got = page
        /\ j.start = proc[p].start /\ j.win = proc[p].win
    BY <1>0, <2>2, <2>3 DEF ProcType, Becomes
  <2> HIDE DEF j
  <2>5. Accounted \subseteq Accounted'
    BY <2>1, <2>2 DEF Accounted, Drop
  <2>6. LossHasCause'
    BY <1>3, <2>1, <2>5
  <2>7. CASE p = "retry"
    BY <1>2, <2>4, <2>5, <2>6, <2>7
  <2>8. CASE p # "retry"
    <3>1. proc[p].win.from \in Int /\ proc[p].win.to \in Int
      BY <1>4, <2>8 DEF ProcType, Windows
    <3>2. \A o \in Orders :
             proc[p].win.from < o /\ o <= proc[p].win.to => o \in page \cup Accounted'
      BY <2>1, <2>2, <2>8, <3>1 DEF Drop, Covers, Orders, Accounted
    <3>3. \A o \in Orders : proc[p].start < o /\ o <= proc[p].win.from => o \in Accounted'
      BY <1>4, <2>5, <2>8 DEF CoversRun
    <3> QED BY <1>2, <2>4, <2>5, <2>6, <3>2, <3>3
  <2> QED BY <2>7, <2>8
<1>14. ASSUME NEW p \in Procs, CallFails(p) PROVE LossInv'
  <2>1. PICK j \in ProcType : /\ Becomes(p, j) /\ j.pc \in {"pull", "queue"}
                              /\ j.start = proc[p].start /\ j.win = proc[p].win
    BY <1>0, <1>14, CallFailsBecomes
  <2>2. UNCHANGED <<stored, dropped, cursor>>
    BY <1>14 DEF CallFails
  <2>3. LossHasCause'
    BY <1>3, <2>2 DEF Accounted
  <2> QED BY <1>6, <2>1, <2>2, <2>3
<1>15. ASSUME NEW p \in Procs, Queue(p) \/ Crash(p) PROVE LossInv'
  <2>1. End(p) /\ UNCHANGED <<stored, dropped, cursor>>
    BY <1>15 DEF Queue, Crash
  <2>2. Accounted' = Accounted
    BY <2>1 DEF Accounted
  <2> QED BY <1>3, <1>5, <2>1, <2>2
(* ... filters what it has got by what is stored already, ... *)
<1>16. ASSUME NEW p \in Procs, NEW pc \in {"check", "insert"}, proc[p].pc \in {"sort", "check"},
              proc' = [proc EXCEPT ![p].pc = pc, ![p].got = proc[p].got \ stored],
              UNCHANGED <<stored, dropped, cursor>>
       PROVE  LossInv'
  <2>1. proc[p].got \ stored \in SUBSET Orders
    <3>1. proc[p] \in ProcType
      BY <1>0
    <3> QED BY <3>1 DEF ProcType
  <2> DEFINE j == [proc[p] EXCEPT !.pc = pc, !.got = proc[p].got \ stored]
  <2>2. /\ j \in ProcType /\ Becomes(p, j) /\ j.pc = pc /\ j.got = proc[p].got \ stored
        /\ j.start = proc[p].start /\ j.win = proc[p].win
    BY <1>0, <1>16, <2>1 DEF ProcType, Becomes
  <2> HIDE DEF j
  <2>3. Accounted' = Accounted /\ stored \subseteq Accounted
    BY <1>16 DEF Accounted
  <2>4. LossHasCause'
    BY <1>3, <1>16, <2>3
  <2>5. p # "retry" => \A o \in Orders :
           proc[p].win.from < o /\ o <= proc[p].win.to => o \in j.got \cup Accounted'
    BY <1>4, <1>16, <2>2, <2>3 DEF CoversRun
  <2>6. p # "retry" => \A o \in Orders :
           proc[p].start < o /\ o <= proc[p].win.from => o \in Accounted'
    BY <1>4, <2>3 DEF CoversRun
  <2> QED BY <1>2, <1>16, <2>2, <2>3, <2>4, <2>5, <2>6
<1>17. ASSUME NEW p \in Procs, Sort(p) PROVE LossInv'
  <2>1. UNCHANGED <<stored, dropped, cursor>> /\ proc[p].pc = "sort"
    BY <1>17 DEF Sort
  <2>2. Accounted' = Accounted
    BY <2>1 DEF Accounted
  <2>3. LossHasCause'
    BY <1>3, <2>1, <2>2
  <2>4. CASE End(p)
    BY <1>5, <2>2, <2>3, <2>4
  <2>5. CASE Goto(p, "queue")
    <3>1. PICK j \in ProcType : /\ Becomes(p, j) /\ j.pc = "queue"
                                /\ j.start = proc[p].start /\ j.win = proc[p].win
      BY <1>0, <2>5, GotoBecomes
    <3> QED BY <1>6, <2>1, <2>3, <3>1
  <2>6. CASE proc' = [proc EXCEPT ![p].pc = "check", ![p].got = proc[p].got \ stored]
    BY <1>16, <2>1, <2>6
  <2> QED BY <1>17, <2>4, <2>5, <2>6 DEF Sort
<1>18. ASSUME NEW p \in Procs, Check(p) PROVE LossInv'
  <2>1. /\ proc' = [proc EXCEPT ![p].pc = "insert", ![p].got = proc[p].got \ stored]
        /\ UNCHANGED <<stored, dropped, cursor>> /\ proc[p].pc = "check"
    BY <1>18 DEF Check
  <2> QED BY <1>16, <2>1
(* ... inserts it, or as much of it as it can, ... *)
<1>19. ASSUME NEW p \in Procs, Insert(p) PROVE LossInv'
  <2>1. /\ cursor' = cursor /\ proc[p].pc = "insert" /\ Goto(p, "save")
        /\ stored \subseteq stored' /\ dropped \subseteq dropped'
        /\ p # "retry" => proc[p].got \subseteq stored' \cup dropped'
    BY <1>19 DEF Insert, Drop
  <2>2. PICK j \in ProcType : /\ Becomes(p, j) /\ j.pc = "save"
                              /\ j.start = proc[p].start /\ j.win = proc[p].win
    BY <1>0, <2>1, GotoBecomes
  <2>3. /\ Accounted \subseteq Accounted'
        /\ p # "retry" => proc[p].got \subseteq Accounted'
    BY <2>1 DEF Accounted
  <2>4. LossHasCause'
    BY <1>3, <2>1, <2>3
  <2>5. p # "retry" => \A o \in Orders :
           proc[p].win.from < o /\ o <= proc[p].win.to => o \in Accounted'
    BY <1>4, <2>1, <2>3 DEF CoversRun
  <2>6. p # "retry" => \A o \in Orders :
           proc[p].start < o /\ o <= proc[p].win.from => o \in Accounted'
    BY <1>4, <2>3 DEF CoversRun
  <2> QED BY <1>2, <2>2, <2>3, <2>4, <2>5, <2>6
(* ... and saves its cursor, before the next window or the end.            *)
<1>20. ASSUME NEW p \in Procs, Save(p) PROVE LossInv'
  <2>1. stored' = stored /\ proc[p].pc = "save" /\ NextWindow(p)
    BY <1>20 DEF Save
  <2>2. proc[p] \in ProcType
    BY <1>0
  <2>3. proc[p].start \in 0 .. MaxTime /\ proc[p].win.from \in 0 .. MaxTime
        /\ proc[p].win.to \in 0 .. MaxTime
    BY <2>2 DEF ProcType, Windows
  <2>4. p # "retry" => \A o \in Orders :
           proc[p].start < o /\ o <= proc[p].win.to => o \in Accounted
    BY <1>4, <2>1, <2>3 DEF CoversRun, Orders
  <2>5. LossHasCause' /\ Accounted \subseteq Accounted'
    <3>1. CASE UNCHANGED <<cursor, dropped>>
      BY <1>3, <2>1, <3>1 DEF Accounted
    <3>2. CASE p # "retry" /\ MoveCursor(proc[p].start, proc[p].win.to)
      BY <1>0, <2>1, <2>3, <2>4, <3>2, CursorMoved
    <3> QED BY <1>20, <3>1, <3>2 DEF Save
  <2>6. PICK j \in ProcType : /\ Becomes(p, j)
                              /\ \/ j = Idle
                                 \/ /\ j.pc = "pull" /\ j.start = proc[p].start
                                    /\ j.win.from = proc[p].win.to
    BY <1>0, <2>1, NextWindowBecomes
  <2>7. CASE j = Idle
    BY <1>5, <2>5, <2>6, <2>7 DEF End, Becomes
  <2>8. CASE /\ j.pc = "pull" /\ j.start = proc[p].start
             /\ j.win.from = proc[p].win.to
    <3>1. p # "retry" => \A o \in Orders : j.start < o /\ o <= j.win.from => o \in Accounted'
      BY <2>4, <2>5, <2>8
    <3> QED BY <1>2, <2>5, <2>6, <2>8, <3>1
  <2> QED BY <2>6, <2>7, <2>8
<1>21. CASE UNCHANGED vars
  BY <1>1, <1>21 DEF vars
<1>22. CASE Next
  BY <1>7, <1>8, <1>9, <1>10, <1>11, <1>12, <1>13, <1>14, <1>15, <1>17, <1>18, <1>19,
     <1>20, <1>22 DEF Next, Step
<1> QED BY <1>21, <1>22

(* No order is lost to an interleaving: whatever the job, /sync and /retry *)
(* do between each other's steps, an order behind the cursor is stored, or *)
(* was dropped by an open breaker, a full page, a failed write or a cursor *)
(* that skipped it (order_sync_service.py).                                *)
THEOREM LossIsCaused == Spec => []LossHasCause
<1>1. Init => LossInv
  BY DEF Init, LossInv, LossHasCause, Passed, CoversRun, Idle, NoWindow, Orders
<1>2. LossInv => LossHasCause
  BY DEF LossInv
<1> QED BY <1>1, <1>2, LossStep, TypeCorrect, PTL DEF Spec
=============================================================================
