----------------------------- MODULE OrderStatus -----------------------------
(***************************************************************************)
(* The status of an order and the cached order detail.  Five kinds of      *)
(* handler write the status and share no lock: a synchronisation that      *)
(* stores what it has pulled from the channel (order_sync_dao.py), the     *)
(* task that closes unpaid orders (order_dao.py), two admin endpoints with *)
(* transition tables of their own (b12_order_state_machine_service.py,     *)
(* order_service.py), and the deduction of a refunded order's unpaid       *)
(* commission, which sees to it that the status says REFUNDED              *)
(* (refund_deduction_service.py).  Each one reads, decides, commits an     *)
(* UPDATE that does not look at the status again, and then deletes the     *)
(* cached detail, which readers fill in between.                           *)
(*                                                                         *)
(* Handlers treat every order by itself, so the module follows one order.  *)
(***************************************************************************)
EXTENDS FiniteSets, Naturals

CONSTANTS
    Workers,
    Kinds,       \* the writers in use
    Unmapped,    \* channel statuses that _map_channel_status does not know
    Faults,      \* may a Redis command fail, a worker die
    MaxFaults,   \* bound on such failures
    MaxEdits,    \* bound on how often an admin changes or refunds the order
    None

WriterKinds == {"sync", "close", "b12", "cps", "refund"}

ASSUME StatusAssumption ==
    /\ Kinds \subseteq WriterKinds
    /\ Unmapped \subseteq {"paid", "received", "settled", "invalid"}
    /\ Faults \subseteq {"redis", "crash"}
    /\ MaxFaults \in Nat /\ MaxEdits \in Nat

VARIABLES
    channel,   \* the order's status at the channel
    status,    \* orders.order_status, or None while there is no row
    cache,     \* Redis: the status in the cached detail, and whether it expires
    job,       \* what each worker is executing and what it has read
    leaked,    \* history: an entry was cached and its EXPIRE lost
    faults, edits

vars == <<channel, status, cache, job, leaked, faults, edits>>

-----------------------------------------------------------------------------
Statuses == {"PENDING", "FROZEN", "SETTLABLE", "SETTLED", "INVALID", "REFUNDED"}
ASSUME NoneAssumption == None \notin Statuses

ChannelNext == [unpaid   |-> {"paid", "invalid"}, paid |-> {"received", "invalid"},
                received |-> {"settled", "invalid"}, settled |-> {}, invalid |-> {}]

(* MUTANT of Mapped: an unknown status is passed on as the channel names it. *)
MappedAsIs(c) ==
    IF c \in Unmapped THEN c
    ELSE CASE c = "unpaid"               -> "PENDING"
           [] c \in {"paid", "received"} -> "SETTLABLE"
           [] c = "settled"              -> "SETTLED"
           [] c = "invalid"              -> "INVALID"

(* _map_channel_status; None leaves the status of a stored order alone.    *)
Mapped(c) ==
    IF c \in Unmapped THEN None
    ELSE CASE c = "unpaid"               -> "PENDING"
           [] c \in {"paid", "received"} -> "SETTLABLE"
           [] c = "settled"              -> "SETTLED"
           [] c = "invalid"              -> "INVALID"

(* ORDER_STATUS_TRANSITIONS, and VALID_STATUS_TRANSITIONS of order_service. *)
Shared == [FROZEN    |-> {"SETTLABLE", "INVALID"}, SETTLABLE |-> {"SETTLED", "INVALID"},
           SETTLED   |-> {"REFUNDED"}, INVALID |-> {}, REFUNDED |-> {}]
Table(kind, s) ==
    IF s # "PENDING" THEN Shared[s]
    ELSE {"INVALID", "REFUNDED"} \cup IF kind = "cps" THEN {"SETTLABLE"} ELSE {"FROZEN"}

Uncached == [val |-> None, expires |-> FALSE]
Idle == [pc |-> "idle", kind |-> None, seen |-> None, target |-> None]

Init ==
    /\ channel \in DOMAIN ChannelNext /\ status = None /\ cache = Uncached
    /\ job = [w \in Workers |-> Idle]
    /\ leaked = FALSE /\ faults = 0 /\ edits = 0

Goto(w, pc) == job' = [job EXCEPT ![w].pc = pc]
Finish(w)   == job' = [job EXCEPT ![w] = Idle]
Start(w, pc, kind, seen, target) ==
    /\ job[w] = Idle
    /\ job' = [job EXCEPT ![w] = [pc |-> pc, kind |-> kind, seen |-> seen,
                                  target |-> target]]

Fault(kind) ==
    /\ kind \in Faults /\ faults < MaxFaults
    /\ faults' = faults + 1
Smooth == UNCHANGED faults

-----------------------------------------------------------------------------
(* The order goes on at the channel (external). *)
ChannelMoves ==
    /\ channel' \in ChannelNext[channel]
    /\ UNCHANGED <<status, cache, job, leaked, faults, edits>>

(* A synchronisation pulls the order: the job once, /sync again. *)
SyncPull(w) ==
    /\ "sync" \in Kinds
    /\ Start(w, "persist", "sync", None, Mapped(channel))
    /\ UNCHANGED <<channel, status, cache, leaked, faults, edits>>

(* MUTANT of SyncPersist: orders that are stored already are skipped. *)
SyncNewOnly(w) ==
    /\ job[w].pc = "persist"
    /\ IF status = None
       THEN job' = [job EXCEPT ![w].pc = "insert",
                       ![w].target = IF @ = None THEN "PENDING" ELSE @]
       ELSE Finish(w)
    /\ UNCHANGED <<channel, status, cache, leaked, faults, edits>>

(* _persist_orders: a new order whose status is unknown will be PENDING; a *)
(* stored one is only updated when the status is known.                    *)
SyncPersist(w) ==
    /\ job[w].pc = "persist"
    /\ IF status = None
       THEN job' = [job EXCEPT ![w].pc = "insert",
                       ![w].target = IF @ = None THEN "PENDING" ELSE @]
       ELSE IF job[w].target = None THEN Finish(w) ELSE Goto(w, "write")
    /\ UNCHANGED <<channel, status, cache, leaked, faults, edits>>

(* batch_upsert_orders: a row that is there by now is skipped. *)
SyncInsert(w) ==
    /\ job[w].pc = "insert"
    /\ status' = IF status = None THEN job[w].target ELSE status
    /\ Finish(w)
    /\ UNCHANGED <<channel, cache, leaked, faults, edits>>

(* MUTANT of EditRead: a manual override leaves terminal states. *)
EditOverride(w, kind, target) ==
    /\ kind \in Kinds /\ edits < MaxEdits
    /\ status \in Statuses
    /\ target \in Table(kind, status) \/ Table(kind, status) = {}
    /\ Start(w, "write", kind, status, target)
    /\ edits' = edits + 1
    /\ UNCHANGED <<channel, status, cache, leaked, faults>>

(* transition_order_status of either service up to its UPDATE.             *)
EditRead(w, kind, target) ==
    /\ kind \in Kinds /\ edits < MaxEdits
    /\ status \in Statuses /\ target \in Table(kind, status)
    /\ Start(w, "write", kind, status, target)
    /\ edits' = edits + 1
    /\ UNCHANGED <<channel, status, cache, leaked, faults>>

(* close_expired_unpaid_orders: the SELECT of old PENDING orders. *)
CloseRead(w) ==
    /\ "close" \in Kinds
    /\ status = "PENDING"
    /\ Start(w, "write", "close", status, "INVALID")
    /\ UNCHANGED <<channel, status, cache, leaked, faults, edits>>

(* execute_refund_deduction: the validation passes on a REFUNDED order, *)
RefundCheck(w) ==
    /\ "refund" \in Kinds /\ edits < MaxEdits
    /\ status = "REFUNDED"
    /\ Start(w, "load", "refund", status, "REFUNDED")
    /\ edits' = edits + 1
    /\ UNCHANGED <<channel, status, cache, leaked, faults>>

(* which is then loaded again.  When its commission is still PENDING (left *)
(* open here), it is voided and the status set on the loaded object: the   *)
(* ORM sends an UPDATE only when that one did not say REFUNDED.            *)
RefundLoad(w) ==
    /\ job[w].pc = "load"
    /\ \/ Finish(w)
       \/ Goto(w, IF status = "REFUNDED" THEN "invalidate" ELSE "write")
    /\ UNCHANGED <<channel, status, cache, leaked, faults, edits>>

(* The UPDATE by id or order number, and its commit. *)
Write(w) ==
    /\ job[w].pc = "write"
    /\ status' = job[w].target
    /\ Goto(w, "invalidate")
    /\ UNCHANGED <<channel, cache, leaked, faults, edits>>

(* The DEL of the cached detail; when it fails, the handler goes on. *)
Invalidate(w) ==
    /\ job[w].pc = "invalidate"
    /\ \/ Smooth /\ cache' = Uncached
       \/ Fault("redis") /\ UNCHANGED cache
    /\ Finish(w)
    /\ UNCHANGED <<channel, status, leaked, edits>>

-----------------------------------------------------------------------------
(* get_order_detail_cached: on a miss the row is read, ... *)
ReadMiss(w) ==
    /\ status # None /\ cache.val = None
    /\ Start(w, "fill", None, status, None)
    /\ UNCHANGED <<channel, status, cache, leaked, faults, edits>>

(* MUTANT of Fill: the entry is set for good. *)
FillForGood(w) ==
    /\ job[w].pc = "fill"
    /\ Smooth /\ cache' = [val |-> job[w].seen, expires |-> FALSE]
    /\ Finish(w)
    /\ UNCHANGED <<channel, status, leaked, edits>>

(* ... cached with a SET, ...                                              *)
Fill(w) ==
    /\ job[w].pc = "fill"
    /\ \/ /\ Smooth
          /\ cache' = [val |-> job[w].seen, expires |-> FALSE]
          /\ Goto(w, "expire")
       \/ Fault("redis") /\ UNCHANGED cache /\ Finish(w)
    /\ UNCHANGED <<channel, status, leaked, edits>>

(* ... and given its time to live by an EXPIRE, if the key still exists.   *)
Expire(w) ==
    /\ job[w].pc = "expire"
    /\ \/ /\ Smooth
          /\ cache' = [cache EXCEPT !.expires = cache.val # None]
          /\ UNCHANGED leaked
       \/ /\ Fault("redis")
          /\ leaked' = TRUE
          /\ UNCHANGED cache
    /\ Finish(w)
    /\ UNCHANGED <<channel, status, edits>>

CacheExpires ==
    /\ cache.expires
    /\ cache' = Uncached
    /\ UNCHANGED <<channel, status, job, leaked, faults, edits>>

Crash(w) ==
    /\ job[w] # Idle /\ Fault("crash")
    /\ leaked' = (leaked \/ job[w].pc = "expire")
    /\ Finish(w)
    /\ UNCHANGED <<channel, status, cache, edits>>

-----------------------------------------------------------------------------
Step(w) ==
    \/ SyncPersist(w) \/ SyncInsert(w) \/ RefundLoad(w) \/ Write(w) \/ Invalidate(w)
    \/ Fill(w) \/ Expire(w)

Next ==
    \/ ChannelMoves \/ CacheExpires
    \/ \E w \in Workers :
          \/ SyncPull(w) \/ CloseRead(w) \/ RefundCheck(w) \/ ReadMiss(w)
          \/ Step(w) \/ Crash(w)
          \/ \E kind \in {"b12", "cps"}, target \in Statuses : EditRead(w, kind, target)

Spec == Init /\ [][Next]_vars

(* Handlers go on, and a time to live runs out. *)
FairSpec ==
    /\ Spec
    /\ \A w \in Workers : WF_vars(Step(w))
    /\ WF_vars(CacheExpires)

-----------------------------------------------------------------------------
TypeOK ==
    /\ channel \in DOMAIN ChannelNext
    /\ status \in Statuses \cup {None}
    /\ cache \in [val : Statuses \cup {None}, expires : BOOLEAN]
    /\ cache.expires => cache.val # None
    /\ job \in [Workers ->
          [pc : {"idle", "persist", "insert", "load", "write", "invalidate", "fill",
                 "expire"},
           kind : Kinds \cup {None}, seen : Statuses \cup {None},
           target : Statuses \cup {None}]]
    /\ leaked \in BOOLEAN /\ faults \in 0 .. MaxFaults /\ edits \in 0 .. MaxEdits

(* An order takes a step that no transition table has only when the        *)
(* channel's status is stored, or when two writers raced: the one that     *)
(* commits second had decided on a status the row no longer has.           *)
Writer(w) == job[w].pc = "write" /\ job'[w].pc = "invalidate"
IllegalHasCause ==
    [][\A a, b \in Statuses :
          (/\ status = a /\ status' = b /\ a # b
           /\ b \notin Table("b12", a) \cup Table("cps", a))
          => \E w \in Workers : /\ Writer(w)
                                /\ job[w].kind = "sync" \/ job[w].seen # a]_vars

(* A cached detail shows the row's status, unless its writer has not       *)
(* deleted it yet, a reader cached what it read before, or a DEL was lost; *)
(* and whatever the cause, it does not last: when the status has come to   *)
(* rest the cache shows it, provided no EXPIRE was lost.                   *)
CacheConverges ==
    (<>[][FALSE]_status /\ [](~leaked)) => <>[](cache.val \in {None, status})

(* An order that is pulled again and again takes over the channel's final  *)
(* status, whoever else writes in between.                                 *)
FollowsChannel ==
    (/\ <>[](Mapped(channel) \notin {None, "PENDING"})
     /\ []<><<\E w \in Workers : SyncPull(w)>>_vars)
    => <>[](status = Mapped(channel))
=============================================================================
