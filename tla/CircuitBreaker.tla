--------------------------- MODULE CircuitBreaker ---------------------------
(***************************************************************************)
(* The circuit breaker of a channel (cps/circuit_breaker.py), as its three *)
(* Redis keys: the state, the failure count, and the time it was opened,   *)
(* of which only whether the recovery time has passed matters.  Every      *)
(* adapter call is wrapped in it (cps/circuit_breaker_adapter.py): it is   *)
(* refused while the breaker Blocks, and reports Succeeded or Failed.      *)
(***************************************************************************)
EXTENDS Naturals

CONSTANT Threshold     \* FAILURE_THRESHOLD

ASSUME ThresholdAssumption == Threshold \in Nat \ {0}

Breakers == [state : {"CLOSED", "OPEN", "HALF_OPEN"},
             fails : 0 .. Threshold,      \* counts no further than matters
             ripe  : BOOLEAN]             \* RECOVERY_TIMEOUT has passed

Closed == [state |-> "CLOSED", fails |-> 0, ripe |-> FALSE]
Opened(n) == [state |-> "OPEN", fails |-> n, ripe |-> FALSE]

(* get_state: an open breaker whose time has come is half open from the    *)
(* first look on.                                                          *)
Probed(b) ==
    IF b.state = "OPEN" /\ b.ripe THEN [b EXCEPT !.state = "HALF_OPEN"] ELSE b

(* allow_request: everybody may try a half-open channel, not one probe.    *)
Blocks(b) == Probed(b).state = "OPEN"

(* record_success, also by a call that was let through before it opened.   *)
Succeeded(b) == Closed

(* record_failure: a failed probe opens at once; otherwise the count is    *)
(* raised, which a call that fails late does to an open breaker as well.   *)
Failed(b) ==
    LET n == IF b.fails < Threshold THEN b.fails + 1 ELSE Threshold IN
    IF Probed(b).state = "HALF_OPEN" THEN Opened(b.fails)
    ELSE IF n >= Threshold THEN Opened(n) ELSE [b EXCEPT !.fails = n]

(* RECOVERY_TIMEOUT has passed since the breaker was opened. *)
Ripened(b) == [b EXCEPT !.ripe = b.state = "OPEN"]

(* A key reaches its STATE_TTL, later than that: the count, or the state.  *)
Expired(b) ==
    {[b EXCEPT !.fails = 0]}
    \cup IF b.state = "OPEN" /\ ~b.ripe THEN {} ELSE {[Closed EXCEPT !.fails = b.fails]}
=============================================================================
