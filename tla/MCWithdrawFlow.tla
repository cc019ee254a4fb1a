--------------------------- MODULE MCWithdrawFlow ---------------------------
(* WithdrawFlow on small instances; the bounds are in the cfg files. *)
EXTENDS WithdrawFlow, TLC

(* Application numbers and worker processes are interchangeable. *)
Symmetry == Permutations(Applies) \cup Permutations(Workers)

=============================================================================
