------------------------- MODULE MCReverseCommission -------------------------
(* ReverseCommission on one order of one user. *)
EXTENDS ReverseCommission

OneOwner == [o \in Orders |-> CHOOSE u \in Users : TRUE]
=============================================================================
