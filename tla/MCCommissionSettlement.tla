----------------------- MODULE MCCommissionSettlement -----------------------
(* CommissionSettlement on small instances: all orders belong to one user, *)
(* whose account is what the handlers contend for.                         *)
EXTENDS CommissionSettlement, TLC

OneOwner == [o \in Orders |-> CHOOSE u \in Users : TRUE]
Symmetry == Permutations(Workers) \cup Permutations(Orders)
=============================================================================
