-------------------------- MODULE MCModelDelivery --------------------------
(* One program with one licence, one device that can be bound twice over,  *)
(* one artifact and two leases of it; requests overlap in pairs.           *)
EXTENDS ModelDelivery, TLC

CONSTANTS m1, a1

MCMerchantOf == [a \in Apps |-> m1]

MCArtifactApp == [x \in Artifacts |-> a1]

Symmetry == Permutations(Bindings) \cup Permutations(Sessions)
            \cup Permutations(Requests) \cup Permutations(Leases)
=============================================================================
