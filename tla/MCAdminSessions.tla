------------------------- MODULE MCAdminSessions -------------------------
(* One platform account and two accounts of one merchant, so that two      *)
(* merchant administrators can act on each other; two requests and two     *)
(* sessions; two password changes, of one account or of two.               *)
EXTENDS AdminSessions, TLC

CONSTANTS p, u1, u2, m1

MCMerchantOf == [u \in Users |-> IF u = p THEN None ELSE m1]

Symmetry == Permutations({u1, u2}) \cup Permutations(Sessions) \cup Permutations(Requests)
=============================================================================
