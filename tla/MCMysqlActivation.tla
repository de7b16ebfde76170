------------------------ MODULE MCMysqlActivation ------------------------
(* Two connections and two devices that compete for the one seat of a      *)
(* limited licence; the configurations give as many binding ids, tokens    *)
(* and calls as their questions need.                                      *)
EXTENDS MysqlActivation, TLC

Symmetry == Permutations(Transactions) \cup Permutations(Devices)
            \cup Permutations(Bindings) \cup Permutations(Sessions)
=============================================================================
