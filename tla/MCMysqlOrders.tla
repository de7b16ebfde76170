--------------------------- MODULE MCMysqlOrders ---------------------------
(* Two connections on one product and two orders, with two keys so that a  *)
(* fulfilment can collide and find a free key at its second attempt, and   *)
(* two terms so that an edited product is told from the ordered one.       *)
EXTENDS MysqlOrders, TLC

Symmetry == Permutations(Transactions) \cup Permutations(Orders)
            \cup Permutations(Keys) \cup Permutations(Terms)
=============================================================================
