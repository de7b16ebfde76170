-------------------------- MODULE MCAndroidClient --------------------------
(* Three calls of any kind by one process of the client. *)
EXTENDS AndroidClient, TLC

Symmetry == Permutations(Threads)
=============================================================================
