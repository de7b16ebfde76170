---------------------------- MODULE MCJsonStore ----------------------------
(* Three transactions and two crashes: a state can be lost after it was    *)
(* restored once, and transactions queue behind one that fails.            *)
EXTENDS JsonStore
=============================================================================
