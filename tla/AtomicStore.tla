---------------------------- MODULE AtomicStore ----------------------------
(***************************************************************************)
(* What a store promises its services: transactions take effect one after  *)
(* another on a durable value, each wholly or not at all, and none after   *)
(* its caller was told that it failed.  A crash leaves the outcome of the  *)
(* transactions under way unknown and loses nothing else, except that a    *)
(* store which is exposed may come back empty.                             *)
(***************************************************************************)
EXTENDS Sequences, Functions

CONSTANT Txns

VARIABLES
    value,      \* the transactions in effect, in their order
    answer,     \* what the caller of each transaction knows
    exposed     \* nothing is promised about a crash

Answers == {"none", "called", "ok", "failed", "unknown"}

Init ==
    /\ value = <<>>
    /\ answer = [t \in Txns |-> "none"]

Call(t) ==
    /\ answer[t] = "none"
    /\ answer' = [answer EXCEPT ![t] = "called"]
    /\ UNCHANGED value

Commit(t) ==
    /\ answer[t] = "called"
    /\ t \notin Range(value)
    /\ value' = Append(value, t)
    /\ UNCHANGED answer

Answer(t) ==
    /\ answer[t] = "called"
    /\ answer' = [answer EXCEPT ![t] = IF t \in Range(value) THEN "ok" ELSE "failed"]
    /\ UNCHANGED value

Crash ==
    /\ answer' = [t \in Txns |-> IF answer[t] = "called" THEN "unknown" ELSE answer[t]]
    /\ \/ UNCHANGED value
       \/ \E t \in Txns :
             /\ answer[t] = "called" /\ t \notin Range(value)
             /\ value' = Append(value, t)

Reset ==
    /\ exposed
    /\ value' = <<>>
    /\ UNCHANGED answer

Next ==
    \/ \E t \in Txns : Call(t) \/ Commit(t) \/ Answer(t)
    \/ Crash
    \/ Reset

Spec == Init /\ [][Next]_<<value, answer>>
=============================================================================
