----------------------- MODULE MysqlActivationProofs -----------------------
(***************************************************************************)
(* Type correctness of MysqlActivation, how far MySQL exceeds the device   *)
(* limit, which deadlocks there can be, and that the repositories          *)
(* implement LicenseCore: for any number of connections, devices, bindings *)
(* and tokens.                                                             *)
(*                                                                         *)
(* The device limit is exceeded by fewer bindings than there are           *)
(* connections.  The measure is the number of active bindings plus the     *)
(* number of activations whose read view still shows a free seat.  Such a  *)
(* view is opened only while a seat is free, and its transaction adds at   *)
(* most one binding.  Whatever else writes an active binding rewrites one  *)
(* that is active already and that it has kept locked since it saw it.     *)
(***************************************************************************)
EXTENDS MysqlActivation, FiniteSetTheorems, TLAPS

\* A running transaction is at a statement of its method, and has the token or the binding
\* it looks up, or the status it sets.
Running(q) ==
    /\ q.op # "idle" => q.at \in 1..Len(Program[q.op])
    /\ q.op \in {"verify", "unbind"} => q.session \in Sessions
    /\ q.op \in {"verify", "unbind"} /\ q.at >= 5 => q.binding \in Bindings
    /\ q.op \in {"activate", "adminUnbind", "disconnect"} => q.binding \in Bindings
    /\ q.op \in StatusOps => q.status \in Status

AtStatement == \A t \in Transactions : Running(tx[t])

\* The calls that have passed their locking read of the licence row still own it.
HoldsLicense(t) ==
    \/ tx[t].op = "activate" /\ tx[t].at >= 5
    \/ tx[t].op = "verify" /\ tx[t].at >= 6
    \/ tx[t].op \in {"unbindAll", "delete"} /\ tx[t].at >= 2

LicenseLocked == \A t \in Transactions : HoldsLicense(t) => owner["license"] = t

\* The calls that have passed their locking read of one binding still own it.
HoldsBinding(t) ==
    \/ tx[t].op = "unbind" /\ tx[t].at >= 6
    \/ tx[t].op = "adminUnbind" /\ tx[t].at >= 2

BindingLocked ==
    \A t \in Transactions :
        HoldsBinding(t) => tx[t].binding \in Bindings /\ owner[tx[t].binding] = t

\* An activation that reuses a binding because its view shows no free seat, and a
\* verification, save a binding that is active.
Reuses(t) ==
    \/ /\ tx[t].op = "activate" /\ tx[t].at = 6
       /\ MaxDevices > 0 /\ ~(tx[t].seen < MaxDevices)
    \/ tx[t].op = "verify" /\ tx[t].at = 7

ReusedActive ==
    \A t \in Transactions :
        Reuses(t) => /\ tx[t].binding \in ActiveBindings
                     /\ owner[tx[t].binding] = t

LockInv == TypeOK /\ AtStatement /\ LicenseLocked /\ BindingLocked /\ ReusedActive

-----------------------------------------------------------------------------
LEMMA Lengths ==
    ASSUME NEW op \in DOMAIN Program
    PROVE  /\ Len(Program[op]) \in 1..7
           /\ 1 \in 1..Len(Program[op])
           /\ \A i \in 1..Len(Program[op]) : i \in 1..7
<1>1. op \in {"generate", "activate", "verify", "unbind", "adminUnbind", "disconnect",
              "unbindAll", "delete", "setLicense", "setMerchant", "setApp"}
  BY DEF Program
<1>2. CASE op = "generate"
  BY <1>2 DEF Program
<1>3. CASE op = "activate"
  BY <1>3 DEF Program
<1>4. CASE op = "verify"
  BY <1>4 DEF Program
<1>5. CASE op = "unbind"
  BY <1>5 DEF Program
<1>6. CASE op = "adminUnbind"
  BY <1>6 DEF Program
<1>7. CASE op = "disconnect"
  BY <1>7 DEF Program
<1>8. CASE op = "unbindAll"
  BY <1>8 DEF Program
<1>9. CASE op = "delete"
  BY <1>9 DEF Program
<1>10. CASE op = "setLicense"
  BY <1>10 DEF Program
<1>11. CASE op = "setMerchant"
  BY <1>11 DEF Program
<1>12. CASE op = "setApp"
  BY <1>12 DEF Program
<1> QED
  BY <1>1, <1>2, <1>3, <1>4, <1>5, <1>6, <1>7, <1>8, <1>9, <1>10, <1>11, <1>12

\* Where the statements are that the proof is about.
LEMMA Positions ==
    ASSUME NEW op \in DOMAIN Program, NEW i \in 1..Len(Program[op])
    PROVE  /\ Len(Program[op]) \in 1..7
           /\ Program[op][i] = "commit" <=> i = Len(Program[op])
           /\ Program[op][i] # "none"
           /\ op = "activate" =>
                 /\ Len(Program[op]) = 6
                 /\ Program[op][i] = "identity" <=> i = 1
                 /\ Program[op][i] = "license" <=> i = 4
                 /\ Program[op][i] = "binding" <=> i = 5
           /\ op = "verify" =>
                 /\ Len(Program[op]) = 7
                 /\ Program[op][i] = "session" <=> i = 4
                 /\ Program[op][i] = "license" <=> i = 5
                 /\ Program[op][i] = "binding" <=> i = 6
           /\ op = "unbind" =>
                 /\ Len(Program[op]) = 7
                 /\ Program[op][i] = "session" <=> i = 4
                 /\ Program[op][i] = "binding" <=> i = 5
           /\ op = "adminUnbind" =>
                 (Program[op][i] = "binding" <=> i = 1)
           /\ op \in {"unbindAll", "delete"} => (Program[op][i] = "license" <=> i = 1)
<1>1. op \in {"generate", "activate", "verify", "unbind", "adminUnbind", "disconnect",
              "unbindAll", "delete", "setLicense", "setMerchant", "setApp"}
  BY DEF Program
<1>2. CASE op = "generate"
  BY <1>2 DEF Program
<1>3. CASE op = "activate"
  BY <1>3 DEF Program
<1>4. CASE op = "verify"
  BY <1>4 DEF Program
<1>5. CASE op = "unbind"
  BY <1>5 DEF Program
<1>6. CASE op = "adminUnbind"
  BY <1>6 DEF Program
<1>7. CASE op = "disconnect"
  BY <1>7 DEF Program
<1>8. CASE op = "unbindAll"
  BY <1>8 DEF Program
<1>9. CASE op = "delete"
  BY <1>9 DEF Program
<1>10. CASE op = "setLicense"
  BY <1>10 DEF Program
<1>11. CASE op = "setMerchant"
  BY <1>11 DEF Program
<1>12. CASE op = "setApp"
  BY <1>12 DEF Program
<1> QED
  BY <1>1, <1>2, <1>3, <1>4, <1>5, <1>6, <1>7, <1>8, <1>9, <1>10, <1>11, <1>12

LEMMA SessionPosition ==
    ASSUME NEW op \in DOMAIN Program, NEW i \in 1..Len(Program[op]),
           Program[op][i] = "session"
    PROVE  op \in {"verify", "unbind"}
<1>1. op \in {"generate", "activate", "verify", "unbind", "adminUnbind", "disconnect",
              "unbindAll", "delete", "setLicense", "setMerchant", "setApp"}
  BY DEF Program
<1>2. CASE op = "generate"
  BY <1>2 DEF Program
<1>3. CASE op = "activate"
  BY <1>3 DEF Program
<1>4. CASE op = "verify"
  BY <1>4 DEF Program
<1>5. CASE op = "unbind"
  BY <1>5 DEF Program
<1>6. CASE op = "adminUnbind"
  BY <1>6 DEF Program
<1>7. CASE op = "disconnect"
  BY <1>7 DEF Program
<1>8. CASE op = "unbindAll"
  BY <1>8 DEF Program
<1>9. CASE op = "delete"
  BY <1>9 DEF Program
<1>10. CASE op = "setLicense"
  BY <1>10 DEF Program
<1>11. CASE op = "setMerchant"
  BY <1>11 DEF Program
<1>12. CASE op = "setApp"
  BY <1>12 DEF Program
<1> QED
  BY <1>1, <1>2, <1>3, <1>4, <1>5, <1>6, <1>7, <1>8, <1>9, <1>10, <1>11, <1>12

LEMMA CommitPosition ==
    ASSUME NEW op \in DOMAIN Program, NEW i \in 1..Len(Program[op]),
           Program[op][i] = "commit"
    PROVE  /\ op = "activate" => i = 6
           /\ op \in {"verify", "unbind"} => i = 7
<1>1. op \in {"generate", "activate", "verify", "unbind", "adminUnbind", "disconnect",
              "unbindAll", "delete", "setLicense", "setMerchant", "setApp"}
  BY DEF Program
<1>2. CASE op = "generate"
  BY <1>2 DEF Program
<1>3. CASE op = "activate"
  BY <1>3 DEF Program
<1>4. CASE op = "verify"
  BY <1>4 DEF Program
<1>5. CASE op = "unbind"
  BY <1>5 DEF Program
<1>6. CASE op = "adminUnbind"
  BY <1>6 DEF Program
<1>7. CASE op = "disconnect"
  BY <1>7 DEF Program
<1>8. CASE op = "unbindAll"
  BY <1>8 DEF Program
<1>9. CASE op = "delete"
  BY <1>9 DEF Program
<1>10. CASE op = "setLicense"
  BY <1>10 DEF Program
<1>11. CASE op = "setMerchant"
  BY <1>11 DEF Program
<1>12. CASE op = "setApp"
  BY <1>12 DEF Program
<1> QED
  BY <1>1, <1>2, <1>3, <1>4, <1>5, <1>6, <1>7, <1>8, <1>9, <1>10, <1>11, <1>12

\* The statement of a running transaction.
LEMMA StatementOf ==
    ASSUME LockInv, NEW t \in Transactions, Statement(t) # "none"
    PROVE  /\ tx[t].op \in DOMAIN Program /\ tx[t].op # "idle"
           /\ tx[t].at \in 1..Len(Program[tx[t].op])
           /\ Statement(t) = Program[tx[t].op][tx[t].at]
           /\ Statement(t) # "commit" => tx[t].at + 1 \in 1..Len(Program[tx[t].op])
           /\ Len(Program[tx[t].op]) \in 1..7
<1>1. /\ tx[t].op \in DOMAIN Program /\ tx[t].op # "idle"
      /\ tx[t].at \in 1..Len(Program[tx[t].op])
      /\ Statement(t) = Program[tx[t].op][tx[t].at]
  BY DEF LockInv, TypeOK, TxRec, AtStatement, Running, Statement
<1> QED
  BY <1>1, Positions

LEMMA SeenTyped ==
    /\ IsFiniteSet(Bindings) /\ IsFiniteSet(ActiveBindings)
    /\ Cardinality(Bindings) \in Nat
    /\ Cardinality(ActiveBindings) \in 0..Cardinality(Bindings)
BY IdsAssumption, FS_Subset, FS_CardinalityType DEF ActiveBindings

\* What a statement's result becomes.
LEMMA ReadCases ==
    ASSUME NEW t, NEW q \in Read(t)
    PROVE  \/ /\ Statement(t) = "identity"
              /\ q = [tx[t] EXCEPT !.seen = Cardinality(ActiveBindings)]
           \/ /\ Statement(t) = "session"
              /\ q = [tx[t] EXCEPT !.binding = session[tx[t].session]]
           \/ /\ Statement(t) = "binding" /\ tx[t].op = "activate"
              /\ \E b \in BindingFor(tx[t].device) : q = [tx[t] EXCEPT !.binding = b]
           \/ /\ Statement(t) \notin {"identity", "session"}
              /\ ~(Statement(t) = "binding" /\ tx[t].op = "activate"
                   /\ BindingFor(tx[t].device) # {})
              /\ q = tx[t]
BY DEF Read

-----------------------------------------------------------------------------
(***************************************************************************)
(* Types.                                                                  *)
(***************************************************************************)
LEMMA IdleTyped == Idle \in TxRec /\ Idle.op = "idle" /\ Idle.at = 1 /\ Running(Idle)
BY LimitsAssumption, SeenTyped DEF Idle, TxRec, Running, StatusOps

LEMMA MysqlInitial == Init => LockInv
<1> SUFFICES ASSUME Init PROVE LockInv
  OBVIOUS
<1>1. TypeOK
  BY IdleTyped DEF Init, TypeOK, Status
<1>2. \A t \in Transactions : tx[t].op = "idle" /\ tx[t].at = 1 /\ Running(tx[t])
  BY IdleTyped DEF Init
<1> QED
  BY <1>1, <1>2
  DEF LockInv, AtStatement, LicenseLocked, HoldsLicense, BindingLocked, HoldsBinding,
      ReusedActive, Reuses

\* Replacing the record of one connection.
LEMMA TxTyped ==
    ASSUME LockInv, NEW t \in Transactions, NEW q \in TxRec, tx' = [tx EXCEPT ![t] = q],
           Running(q)
    PROVE  tx' \in [Transactions -> TxRec] /\ AtStatement'
BY DEF LockInv, TypeOK, AtStatement

LEMMA EndTyped ==
    ASSUME LockInv, NEW t \in Transactions, End(t)
    PROVE  /\ tx' \in [Transactions -> TxRec] /\ AtStatement'
           /\ owner' \in [Rows -> Transactions \cup {None}]
<1>1. tx' \in [Transactions -> TxRec] /\ AtStatement'
  BY IdleTyped, TxTyped DEF End
<1> QED
  BY <1>1 DEF End, Release, LockInv, TypeOK

LEMMA BeginTyped ==
    ASSUME LockInv, NEW t \in Transactions, BeginAny(t)
    PROVE  TypeOK' /\ AtStatement' /\ tx'[t].at = 1
<1> USE DEF Begin
<1>1. \E q \in TxRec :
          /\ q.op \in DOMAIN Program /\ q.at = 1
          /\ q.op \in {"verify", "unbind"} => q.session \in Sessions
          /\ q.op \in {"activate", "adminUnbind", "disconnect"} => q.binding \in Bindings
          /\ q.op \in StatusOps => q.status \in Status
          /\ tx' = [tx EXCEPT ![t] = q]
  <2> USE IdleTyped DEF TxRec, StatusOps
  <2>0. {"generate", "activate", "verify", "unbind", "adminUnbind", "disconnect",
         "unbindAll", "delete", "setLicense", "setMerchant", "setApp"} = DOMAIN Program
    BY DEF Program
  <2>1. CASE \E d \in Devices, b \in Bindings, s \in Sessions : BeginActivate(t, d, b, s)
    BY <2>0, <2>1 DEF BeginActivate
  <2>2. CASE \E op \in ClientOps, d \in Devices, s \in Sessions : BeginWithSession(t, op, d, s)
    BY <2>0, <2>2, ZenonT(60) DEF BeginWithSession
  <2>3. CASE \E op \in DOMAIN Program, b \in Bindings : BeginWithBinding(t, op, b)
    BY <2>0, <2>3 DEF BeginWithBinding
  <2>4. CASE \E op \in DOMAIN Program : BeginWithLicense(t, op)
    BY <2>0, <2>4 DEF BeginWithLicense
  <2>5. CASE \E op \in StatusOps, status \in Status : BeginStatus(t, op, status)
    BY <2>0, <2>5 DEF BeginStatus
  <2>6. CASE BeginGenerate(t)
    BY <2>0, <2>6 DEF BeginGenerate
  <2> QED
    BY <2>1, <2>2, <2>3, <2>4, <2>5, <2>6 DEF BeginAny
<1>2. UNCHANGED <<rows, owner>>
  BY DEF BeginAny, BeginActivate, BeginWithSession, BeginWithBinding, BeginWithLicense,
         BeginStatus, BeginGenerate
<1>3. \A op \in DOMAIN Program : 1 \in 1..Len(Program[op])
  BY Lengths
<1>4. tx' \in [Transactions -> TxRec] /\ AtStatement'
  <2>1. PICK q \in TxRec :
            /\ q.op \in DOMAIN Program /\ q.at = 1
            /\ q.op \in {"verify", "unbind"} => q.session \in Sessions
            /\ q.op \in {"activate", "adminUnbind", "disconnect"} => q.binding \in Bindings
            /\ q.op \in StatusOps => q.status \in Status
            /\ tx' = [tx EXCEPT ![t] = q]
    BY <1>1
  <2>2. Running(q)
    BY <1>3, <2>1 DEF Running
  <2> QED
    BY <2>1, <2>2, TxTyped
<1>5. tx'[t].at = 1
  BY <1>1 DEF LockInv, TypeOK
<1> QED
  BY <1>2, <1>4, <1>5 DEF LockInv, TypeOK, rows

LEMMA ExecuteTyped ==
    ASSUME LockInv, NEW t \in Transactions, Execute(t)
    PROVE  TypeOK' /\ AtStatement'
<1>1. PICK q \in Read(t) : tx' = [tx EXCEPT ![t] = [q EXCEPT !.at = @ + 1]]
  BY DEF Execute
<1>2. /\ tx[t] \in TxRec /\ tx[t].op # "idle"
      /\ tx[t].at + 1 \in 1..Len(Program[tx[t].op]) /\ tx[t].at + 1 \in 1..7
      /\ tx[t].op \in DOMAIN Program /\ tx[t].at \in 1..Len(Program[tx[t].op])
      /\ Statement(t) = Program[tx[t].op][tx[t].at]
      /\ Statement(t) = "session" =>
            tx[t].op \in {"verify", "unbind"} /\ tx[t].session \in Sessions
  <2>1. Statement(t) # "none" /\ Statement(t) # "commit"
    BY DEF Execute
  <2>2. /\ tx[t] \in TxRec /\ Running(tx[t])
        /\ tx[t].op \in DOMAIN Program /\ tx[t].op # "idle"
        /\ tx[t].at \in 1..Len(Program[tx[t].op])
        /\ tx[t].at + 1 \in 1..Len(Program[tx[t].op])
        /\ Statement(t) = Program[tx[t].op][tx[t].at]
    BY <2>1, StatementOf DEF LockInv, TypeOK, AtStatement
  <2>3. tx[t].at + 1 \in 1..7
    BY <2>2, Lengths
  <2>4. Statement(t) = "session" => tx[t].op \in {"verify", "unbind"}
    BY <2>2, SessionPosition
  <2> QED
    BY <2>2, <2>3, <2>4 DEF Running
<1>3. q \in TxRec /\ q.op = tx[t].op /\ q.at = tx[t].at /\ q.session = tx[t].session
      /\ q.status = tx[t].status
  <2>1. CASE q = [tx[t] EXCEPT !.seen = Cardinality(ActiveBindings)]
    BY <1>2, <2>1, SeenTyped DEF TxRec
  <2>2. CASE Statement(t) = "session" /\ q = [tx[t] EXCEPT !.binding = session[tx[t].session]]
    <3>1. session[tx[t].session] \in Bindings \cup {None}
      BY <1>2, <2>2 DEF LockInv, TypeOK
    <3> QED
      BY <1>2, <2>2, <3>1 DEF TxRec
  <2>3. CASE \E b \in BindingFor(tx[t].device) : q = [tx[t] EXCEPT !.binding = b]
    BY <1>2, <2>3 DEF TxRec, BindingFor, ActiveBindings
  <2>4. CASE q = tx[t]
    BY <1>2, <2>4
  <2> QED
    BY <2>1, <2>2, <2>3, <2>4, ReadCases
<1>4. [q EXCEPT !.at = @ + 1] \in TxRec
  BY <1>2, <1>3 DEF TxRec
<1>5. tx' \in [Transactions -> TxRec] /\ AtStatement'
  <2> DEFINE next == [q EXCEPT !.at = @ + 1]
  <2>1. /\ next.op = tx[t].op /\ next.at = tx[t].at + 1 /\ next.session = tx[t].session
        /\ next.status = tx[t].status /\ next.binding = q.binding
    BY <1>2, <1>3 DEF TxRec
  <2>2. Running(tx[t])
    BY DEF LockInv, AtStatement
  <2>3. next.op \in {"activate", "adminUnbind", "disconnect"} => next.binding \in Bindings
    <3> SUFFICES ASSUME tx[t].op \in {"activate", "adminUnbind", "disconnect"}
                 PROVE  q.binding \in Bindings
      BY <2>1
    <3>1. Statement(t) # "session"
      BY <1>2
    <3>2. tx[t].binding \in Bindings
      BY <2>2 DEF Running
    <3> QED
      BY <1>2, <3>1, <3>2, ReadCases DEF TxRec, BindingFor, ActiveBindings
  <2>4. next.op \in {"verify", "unbind"} /\ next.at >= 5 => next.binding \in Bindings
    <3> SUFFICES ASSUME tx[t].op \in {"verify", "unbind"}, tx[t].at + 1 >= 5
                 PROVE  q.binding \in Bindings
      BY <2>1
    <3>1. Statement(t) = "session" <=> tx[t].at = 4
      BY <1>2, Positions
    <3>2. CASE Statement(t) = "session"
      <4>1. session[tx[t].session] # None /\ tx[t].session \in Sessions
        BY <1>2, <3>2 DEF Execute, Passes
      <4>2. session[tx[t].session] \in Bindings
        BY <4>1 DEF LockInv, TypeOK
      <4> QED
        BY <1>2, <3>2, <4>2, ReadCases DEF TxRec
    <3>3. CASE Statement(t) # "session"
      <4>1. tx[t].binding \in Bindings
        BY <1>2, <2>2, <3>1, <3>3 DEF Running, TxRec
      <4> QED
        BY <1>2, <3>3, <4>1, ReadCases DEF TxRec, BindingFor, ActiveBindings
    <3> QED
      BY <3>2, <3>3
  <2>5. Running(next)
    BY <1>2, <2>1, <2>2, <2>3, <2>4 DEF Running
  <2> QED
    BY <1>1, <1>4, <2>5, TxTyped
<1> QED
  BY <1>5 DEF Execute, LockInv, TypeOK, rows

\* The rows after a commit.
LEMMA CommitTyped ==
    ASSUME LockInv, NEW t \in Transactions, Commit(t)
    PROVE  TypeOK' /\ AtStatement' /\ End(t)
<1>1. End(t)
  BY DEF Commit, CommitGenerate, CommitActivate, CommitVerify, CommitUnbind,
         CommitDisconnect, CommitUnbindAll, CommitDelete, CommitStatus
<1>2. tx[t] \in TxRec
  BY DEF LockInv, TypeOK
<1> DEFINE Licenses == [status : {"none", "pending", "active", "disabled", "deleted"},
                        activated : BOOLEAN]
           BindingRows == [Bindings -> [status : {"absent", "active", "revoked"},
                                        device : Devices \cup {None}]]
<1>3. merchant' \in Status /\ app' \in Status
  <2>1. Committing(t, StatusOps) => tx[t].op \in StatusOps
    BY DEF Committing
  <2>2. tx[t].status \in Status \cup {None}
    BY <1>2 DEF TxRec
  <2>3. CASE CommitStatus(t)
    <3>1. tx[t].status \in Status
      BY <2>3 DEF CommitStatus, LockInv, AtStatement, Running, Committing
    <3> QED
      BY <2>3, <3>1 DEF CommitStatus, LockInv, TypeOK
  <2> QED
    BY <2>3
    DEF Commit, CommitGenerate, CommitActivate, CommitVerify, CommitUnbind,
        CommitDisconnect, CommitUnbindAll, CommitDelete, LockInv, TypeOK
<1>4. license' \in Licenses
  <2>1. license \in Licenses
    BY DEF LockInv, TypeOK
  <2>2. CASE CommitGenerate(t)
    BY <2>2 DEF CommitGenerate
  <2>5. CASE CommitDelete(t)
    BY <2>5 DEF CommitDelete
  <2>3. CASE CommitActivate(t)
    BY <2>1, <2>3 DEF CommitActivate
  <2>4. CASE CommitStatus(t)
    <3>1. \/ license' = license
          \/ \E st \in {"disabled", "active", "pending"} :
                license' = [license EXCEPT !.status = st]
      BY <2>4 DEF CommitStatus
    <3> QED
      BY <2>1, <3>1
  <2> QED
    BY <2>1, <2>2, <2>3, <2>4, <2>5
    DEF Commit, CommitVerify, CommitUnbind, CommitDisconnect, CommitUnbindAll
<1>5. binding' \in BindingRows
  <2>1. binding \in BindingRows /\ tx[t].device \in Devices \cup {None}
    BY <1>2 DEF LockInv, TypeOK, TxRec
  <2>2. CASE CommitActivate(t) \/ CommitVerify(t)
    BY <2>1, <2>2 DEF CommitActivate, CommitVerify, SaveBinding
  <2>3. CASE CommitUnbind(t)
    BY <2>1, <2>3 DEF CommitUnbind
  <2>4. CASE CommitUnbindAll(t)
    BY <2>1, <2>4 DEF CommitUnbindAll
  <2>5. CASE CommitDelete(t)
    BY <2>1, <2>5 DEF CommitDelete
  <2> QED
    BY <2>1, <2>2, <2>3, <2>4, <2>5
    DEF Commit, CommitGenerate, CommitDisconnect, CommitStatus
<1>6. session' \in [Sessions -> Bindings \cup {None}]
  <2>1. session \in [Sessions -> Bindings \cup {None}] /\ tx[t].binding \in Bindings \cup {None}
    BY <1>2 DEF LockInv, TypeOK, TxRec
  <2> QED
    BY <2>1
    DEF Commit, CommitGenerate, CommitActivate, CommitVerify, CommitUnbind,
        CommitDisconnect, CommitUnbindAll, CommitDelete, CommitStatus, WithoutDeleted
<1> QED
  BY <1>1, <1>3, <1>4, <1>5, <1>6, EndTyped DEF TypeOK

LEMMA RetryTyped ==
    ASSUME LockInv, NEW t \in Transactions, Retry(t)
    PROVE  TypeOK' /\ AtStatement' /\ tx'[t].at = 1
<1> DEFINE q == [tx[t] EXCEPT !.at = 1, !.attempt = @ + 1, !.seen = 0,
                             !.binding = IF tx[t].op = "activate" THEN @ ELSE None]
<1>1. tx[t] \in TxRec /\ Running(tx[t]) /\ tx[t].op \in ClientOps
  BY DEF LockInv, TypeOK, AtStatement, Retry, MayRetry
<1>2. tx' = [tx EXCEPT ![t] = q]
  BY DEF Retry, LockInv, TypeOK
<1>3. tx[t].attempt + 1 \in 1..MaxAttempts
  BY <1>1, LimitsAssumption DEF Retry, MayRetry, TxRec
<1>4. q \in TxRec
  <2>1. (IF tx[t].op = "activate" THEN tx[t].binding ELSE None) \in Bindings \cup {None}
    BY <1>1 DEF TxRec
  <2>2. 0 \in 0..Cardinality(Bindings) /\ 1 \in 1..7
    BY SeenTyped
  <2> QED
    BY <1>1, <1>3, <2>1, <2>2 DEF TxRec
<1>5. tx[t].op \in DOMAIN Program /\ 1 \in 1..Len(Program[tx[t].op])
  <2>1. ClientOps \subseteq DOMAIN Program
    BY DEF ClientOps, Program
  <2> QED
    BY <1>1, <2>1, Lengths
<1>6. Running(q)
  <2>1. /\ q.op = tx[t].op /\ q.at = 1 /\ q.session = tx[t].session
        /\ q.op = "activate" => q.binding = tx[t].binding
    BY <1>1 DEF TxRec
  <2>2. q.op \notin {"adminUnbind", "disconnect"} \cup StatusOps
    BY <1>1, <2>1 DEF ClientOps, StatusOps
  <2> QED
    BY <1>1, <1>5, <2>1, <2>2 DEF Running
<1>7. tx' \in [Transactions -> TxRec] /\ AtStatement'
  BY <1>2, <1>4, <1>6, TxTyped
<1>8. owner' \in [Rows -> Transactions \cup {None}]
  BY DEF Retry, Release, LockInv, TypeOK
<1>9. tx'[t] = q /\ q.at = 1
  BY <1>1, <1>2 DEF LockInv, TypeOK, TxRec
<1> QED
  BY <1>7, <1>8, <1>9 DEF Retry, LockInv, TypeOK, rows

-----------------------------------------------------------------------------
(***************************************************************************)
(* Locks.                                                                  *)
(***************************************************************************)
StepOf(t) ==
    \/ BeginAny(t)
    \/ \E r \in Rows : Lock(t, r)
    \/ Execute(t) \/ Refuse(t) \/ Commit(t)
    \/ Retry(t) \/ GiveUp(t) \/ Timeout(t)

LEMMA StepTyped ==
    ASSUME LockInv, NEW t \in Transactions, StepOf(t)
    PROVE  TypeOK' /\ AtStatement'
<1>1. CASE \E r \in Rows : Lock(t, r)
  BY <1>1 DEF Lock, LockInv, TypeOK, AtStatement, rows
<1>2. CASE Refuse(t) \/ GiveUp(t) \/ Timeout(t)
  BY <1>2, EndTyped DEF Refuse, GiveUp, Timeout, LockInv, TypeOK, rows
<1> QED
  BY <1>1, <1>2, BeginTyped, ExecuteTyped, CommitTyped, RetryTyped DEF StepOf

\* A step takes no lock from another connection and leaves its record alone.
LEMMA OthersKept ==
    ASSUME LockInv, NEW t \in Transactions, StepOf(t), NEW u \in Transactions, u # t
    PROVE  tx'[u] = tx[u] /\ \A r \in Rows : owner[r] = u => owner'[r] = u
<1>0. u # None
  BY NoneAssumption
<1>1. CASE \E r \in Rows : Lock(t, r)
  BY <1>0, <1>1 DEF Lock, LockInv, TypeOK
<1>2. CASE End(t)
  BY <1>2 DEF End, Release, LockInv, TypeOK
<1>3. CASE Execute(t)
  <2>1. \A r \in Wants(t) : owner[r] \in {None, t}
    BY <1>3 DEF Execute, Waiting, WaitsFor
  <2> QED
    BY <1>0, <1>3, <2>1 DEF Execute, LockInv, TypeOK
<1>4. CASE BeginAny(t)
  BY <1>4
  DEF BeginAny, BeginActivate, BeginWithSession, BeginWithBinding, BeginWithLicense,
      BeginStatus, BeginGenerate, Begin, LockInv, TypeOK
<1>5. CASE Retry(t)
  BY <1>5 DEF Retry, Release, LockInv, TypeOK
<1> QED
  BY <1>1, <1>2, <1>3, <1>4, <1>5, CommitTyped DEF StepOf, Refuse, GiveUp, Timeout

\* What a step does to its own connection.
LEMMA OwnStep ==
    ASSUME LockInv, NEW t \in Transactions, StepOf(t)
    PROVE  \/ tx'[t].at = 1
           \/ /\ tx' = tx /\ UNCHANGED rows
              /\ \A r \in Rows : owner[r] = t => owner'[r] = t
           \/ Execute(t)
<1>1. CASE \E r \in Rows : Lock(t, r)
  BY <1>1 DEF Lock, LockInv, TypeOK
<1>2. CASE End(t)
  BY <1>2, IdleTyped DEF End, LockInv, TypeOK
<1>3. CASE BeginAny(t)
  BY <1>3, BeginTyped
<1>4. CASE Retry(t)
  BY <1>4, RetryTyped
<1> QED
  BY <1>1, <1>2, <1>3, <1>4, CommitTyped DEF StepOf, Refuse, GiveUp, Timeout

\* What executing a statement does to its own connection.
LEMMA OwnExecute ==
    ASSUME LockInv, NEW t \in Transactions, Execute(t)
    PROVE  /\ tx'[t].op = tx[t].op /\ tx'[t].at = tx[t].at + 1 /\ tx[t].at \in 1..7
           /\ tx[t].op \in DOMAIN Program /\ tx[t].at \in 1..Len(Program[tx[t].op])
           /\ Statement(t) = Program[tx[t].op][tx[t].at]
           /\ UNCHANGED rows /\ Passes(t)
           /\ \A r \in Rows : owner[r] = t => owner'[r] = t
           /\ \A r \in Rows : r \in Wants(t) => owner'[r] = t
           /\ Statement(t) # "identity" => tx'[t].seen = tx[t].seen
           /\ Statement(t) = "identity" => tx'[t].seen = Cardinality(ActiveBindings)
           /\ \/ Statement(t) = "session"
              \/ Statement(t) = "binding" /\ tx[t].op = "activate"
                 /\ tx'[t].binding \in BindingFor(tx[t].device)
              \/ /\ tx'[t].binding = tx[t].binding
                 /\ ~(Statement(t) = "binding" /\ tx[t].op = "activate"
                      /\ BindingFor(tx[t].device) # {})
<1>1. PICK q \in Read(t) : tx' = [tx EXCEPT ![t] = [q EXCEPT !.at = @ + 1]]
  BY DEF Execute
<1>2. Statement(t) # "none" /\ Statement(t) # "commit" /\ tx[t] \in TxRec
  BY DEF Execute, LockInv, TypeOK
<1>3. /\ tx[t].op \in DOMAIN Program /\ tx[t].at \in 1..Len(Program[tx[t].op])
      /\ Statement(t) = Program[tx[t].op][tx[t].at]
  BY <1>2, StatementOf
<1>4. tx'[t] = [q EXCEPT !.at = @ + 1]
  BY <1>1 DEF LockInv, TypeOK
<1>5. /\ tx'[t].op = tx[t].op /\ tx'[t].at = tx[t].at + 1
      /\ Statement(t) # "identity" => tx'[t].seen = tx[t].seen
      /\ Statement(t) = "identity" => tx'[t].seen = Cardinality(ActiveBindings)
      /\ \/ Statement(t) = "session"
         \/ Statement(t) = "binding" /\ tx[t].op = "activate"
            /\ tx'[t].binding \in BindingFor(tx[t].device)
         \/ /\ tx'[t].binding = tx[t].binding
            /\ ~(Statement(t) = "binding" /\ tx[t].op = "activate"
                 /\ BindingFor(tx[t].device) # {})
  BY <1>2, <1>4, ReadCases DEF TxRec
<1>6. /\ UNCHANGED rows /\ Passes(t)
      /\ \A r \in Rows : owner[r] = t => owner'[r] = t
      /\ \A r \in Rows : r \in Wants(t) => owner'[r] = t
  BY DEF Execute
<1> QED
  BY <1>2, <1>3, <1>5, <1>6 DEF TxRec

LEMMA LicenseLockKept ==
    ASSUME LockInv, NEW t \in Transactions, StepOf(t)
    PROVE  LicenseLocked'
<1> SUFFICES ASSUME NEW u \in Transactions, HoldsLicense(u)'
             PROVE  owner'["license"] = u
  BY DEF LicenseLocked
<1>0. "license" \in Rows
  BY DEF Rows
<1>1. CASE u # t
  BY <1>0, <1>1, OthersKept DEF LockInv, LicenseLocked, HoldsLicense
<1>2. CASE u = t /\ ~Execute(t)
  BY <1>0, <1>2, OwnStep DEF LockInv, LicenseLocked, HoldsLicense
<1>3. CASE u = t /\ Execute(t)
  <2>1. CASE HoldsLicense(t)
    BY <1>0, <1>3, <2>1, OwnExecute DEF LockInv, LicenseLocked
  <2>2. CASE ~HoldsLicense(t)
    <3>1. Statement(t) = "license"
      BY <1>3, <2>2, OwnExecute, Positions DEF HoldsLicense
    <3>2. "license" \in Wants(t)
      BY <1>3, <3>1, OwnExecute DEF Wants, Passes
    <3> QED
      BY <1>0, <1>3, <3>2, OwnExecute
  <2> QED
    BY <2>1, <2>2
<1> QED
  BY <1>1, <1>2, <1>3

LEMMA BindingLockKept ==
    ASSUME LockInv, NEW t \in Transactions, StepOf(t)
    PROVE  BindingLocked'
<1> SUFFICES ASSUME NEW u \in Transactions, HoldsBinding(u)'
             PROVE  tx'[u].binding \in Bindings /\ owner'[tx'[u].binding] = u
  BY DEF BindingLocked
<1>0. Bindings \subseteq Rows
  BY DEF Rows
<1>1. CASE u # t
  BY <1>0, <1>1, OthersKept DEF LockInv, BindingLocked, HoldsBinding
<1>2. CASE u = t /\ ~Execute(t)
  BY <1>0, <1>2, OwnStep DEF LockInv, BindingLocked, HoldsBinding
<1>3. CASE u = t /\ Execute(t)
  <2>1. /\ tx[t].op \in {"unbind", "adminUnbind"}
        /\ tx[t].op = "unbind" => tx[t].at >= 5
        /\ tx[t].op = "unbind" => Statement(t) # "session"
    BY <1>3, OwnExecute, Positions DEF HoldsBinding
  <2>2. Statement(t) # "session"
    BY <1>3, <2>1, OwnExecute, SessionPosition
  <2>3. tx'[t].binding = tx[t].binding
    BY <1>3, <2>1, <2>2, OwnExecute
  <2>4. tx[t].binding \in Bindings
    BY <2>1 DEF LockInv, AtStatement, Running
  <2>5. CASE HoldsBinding(t)
    BY <1>0, <1>3, <2>3, <2>5, OwnExecute DEF LockInv, BindingLocked
  <2>6. CASE ~HoldsBinding(t)
    <3>1. Statement(t) = "binding"
      BY <1>3, <2>1, <2>6, OwnExecute, Positions DEF HoldsBinding
    <3>2. binding[tx[t].binding].status = "active"
      BY <1>3, <2>1, <3>1, OwnExecute DEF Passes
    <3>3. tx[t].binding \in Wants(t)
      BY <2>1, <2>4, <3>1, <3>2 DEF Wants
    <3> QED
      BY <1>0, <1>3, <2>3, <2>4, <3>3, OwnExecute
  <2> QED
    BY <2>5, <2>6
<1> QED
  BY <1>1, <1>2, <1>3

\* A binding is revoked or deleted only under its own lock or the licence's.
LEMMA ActiveKept ==
    ASSUME LockInv, NEW t \in Transactions, StepOf(t), NEW u \in Transactions, u # t,
           NEW b \in ActiveBindings, owner[b] = u, owner["license"] = u
    PROVE  b \in ActiveBindings'
<1>1. binding \in [Bindings -> [status : {"absent", "active", "revoked"},
                               device : Devices \cup {None}]]
  BY DEF LockInv, TypeOK
<1>2. CASE UNCHANGED binding
  BY <1>2 DEF ActiveBindings
<1>3. CASE CommitActivate(t) \/ CommitVerify(t)
  BY <1>1, <1>3 DEF CommitActivate, CommitVerify, SaveBinding, ActiveBindings
<1>4. CASE CommitUnbind(t)
  <2>1. HoldsBinding(t)
    <3>1. tx[t].op \in {"unbind", "adminUnbind"} /\ Statement(t) = "commit"
      BY <1>4 DEF CommitUnbind, Committing
    <3>2. tx[t].op \in DOMAIN Program /\ tx[t].at \in 1..Len(Program[tx[t].op])
          /\ Statement(t) = Program[tx[t].op][tx[t].at]
      BY <3>1, StatementOf
    <3>3. CASE tx[t].op = "unbind"
      <4>1. tx[t].at = 7
        BY <3>1, <3>2, <3>3, CommitPosition
      <4> QED
        BY <3>3, <4>1 DEF HoldsBinding
    <3>4. CASE tx[t].op = "adminUnbind"
      <4>1. tx[t].at # 1 /\ tx[t].at \in 1..7
        BY <3>1, <3>2, <3>4, Positions, Lengths
      <4> QED
        BY <3>4, <4>1 DEF HoldsBinding
    <3> QED
      BY <3>1, <3>3, <3>4
  <2>2. tx[t].binding # b
    BY <2>1 DEF LockInv, BindingLocked
  <2> QED
    BY <1>1, <1>4, <2>2 DEF CommitUnbind, ActiveBindings
<1>5. CASE CommitUnbindAll(t) \/ CommitDelete(t)
  <2>1. tx[t].op \in {"unbindAll", "delete"} /\ Statement(t) = "commit"
    BY <1>5 DEF CommitUnbindAll, CommitDelete, Committing
  <2>2. tx[t].op \in DOMAIN Program /\ tx[t].at \in 1..Len(Program[tx[t].op])
        /\ Statement(t) = Program[tx[t].op][tx[t].at]
    BY <2>1, StatementOf
  <2>3. HoldsLicense(t)
    BY <2>1, <2>2, Positions DEF HoldsLicense
  <2> QED
    BY <2>3 DEF LockInv, LicenseLocked
<1>6. CASE ~Commit(t)
  BY <1>2, <1>6
  DEF StepOf, BeginAny, BeginActivate, BeginWithSession, BeginWithBinding,
      BeginWithLicense, BeginStatus, BeginGenerate, Begin, Lock, Execute, Refuse, Retry,
      GiveUp, Timeout, rows
<1> QED
  BY <1>2, <1>3, <1>4, <1>5, <1>6
  DEF Commit, CommitGenerate, CommitDisconnect, CommitStatus

LEMMA ReusedActiveKept ==
    ASSUME LockInv, NEW t \in Transactions, StepOf(t)
    PROVE  ReusedActive'
<1> SUFFICES ASSUME NEW u \in Transactions, Reuses(u)'
             PROVE  tx'[u].binding \in ActiveBindings' /\ owner'[tx'[u].binding] = u
  BY DEF ReusedActive
<1>0. Bindings \subseteq Rows /\ ActiveBindings \subseteq Bindings
  BY DEF Rows, ActiveBindings
<1>1. CASE u # t
  <2>1. tx'[u] = tx[u] /\ Reuses(u)
    BY <1>1, OthersKept DEF Reuses
  <2>2. tx[u].binding \in ActiveBindings /\ owner[tx[u].binding] = u
    BY <2>1 DEF LockInv, ReusedActive
  <2>3. owner["license"] = u
    BY <2>1 DEF Reuses, HoldsLicense, LockInv, LicenseLocked
  <2>4. tx[u].binding \in ActiveBindings'
    BY <1>1, <2>2, <2>3, ActiveKept
  <2>5. owner'[tx[u].binding] = u
    BY <1>0, <1>1, <2>2, OthersKept
  <2> QED
    BY <2>1, <2>4, <2>5
<1>2. CASE u = t /\ ~Execute(t)
  BY <1>0, <1>2, OwnStep DEF LockInv, ReusedActive, Reuses, ActiveBindings, rows
<1>3. CASE u = t /\ Execute(t)
  <2>1. /\ Statement(t) = "binding" /\ Passes(t) /\ UNCHANGED rows
        /\ \/ tx[t].op = "activate" /\ MaxDevices > 0 /\ ~(tx[t].seen < MaxDevices)
           \/ tx[t].op = "verify"
    BY <1>3, OwnExecute, Positions DEF Reuses
  <2>2. tx'[t].binding \in ActiveBindings /\ tx'[t].binding \in Wants(t)
    <3>1. CASE tx[t].op = "activate" /\ MaxDevices > 0 /\ ~(tx[t].seen < MaxDevices)
      <4>1. BindingFor(tx[t].device) # {}
        BY <2>1, <3>1 DEF Passes, SeatFree
      <4>2. tx'[t].binding \in BindingFor(tx[t].device)
        BY <1>3, <2>1, <3>1, <4>1, OwnExecute
      <4> QED
        BY <2>1, <3>1, <4>2 DEF Wants, BindingFor
    <3>2. CASE tx[t].op = "verify"
      <4>1. tx'[t].binding = tx[t].binding
        BY <1>3, <2>1, <3>2, OwnExecute
      <4>2. tx[t].at = 6
        BY <1>3, <2>1, <3>2, OwnExecute, Positions
      <4>3. tx[t].binding \in Bindings
        BY <3>2, <4>2 DEF LockInv, AtStatement, Running
      <4>4. binding[tx[t].binding].status = "active"
        BY <2>1, <3>2 DEF Passes
      <4> QED
        BY <2>1, <3>2, <4>1, <4>3, <4>4 DEF Wants, ActiveBindings
    <3> QED
      BY <2>1, <3>1, <3>2
  <2>3. ActiveBindings' = ActiveBindings
    BY <2>1 DEF ActiveBindings, rows
  <2> QED
    BY <1>0, <1>3, <2>2, <2>3, OwnExecute
<1> QED
  BY <1>1, <1>2, <1>3

LEMMA NextIsStep == Next <=> \E t \in Transactions : StepOf(t)
BY DEF Next, StepOf

LEMMA LockStep == LockInv /\ [Next]_vars => LockInv'
<1> SUFFICES ASSUME LockInv, [Next]_vars PROVE LockInv'
  OBVIOUS
<1>1. CASE UNCHANGED vars
  BY <1>1
  DEF vars, LockInv, TypeOK, AtStatement, LicenseLocked, HoldsLicense, BindingLocked,
      HoldsBinding, ReusedActive, Reuses, ActiveBindings
<1>2. ASSUME NEW t \in Transactions, StepOf(t)
      PROVE  LockInv'
  BY <1>2, StepTyped, LicenseLockKept, BindingLockKept, ReusedActiveKept DEF LockInv
<1> QED
  BY <1>1, <1>2, NextIsStep

\* Every variable keeps its type.
THEOREM MysqlTyped == Spec => []TypeOK
<1>1. LockInv => TypeOK
  BY DEF LockInv
<1> QED
  BY <1>1, MysqlInitial, LockStep, PTL DEF Spec

-----------------------------------------------------------------------------
(***************************************************************************)
(* The measure.                                                            *)
(***************************************************************************)

\* The activations whose read view shows a free seat.
Hopeful ==
    {t \in Transactions :
        tx[t].op = "activate" /\ tx[t].at > 1 /\ tx[t].seen < MaxDevices}

Measured ==
    MaxDevices > 0 =>
        Cardinality(ActiveBindings) + Cardinality(Hopeful)
            <= MaxDevices + Cardinality(Transactions) - 1

LEMMA SetsFinite ==
    /\ IsFiniteSet(ActiveBindings) /\ IsFiniteSet(Hopeful)
    /\ Cardinality(ActiveBindings) \in Nat /\ Cardinality(Hopeful) \in Nat
    /\ Cardinality(Transactions) \in Nat /\ Cardinality(Transactions) >= 1
    /\ Cardinality(Hopeful) <= Cardinality(Transactions)
<1>1. IsFiniteSet(Hopeful) /\ Cardinality(Hopeful) <= Cardinality(Transactions)
  BY PoolAssumption, FS_Subset DEF Hopeful
<1>2. Cardinality(Transactions) \in Nat /\ Cardinality(Transactions) # 0
  BY PoolAssumption, FS_CardinalityType, FS_EmptySet
<1> QED
  BY <1>1, <1>2, SeenTyped, FS_CardinalityType

\* A hopeful connection that commits adds at most one binding and is hopeful no more.
SeatTaken ==
    \E t \in Hopeful, b \in Bindings :
        ActiveBindings' \subseteq ActiveBindings \cup {b} /\ Hopeful' \subseteq Hopeful \ {t}

\* Steps that end a transaction, or leave its record alone, make nobody hopeful.
LEMMA HopefulShrinks ==
    ASSUME LockInv, NEW t \in Transactions, StepOf(t), ~Execute(t)
    PROVE  Hopeful' \subseteq Hopeful /\ (Commit(t) => t \notin Hopeful')
<1>1. \A u \in Transactions : u # t => tx'[u] = tx[u]
  BY OthersKept
<1>2. tx'[t].at = 1 \/ tx' = tx
  BY OwnStep
<1>3. Commit(t) => tx'[t].at = 1
  BY CommitTyped, IdleTyped DEF End, LockInv, TypeOK
<1> QED
  BY <1>1, <1>2, <1>3 DEF Hopeful

\* A statement makes its connection hopeful only when it opens the view on a free seat.
LEMMA ExecuteMeasured ==
    ASSUME LockInv, NEW t \in Transactions, Execute(t)
    PROVE  /\ ActiveBindings' = ActiveBindings
           /\ Hopeful' \subseteq Hopeful \/ Cardinality(ActiveBindings) < MaxDevices
<1>1. ActiveBindings' = ActiveBindings
  BY OwnExecute DEF ActiveBindings, rows
<1>2. \A u \in Transactions : u # t => tx'[u] = tx[u]
  BY OthersKept DEF StepOf
<1>3. CASE Statement(t) = "identity"
  BY <1>1, <1>2, <1>3, OwnExecute DEF Hopeful
<1>4. CASE Statement(t) # "identity"
  <2>1. tx[t].op = "activate" => tx[t].at # 1
    BY <1>4, OwnExecute, Positions
  <2>2. /\ tx'[t].op = tx[t].op /\ tx'[t].seen = tx[t].seen
        /\ tx[t].op = "activate" => tx[t].at > 1
    BY <1>4, <2>1, OwnExecute
  <2> QED
    BY <1>1, <1>2, <2>2 DEF Hopeful
<1> QED
  BY <1>3, <1>4, <1>1

LEMMA CommitMeasured ==
    ASSUME LockInv, NEW t \in Transactions, Commit(t), MaxDevices > 0
    PROVE  SeatTaken \/ (ActiveBindings' \subseteq ActiveBindings /\ Hopeful' \subseteq Hopeful)
<1>1. Hopeful' \subseteq Hopeful /\ t \notin Hopeful'
  BY HopefulShrinks DEF StepOf, Commit, CommitGenerate, CommitActivate, CommitVerify,
     CommitUnbind, CommitDisconnect, CommitUnbindAll, CommitDelete, CommitStatus,
     Committing, Execute
<1>2. /\ binding \in [Bindings -> [status : {"absent", "active", "revoked"},
                                  device : Devices \cup {None}]]
      /\ tx[t] \in TxRec
  BY DEF LockInv, TypeOK
<1>3. CASE CommitActivate(t) \/ CommitVerify(t)
  <2>1. ActiveBindings' \subseteq ActiveBindings \cup {tx[t].binding}
    BY <1>2, <1>3 DEF CommitActivate, CommitVerify, SaveBinding, ActiveBindings
  <2>2. tx[t].op \in {"activate", "verify"} /\ Statement(t) = "commit"
    BY <1>3 DEF CommitActivate, CommitVerify, Committing
  <2>3. tx[t].op \in DOMAIN Program /\ tx[t].at \in 1..Len(Program[tx[t].op])
        /\ Statement(t) = Program[tx[t].op][tx[t].at]
    BY <2>2, StatementOf
  <2>4. /\ tx[t].op = "activate" => tx[t].at = 6
        /\ tx[t].op = "verify" => tx[t].at = 7
    BY <2>2, <2>3, CommitPosition
  <2>5. CASE Reuses(t)
    <3>1. tx[t].binding \in ActiveBindings
      BY <2>5 DEF LockInv, ReusedActive
    <3> QED
      BY <1>1, <2>1, <3>1
  <2>6. CASE ~Reuses(t)
    <3>1. tx[t].op = "activate" /\ tx[t].at = 6 /\ tx[t].seen < MaxDevices
      BY <2>2, <2>4, <2>6 DEF Reuses
    <3>2. t \in Hopeful
      BY <3>1 DEF Hopeful
    <3>3. tx[t].binding \in Bindings
      BY <3>1 DEF LockInv, AtStatement, Running
    <3> QED
      BY <1>1, <2>1, <3>2, <3>3 DEF SeatTaken
  <2> QED
    BY <2>5, <2>6
<1>4. CASE ~(CommitActivate(t) \/ CommitVerify(t))
  <2>1. ActiveBindings' \subseteq ActiveBindings
    BY <1>2, <1>4
    DEF Commit, CommitGenerate, CommitUnbind, CommitDisconnect, CommitUnbindAll,
        CommitDelete, CommitStatus, ActiveBindings
  <2> QED
    BY <1>1, <2>1
<1> QED
  BY <1>3, <1>4

LEMMA MeasureStep == LockInv /\ Measured /\ [Next]_vars => Measured'
<1> SUFFICES ASSUME LockInv, Measured, [Next]_vars, MaxDevices > 0
             PROVE  Cardinality(ActiveBindings') + Cardinality(Hopeful')
                        <= MaxDevices + Cardinality(Transactions) - 1
  BY DEF Measured
<1> DEFINE A == ActiveBindings
           H == Hopeful
           n == Cardinality(Transactions)
<1>1. /\ IsFiniteSet(A) /\ IsFiniteSet(H) /\ Cardinality(A) \in Nat /\ Cardinality(H) \in Nat
      /\ n \in Nat /\ n >= 1 /\ MaxDevices \in Nat
      /\ Cardinality(A) + Cardinality(H) <= MaxDevices + n - 1
  BY SetsFinite, LimitsAssumption DEF Measured
<1>2. /\ Cardinality(A') \in Nat /\ Cardinality(H') \in Nat /\ Cardinality(H') <= n
  <2>1. IsFiniteSet(A') /\ IsFiniteSet(H') /\ Cardinality(H') <= n
    BY PoolAssumption, IdsAssumption, FS_Subset DEF ActiveBindings, Hopeful
  <2> QED
    BY <2>1, FS_CardinalityType
<1>3. CASE A' \subseteq A /\ H' \subseteq H
  <2>1. Cardinality(A') <= Cardinality(A) /\ Cardinality(H') <= Cardinality(H)
    BY <1>1, <1>3, FS_Subset
  <2> QED
    BY <1>1, <1>2, <2>1
<1>4. CASE A' = A /\ Cardinality(A) < MaxDevices
  BY <1>1, <1>2, <1>4
<1>5. CASE SeatTaken
  <2>1. PICK t \in H, b \in Bindings : A' \subseteq A \cup {b} /\ H' \subseteq H \ {t}
    BY <1>5 DEF SeatTaken
  <2>2. Cardinality(A') <= Cardinality(A) + 1
    <3>1. /\ IsFiniteSet(A \cup {b}) /\ Cardinality(A \cup {b}) \in Nat
          /\ Cardinality(A \cup {b}) <= Cardinality(A) + 1
      <4>1. /\ IsFiniteSet(A \cup {b})
            /\ Cardinality(A \cup {b}) = IF b \in A THEN Cardinality(A)
                                         ELSE Cardinality(A) + 1
        BY <1>1, FS_AddElement
      <4>2. Cardinality(A \cup {b}) \in Nat
        BY <4>1, FS_CardinalityType
      <4> QED
        BY <1>1, <4>1, <4>2
    <3>2. Cardinality(A') <= Cardinality(A \cup {b})
      BY <2>1, <3>1, FS_Subset
    <3> QED
      BY <1>1, <1>2, <3>1, <3>2
  <2>3. Cardinality(H') <= Cardinality(H) - 1
    <3>1. IsFiniteSet(H \ {t}) /\ Cardinality(H \ {t}) = Cardinality(H) - 1
      BY <1>1, <2>1, FS_RemoveElement
    <3>2. Cardinality(H') <= Cardinality(H \ {t})
      BY <2>1, <3>1, FS_Subset
    <3> QED
      BY <3>1, <3>2
  <2> QED
    BY <1>1, <1>2, <2>2, <2>3
<1>6. CASE UNCHANGED vars
  BY <1>3, <1>6 DEF vars, ActiveBindings, Hopeful
<1>7. ASSUME NEW t \in Transactions, StepOf(t)
      PROVE  \/ SeatTaken
             \/ A' \subseteq A /\ H' \subseteq H
             \/ A' = A /\ Cardinality(A) < MaxDevices
  <2>1. CASE Execute(t)
    BY <2>1, ExecuteMeasured
  <2>2. CASE Commit(t)
    BY <2>2, CommitMeasured
  <2>3. CASE ~Execute(t) /\ ~Commit(t)
    <3>1. UNCHANGED binding
      BY <1>7, <2>3
      DEF StepOf, BeginAny, BeginActivate, BeginWithSession, BeginWithBinding,
          BeginWithLicense, BeginStatus, BeginGenerate, Begin, Lock, Refuse, Retry,
          GiveUp, Timeout, rows
    <3> QED
      BY <1>7, <2>3, <3>1, HopefulShrinks DEF ActiveBindings
  <2> QED
    BY <2>1, <2>2, <2>3
<1> QED
  BY <1>3, <1>4, <1>5, <1>6, <1>7, NextIsStep

\* MySQL exceeds the device limit only by activations whose read views were open together,
\* so by fewer bindings than the pool has connections (COUNT(*) in activate).
THEOREM Overshoot == Spec => []OvershootBounded
<1>1. Init => Measured
  <2> SUFFICES ASSUME Init, MaxDevices > 0
               PROVE  Cardinality(ActiveBindings) + Cardinality(Hopeful)
                          <= MaxDevices + Cardinality(Transactions) - 1
    BY DEF Measured
  <2>1. ActiveBindings = {} /\ Hopeful = {}
    BY IdleTyped DEF Init, ActiveBindings, Hopeful
  <2> QED
    BY <2>1, SetsFinite, FS_EmptySet, LimitsAssumption
<1>2. Measured => OvershootBounded
  BY SetsFinite, LimitsAssumption DEF Measured, OvershootBounded
<1> QED
  BY <1>1, <1>2, MysqlInitial, LockStep, MeasureStep, PTL DEF Spec

-----------------------------------------------------------------------------
(***************************************************************************)
(* Deadlocks.  Every method but the administration's four locks the        *)
(* merchant row before any other, so of the transactions that wait for     *)
(* each other at most one could be waited for: the one that owns it.       *)
(***************************************************************************)
RowFirstOps == {"adminUnbind", "disconnect", "unbindAll", "delete"}

MerchantAt(op) == IF op = "setMerchant" THEN 1 ELSE 2

PastMerchant(t) == tx[t].op # "idle" /\ tx[t].at > MerchantAt(tx[t].op)

HoldsMerchantFirst(t) ==
    /\ PastMerchant(t) => owner["merchant"] = t
    /\ ~PastMerchant(t) => \A r \in Rows \ {"merchant"} : owner[r] # t

MerchantFirst == \A t \in Transactions : tx[t].op \notin RowFirstOps => HoldsMerchantFirst(t)

LEMMA MerchantPosition ==
    ASSUME NEW op \in DOMAIN Program, op \notin RowFirstOps, NEW i \in 1..Len(Program[op])
    PROVE  /\ i = MerchantAt(op) => Program[op][i] = "merchant"
           /\ i < MerchantAt(op) => Program[op][i] = "identity"
           /\ i \in Nat /\ MerchantAt(op) \in Nat
<1>1. op \in {"generate", "activate", "verify", "unbind", "setLicense", "setMerchant",
              "setApp"}
  BY DEF Program, RowFirstOps
<1>2. CASE op = "generate"
  BY <1>2 DEF Program, MerchantAt
<1>3. CASE op = "activate"
  BY <1>3 DEF Program, MerchantAt
<1>4. CASE op = "verify"
  BY <1>4 DEF Program, MerchantAt
<1>5. CASE op = "unbind"
  BY <1>5 DEF Program, MerchantAt
<1>6. CASE op = "setLicense"
  BY <1>6 DEF Program, MerchantAt
<1>7. CASE op = "setMerchant"
  BY <1>7 DEF Program, MerchantAt
<1>8. CASE op = "setApp"
  BY <1>8 DEF Program, MerchantAt
<1> QED
  BY <1>1, <1>2, <1>3, <1>4, <1>5, <1>6, <1>7, <1>8

\* Until it is past the merchant row, a statement wants no other row.
LEMMA WantsMerchant ==
    ASSUME LockInv, NEW t \in Transactions, tx[t].op \notin RowFirstOps, ~PastMerchant(t),
           Statement(t) # "none"
    PROVE  /\ Wants(t) \subseteq {"merchant"}
           /\ tx[t].at = MerchantAt(tx[t].op) => Wants(t) = {"merchant"}
<1>1. /\ tx[t].op \in DOMAIN Program /\ tx[t].op # "idle"
      /\ tx[t].at \in 1..Len(Program[tx[t].op])
      /\ Statement(t) = Program[tx[t].op][tx[t].at]
  BY StatementOf
<1>2. tx[t].at = MerchantAt(tx[t].op) \/ tx[t].at < MerchantAt(tx[t].op)
  BY <1>1, MerchantPosition DEF PastMerchant
<1>3. CASE tx[t].at = MerchantAt(tx[t].op)
  BY <1>1, <1>3, MerchantPosition DEF Wants
<1>4. CASE tx[t].at < MerchantAt(tx[t].op)
  <2>1. Statement(t) = "identity"
    BY <1>1, <1>4, MerchantPosition
  <2>2. Wants(t) = {}
    BY <2>1 DEF Wants
  <2> QED
    BY <1>1, <1>4, <2>2, MerchantPosition
<1> QED
  BY <1>2, <1>3, <1>4

\* A step gives no row to another connection.
LEMMA OthersGainNothing ==
    ASSUME LockInv, NEW t \in Transactions, StepOf(t), NEW u \in Transactions, u # t,
           NEW r \in Rows, owner[r] # u
    PROVE  owner'[r] # u
<1>0. u # None
  BY NoneAssumption
<1>1. CASE \E s \in Rows : Lock(t, s)
  BY <1>0, <1>1 DEF Lock, LockInv, TypeOK
<1>2. CASE End(t)
  BY <1>0, <1>2 DEF End, Release
<1>3. CASE Execute(t)
  BY <1>3 DEF Execute
<1>4. CASE BeginAny(t)
  BY <1>4
  DEF BeginAny, BeginActivate, BeginWithSession, BeginWithBinding, BeginWithLicense,
      BeginStatus, BeginGenerate, Begin
<1>5. CASE Retry(t)
  BY <1>0, <1>5 DEF Retry, Release
<1> QED
  BY <1>1, <1>2, <1>3, <1>4, <1>5, CommitTyped DEF StepOf, Refuse, GiveUp, Timeout

LEMMA MerchantFirstKept ==
    ASSUME LockInv, MerchantFirst, NEW t \in Transactions, StepOf(t)
    PROVE  MerchantFirst'
<1> SUFFICES ASSUME NEW u \in Transactions, tx'[u].op \notin RowFirstOps
             PROVE  HoldsMerchantFirst(u)'
  BY DEF MerchantFirst
<1>0. "merchant" \in Rows /\ t # None
  BY NoneAssumption DEF Rows
<1>1. CASE u # t
  <2>1. tx'[u] = tx[u] /\ HoldsMerchantFirst(u)
    BY <1>1, OthersKept DEF MerchantFirst
  <2> QED
    BY <1>0, <1>1, <2>1, OthersKept, OthersGainNothing DEF HoldsMerchantFirst, PastMerchant
<1>2. CASE u = t /\ \A r \in Rows : owner'[r] # t
  <2>1. ASSUME PastMerchant(t)'
        PROVE  FALSE
    <3>1. CASE Execute(t)
      <4>1. Statement(t) # "none" /\ Statement(t) # "commit"
        BY <3>1 DEF Execute
      <4>2. tx'[t].op = tx[t].op /\ tx'[t].at = tx[t].at + 1
        BY <3>1, OwnExecute
      <4>3. HoldsMerchantFirst(t)
        BY <1>2, <4>2 DEF MerchantFirst
      <4>4. ~PastMerchant(t)
        BY <1>0, <1>2, <3>1, <4>3, OwnExecute DEF HoldsMerchantFirst
      <4>5. tx[t].at # MerchantAt(tx[t].op)
        BY <1>0, <1>2, <3>1, <4>1, <4>2, <4>4, WantsMerchant, OwnExecute
      <4> QED
        BY <1>2, <2>1, <3>1, <4>2, <4>4, <4>5, OwnExecute, MerchantPosition DEF PastMerchant
    <3>2. CASE tx'[t].at = 1
      BY <2>1, <3>2 DEF PastMerchant, MerchantAt
    <3>3. CASE tx' = tx /\ \A r \in Rows : owner[r] = t => owner'[r] = t
      BY <1>0, <1>2, <2>1, <3>3 DEF MerchantFirst, HoldsMerchantFirst, PastMerchant
    <3> QED
      BY <3>1, <3>2, <3>3, OwnStep
  <2> QED
    BY <1>2, <2>1 DEF HoldsMerchantFirst
<1>3. CASE u = t /\ \E r \in Rows : Lock(t, r)
  <2>1. PICK s \in Rows : Lock(t, s)
    BY <1>3
  <2>2. tx' = tx /\ s \in Wants(t) /\ HoldsMerchantFirst(t)
    BY <1>3, <2>1 DEF Lock, MerchantFirst
  <2>3. CASE PastMerchant(t)
    BY <1>0, <1>3, <2>1, <2>2, <2>3 DEF HoldsMerchantFirst, PastMerchant, Lock
  <2>4. CASE ~PastMerchant(t)
    <3>1. Statement(t) # "none"
      BY <2>2 DEF Wants
    <3>2. s = "merchant"
      BY <1>3, <2>2, <2>4, <3>1, WantsMerchant
    <3>3. \A r \in Rows \ {"merchant"} : owner'[r] = owner[r]
      BY <2>1, <3>2 DEF Lock, LockInv, TypeOK
    <3> QED
      BY <1>3, <2>2, <2>4, <3>3 DEF HoldsMerchantFirst, PastMerchant
  <2> QED
    BY <2>3, <2>4
<1>4. CASE u = t /\ Execute(t)
  <2>1. /\ tx'[t].op = tx[t].op /\ tx'[t].at = tx[t].at + 1 /\ tx[t].at \in 1..7
        /\ tx[t].op \in DOMAIN Program /\ tx[t].at \in 1..Len(Program[tx[t].op])
        /\ Statement(t) # "none"
        /\ owner' = [r \in Rows |-> IF r \in Wants(t) THEN t ELSE owner[r]]
    BY <1>4, OwnExecute DEF Execute
  <2>2. HoldsMerchantFirst(t) /\ tx[t].op \notin RowFirstOps
    BY <1>4, <2>1 DEF MerchantFirst
  <2>3. CASE PastMerchant(t)
    BY <1>0, <1>4, <2>1, <2>2, <2>3, MerchantPosition DEF HoldsMerchantFirst, PastMerchant
  <2>4. CASE ~PastMerchant(t)
    <3>1. \A r \in Rows \ {"merchant"} : owner'[r] # t
      BY <1>4, <2>1, <2>2, <2>4, WantsMerchant DEF HoldsMerchantFirst
    <3>2. tx[t].at = MerchantAt(tx[t].op) => owner'["merchant"] = t
      BY <1>0, <2>1, <2>2, <2>4, WantsMerchant
    <3>3. PastMerchant(t)' => tx[t].at = MerchantAt(tx[t].op)
      BY <2>1, <2>2, <2>4, MerchantPosition DEF PastMerchant
    <3> QED
      BY <1>4, <3>1, <3>2, <3>3 DEF HoldsMerchantFirst
  <2> QED
    BY <2>3, <2>4
<1>5. CASE u = t /\ BeginAny(t)
  <2>1. tx[t] = Idle /\ owner' = owner
    BY <1>5
    DEF BeginAny, BeginActivate, BeginWithSession, BeginWithBinding, BeginWithLicense,
        BeginStatus, BeginGenerate, Begin
  <2>2. tx'[t].at = 1
    BY <1>5, BeginTyped
  <2>3. HoldsMerchantFirst(t) /\ ~PastMerchant(t)
    BY <2>1, IdleTyped DEF MerchantFirst, RowFirstOps, PastMerchant
  <2> QED
    BY <1>5, <2>1, <2>2, <2>3 DEF HoldsMerchantFirst, PastMerchant, MerchantAt
<1>6. CASE u = t /\ (End(t) \/ Retry(t))
  <2>1. \A r \in Rows : owner'[r] # t
    BY <1>0, <1>6 DEF End, Retry, Release
  <2> QED
    BY <1>2, <1>6, <2>1
<1> QED
  BY <1>1, <1>3, <1>4, <1>5, <1>6, CommitTyped DEF StepOf, Refuse, GiveUp, Timeout

LEMMA BindingPosition ==
    ASSUME NEW op \in DOMAIN Program, op \notin RowFirstOps, NEW i \in 1..Len(Program[op]),
           Program[op][i] = "binding"
    PROVE  op = "activate" \/ (op \in {"verify", "unbind"} /\ i >= 5)
<1>1. op \in {"generate", "activate", "verify", "unbind", "setLicense", "setMerchant",
              "setApp"}
  BY DEF Program, RowFirstOps
<1>2. CASE op = "generate"
  BY <1>2 DEF Program
<1>4. CASE op = "verify"
  BY <1>4 DEF Program
<1>5. CASE op = "unbind"
  BY <1>5 DEF Program
<1>6. CASE op = "setLicense"
  BY <1>6 DEF Program
<1>7. CASE op = "setMerchant"
  BY <1>7 DEF Program
<1>8. CASE op = "setApp"
  BY <1>8 DEF Program
<1> QED
  BY <1>1, <1>2, <1>4, <1>5, <1>6, <1>7, <1>8

\* A statement locks rows that there are: what it looks up was typed by an earlier one.
LEMMA WantsRows ==
    ASSUME LockInv, NEW t \in Transactions, tx[t].op \notin RowFirstOps
    PROVE  Wants(t) \subseteq Rows
<1>1. Deletes(t) \subseteq Sessions /\ ActiveBindings \subseteq Bindings
  BY DEF Deletes, ActiveBindings
<1>2. BindingFor(tx[t].device) \subseteq Bindings
  BY DEF BindingFor, ActiveBindings
<1>3. Statement(t) = "session" => tx[t].session \in Sessions
  <2> SUFFICES ASSUME Statement(t) = "session" PROVE tx[t].session \in Sessions
    OBVIOUS
  <2>1. tx[t].op \in {"verify", "unbind"}
    BY StatementOf, SessionPosition
  <2> QED
    BY <2>1 DEF LockInv, AtStatement, Running
<1>4. Statement(t) = "binding" => tx[t].binding \in Bindings
  <2> SUFFICES ASSUME Statement(t) = "binding" PROVE tx[t].binding \in Bindings
    OBVIOUS
  <2>1. tx[t].op = "activate" \/ (tx[t].op \in {"verify", "unbind"} /\ tx[t].at >= 5)
    BY StatementOf, BindingPosition
  <2> QED
    BY <2>1 DEF LockInv, AtStatement, Running
<1>5. CASE Statement(t) = "session"
  BY <1>3, <1>5 DEF Wants, Rows
<1>6. CASE Statement(t) = "binding"
  BY <1>2, <1>4, <1>6 DEF Wants, Rows
<1>7. CASE Statement(t) \in {"bindings", "sessions"}
  BY <1>1, <1>7 DEF Wants, Rows
<1>8. CASE Statement(t) \notin {"session", "binding", "bindings", "sessions"}
  BY <1>8 DEF Wants, Rows
<1> QED
  BY <1>5, <1>6, <1>7, <1>8

\* Client calls and status changes lock the merchant row first and so never deadlock among
\* themselves: every cycle holds a call of the administration that starts at a binding or a
\* licence row (unbindByAdministrator, disconnectSessions, unbindAll, delete).
THEOREM DeadlockFree == Spec => []DeadlocksNeedAdmin
<1>1. Init => MerchantFirst
  <2> SUFFICES ASSUME Init, NEW t \in Transactions PROVE HoldsMerchantFirst(t)
    BY DEF MerchantFirst
  <2>1. tx[t].op = "idle" /\ \A r \in Rows : owner[r] # t
    BY IdleTyped, NoneAssumption DEF Init
  <2> QED
    BY <2>1 DEF HoldsMerchantFirst, PastMerchant
<1>2. LockInv /\ MerchantFirst /\ [Next]_vars => MerchantFirst'
  <2> SUFFICES ASSUME LockInv, MerchantFirst, [Next]_vars PROVE MerchantFirst'
    OBVIOUS
  <2>1. CASE UNCHANGED vars
    BY <2>1 DEF vars, MerchantFirst, HoldsMerchantFirst, PastMerchant
  <2> QED
    BY <2>1, NextIsStep, MerchantFirstKept
<1>3. LockInv /\ MerchantFirst => DeadlocksNeedAdmin
  <2> SUFFICES ASSUME LockInv, MerchantFirst, NEW T \in SUBSET Transactions, Deadlocked(T),
                      \A t \in T : tx[t].op \notin RowFirstOps
               PROVE  FALSE
    BY DEF DeadlocksNeedAdmin, RowFirstOps
  <2>1. ASSUME NEW t \in T PROVE owner["merchant"] = t
    <3>1. PICK u \in T : t \in WaitsFor(u)
      BY DEF Deadlocked
    <3>2. PICK r \in Wants(u) : owner[r] = t
      BY <3>1 DEF WaitsFor
    <3>3. r \in Rows
      BY <3>2, WantsRows
    <3> QED
      BY <3>2, <3>3 DEF MerchantFirst, HoldsMerchantFirst
  <2>2. PICK t \in T : TRUE
    BY DEF Deadlocked
  <2>3. PICK u \in T : u \in WaitsFor(t)
    BY DEF Deadlocked
  <2>4. u = t
    BY <2>1
  <2> QED
    BY <2>3, <2>4 DEF WaitsFor
<1> QED
  BY <1>1, <1>2, <1>3, MysqlInitial, LockStep, PTL DEF Spec

-----------------------------------------------------------------------------
(***************************************************************************)
(* The refinement of LicenseCore.  IsolationInv says what the row locks    *)
(* are for: every check a statement made on rows it locked is still true   *)
(* when its transaction commits, what the transaction will delete or       *)
(* revoke it owns, and a new token or binding id is nobody else's.  With   *)
(* it, each commit is one transaction of LicenseCore on the mapped rows,   *)
(* the lookup of a client call is its acceptance, a call that is rolled    *)
(* back after its lookup is a rejection, and everything else changes       *)
(* nothing LicenseCore sees.                                               *)
(***************************************************************************)
\* A method's statement st lies before its k-th; a transaction has executed it.
Before(op, k, st) == \E i \in 1..Len(Program[op]) : i < k /\ Program[op][i] = st

Passed(t, st) == tx[t].op # "idle" /\ Before(tx[t].op, tx[t].at, st)

\* What an activation's binding id names before it looked for a binding of the device.
NewBinding(t) ==
    /\ binding[tx[t].binding].status = "absent"
    /\ \A u \in Transactions \ {t} : tx[u].op = "activate" => tx[u].binding # tx[t].binding

\* The transactions' inputs: a device calls with a token, and an activation's token is its own.
Inputs(t) ==
    /\ tx[t].op \in ClientOps => tx[t].device \in Devices /\ tx[t].session \in Sessions
    /\ tx[t].op = "activate" =>
          /\ session[tx[t].session] = None
          /\ \A u \in Transactions \ {t} : tx[u].session # tx[t].session
          /\ ~Passed(t, "binding") => NewBinding(t)
    /\ tx[t].op = "generate" =>
          /\ license.status = "none"
          /\ \A u \in Transactions \ {t} : tx[u].op # "generate"

\* What a statement checked and locked stays true until the transaction ends.
MerchantKept(t) ==
    Passed(t, "merchant") =>
        /\ owner["merchant"] = t
        /\ tx[t].op # "setMerchant" => merchant = "active"

AppKept(t) ==
    Passed(t, "app") =>
        /\ owner["app"] = t
        /\ tx[t].op # "setApp" => app = "active"

LicenseKept(t) ==
    Passed(t, "license") =>
        /\ owner["license"] = t
        /\ LicenseExists
        /\ tx[t].op \in ClientOps => license.status # "disabled"

SessionKept(t) ==
    Passed(t, "session") =>
        /\ owner[tx[t].session] = t
        /\ session[tx[t].session] = tx[t].binding
        /\ tx[t].binding \in Bindings

BindingKept(t) ==
    Passed(t, "binding") /\ tx[t].op # "activate" =>
        /\ tx[t].binding \in Bindings
        /\ owner[tx[t].binding] = t
        /\ binding[tx[t].binding].status # "absent"
        /\ tx[t].op # "disconnect" => binding[tx[t].binding].status = "active"
        /\ tx[t].op \in ClientOps => binding[tx[t].binding].device = tx[t].device

SeatKept(t) ==
    Passed(t, "binding") /\ tx[t].op = "activate" =>
        \/ tx[t].binding \in BindingFor(tx[t].device) /\ owner[tx[t].binding] = t
        \/ BindingFor(tx[t].device) = {} /\ NewBinding(t)

\* What the transaction will remove or revoke when it commits it owns.
DeletesOwned(t) ==
    Passed(t, "sessions") => \A s \in Deletes(t) : owner[s] = t

BindingsOwned(t) ==
    Passed(t, "bindings") =>
        \A b \in Bindings :
            (IF tx[t].op = "unbindAll" THEN binding[b].status = "active"
                                       ELSE binding[b].status # "absent") => owner[b] = t

AbsentBlank == \A b \in Bindings : binding[b].status = "absent" => binding[b].device = None

Isolated(t) ==
    /\ Inputs(t) /\ MerchantKept(t) /\ AppKept(t) /\ LicenseKept(t) /\ SessionKept(t)
    /\ BindingKept(t) /\ SeatKept(t) /\ DeletesOwned(t) /\ BindingsOwned(t)

IsolationInv == AbsentBlank /\ \A t \in Transactions : Isolated(t)

LEMMA Order ==
    ASSUME NEW op \in DOMAIN Program, NEW k \in 1..Len(Program[op])
    PROVE  /\ Program[op][k] = "session" =>
                 /\ op \in {"verify", "unbind"}
                 /\ ~Before(op, k, "binding") /\ ~Before(op, k, "sessions")
           /\ Program[op][k] = "binding" =>
                 /\ op \in {"activate", "verify", "unbind", "adminUnbind", "disconnect"}
                 /\ op \in {"verify", "unbind"} => k >= 5
           /\ op = "activate" =>
                 /\ Before(op, k, "binding") => Program[op][k] = "commit"
                 /\ ~Before(op, k, "session") /\ ~Before(op, k, "sessions")
                 /\ ~Before(op, k, "bindings")
                 /\ Program[op][k] = "binding" => ~Before(op, k, "binding")
                 /\ Before(op, k, "binding") => Before(op, k, "license")
                 /\ k > 4 <=> Before(op, k, "license")
                 /\ k = 4 <=> Program[op][k] = "license"
           /\ Before(op, k, "session") => op \in {"verify", "unbind"}
           /\ Before(op, k, "bindings") =>
                 op \in {"unbindAll", "delete"} /\ Before(op, k, "license")
           /\ Before(op, k, "sessions") =>
                 /\ op \in {"unbind", "adminUnbind", "disconnect", "unbindAll", "delete"}
                           \cup StatusOps
                 /\ op \in {"unbind"} \cup StatusOps => Before(op, k, "merchant")
                 /\ op \in {"adminUnbind", "disconnect"} => Before(op, k, "binding")
                 /\ op \in {"unbindAll", "delete"} => Before(op, k, "license")
           /\ Before(op, k, "binding") =>
                 op \in {"activate", "verify", "unbind", "adminUnbind", "disconnect"}
           /\ op \in {"verify", "unbind"} =>
                 /\ k > 4 <=> Before(op, k, "session")
                 /\ k = 4 <=> Program[op][k] = "session"
           /\ op \in ClientOps /\ k >= 4 => Before(op, k, "merchant") /\ Before(op, k, "app")
<1> USE DEF Before, StatusOps, ClientOps
<1>1. op \in {"generate", "activate", "verify", "unbind", "adminUnbind", "disconnect",
              "unbindAll", "delete", "setLicense", "setMerchant", "setApp"}
  BY DEF Program
<1>2. CASE op = "generate"
  BY <1>2 DEF Program
<1>3. CASE op = "activate"
  BY <1>3 DEF Program
<1>4. CASE op = "verify"
  BY <1>4 DEF Program
<1>5. CASE op = "unbind"
  BY <1>5 DEF Program
<1>6. CASE op = "adminUnbind"
  BY <1>6 DEF Program
<1>7. CASE op = "disconnect"
  BY <1>7 DEF Program
<1>8. CASE op = "unbindAll"
  BY <1>8 DEF Program
<1>9. CASE op = "delete"
  BY <1>9 DEF Program
<1>10. CASE op = "setLicense"
  BY <1>10 DEF Program
<1>11. CASE op = "setMerchant"
  BY <1>11 DEF Program
<1>12. CASE op = "setApp"
  BY <1>12 DEF Program
<1> QED
  BY <1>1, <1>2, <1>3, <1>4, <1>5, <1>6, <1>7, <1>8, <1>9, <1>10, <1>11, <1>12

\* What a transaction has executed by the time it commits.
LEMMA CommitOrder ==
    ASSUME NEW op \in DOMAIN Program, NEW k \in 1..Len(Program[op]), Program[op][k] = "commit"
    PROVE  /\ op \notin RowFirstOps => Before(op, k, "merchant")
           /\ op \in {"generate", "activate", "verify", "unbind", "setApp"} => Before(op, k, "app")
           /\ op \in {"activate", "verify", "unbindAll", "delete", "setLicense"} =>
                 Before(op, k, "license")
           /\ op \in {"verify", "unbind"} => Before(op, k, "session")
           /\ op \in {"activate", "verify", "unbind", "adminUnbind", "disconnect"} =>
                 Before(op, k, "binding")
           /\ op \in {"unbindAll", "delete"} => Before(op, k, "bindings")
           /\ op \notin {"generate", "activate", "verify"} => Before(op, k, "sessions")
           /\ op \in ClientOps => k > 4
<1> USE DEF Before, RowFirstOps, ClientOps
<1>1. op \in {"generate", "activate", "verify", "unbind", "adminUnbind", "disconnect",
              "unbindAll", "delete", "setLicense", "setMerchant", "setApp"}
  BY DEF Program
<1>2. CASE op = "generate"
  BY <1>2 DEF Program
<1>3. CASE op = "activate"
  BY <1>3 DEF Program
<1>4. CASE op = "verify"
  BY <1>4 DEF Program
<1>5. CASE op = "unbind"
  BY <1>5 DEF Program
<1>6. CASE op = "adminUnbind"
  BY <1>6 DEF Program
<1>7. CASE op = "disconnect"
  BY <1>7 DEF Program
<1>8. CASE op = "unbindAll"
  BY <1>8 DEF Program
<1>9. CASE op = "delete"
  BY <1>9 DEF Program
<1>10. CASE op = "setLicense"
  BY <1>10 DEF Program
<1>11. CASE op = "setMerchant"
  BY <1>11 DEF Program
<1>12. CASE op = "setApp"
  BY <1>12 DEF Program
<1> QED
  BY <1>1, <1>2, <1>3, <1>4, <1>5, <1>6, <1>7, <1>8, <1>9, <1>10, <1>11, <1>12

\* The statements executed after a step of the connection's own, and of another one.
LEMMA PassedNext ==
    ASSUME LockInv, NEW t \in Transactions, Execute(t), NEW st
    PROVE  Passed(t, st)' <=> Passed(t, st) \/ Statement(t) = st
<1>1. /\ tx'[t].op = tx[t].op /\ tx'[t].at = tx[t].at + 1 /\ tx[t].op # "idle"
      /\ tx[t].op \in DOMAIN Program /\ tx[t].at \in 1..Len(Program[tx[t].op])
      /\ Statement(t) = Program[tx[t].op][tx[t].at]
      /\ Len(Program[tx[t].op]) \in 1..7
  <2>1. Statement(t) # "none"
    BY DEF Execute
  <2> QED
    BY <2>1, OwnExecute, StatementOf
<1>2. \A i \in 1..Len(Program[tx[t].op]) : i < tx[t].at + 1 <=> i < tx[t].at \/ i = tx[t].at
  BY <1>1
<1> QED
  BY <1>1, <1>2 DEF Passed, Before

\* Order and CommitOrder, for the transaction of a connection.
LEMMA PassedOrder ==
    ASSUME LockInv, NEW t \in Transactions
    PROVE  /\ Statement(t) = "session" =>
                 /\ tx[t].op \in {"verify", "unbind"}
                 /\ ~Passed(t, "binding") /\ ~Passed(t, "sessions")
           /\ Statement(t) = "binding" =>
                 /\ tx[t].op \in {"activate", "verify", "unbind", "adminUnbind", "disconnect"}
                 /\ tx[t].op \in {"verify", "unbind"} => tx[t].at >= 5
           /\ tx[t].op = "activate" =>
                 /\ Passed(t, "binding") => Statement(t) = "commit"
                 /\ ~Passed(t, "session") /\ ~Passed(t, "sessions") /\ ~Passed(t, "bindings")
                 /\ Statement(t) = "binding" => ~Passed(t, "binding")
                 /\ Passed(t, "binding") => Passed(t, "license")
           /\ Passed(t, "session") => tx[t].op \in {"verify", "unbind"}
           /\ Passed(t, "bindings") =>
                 tx[t].op \in {"unbindAll", "delete"} /\ Passed(t, "license")
           /\ Passed(t, "sessions") =>
                 /\ tx[t].op \in {"unbind", "adminUnbind", "disconnect", "unbindAll", "delete"}
                                  \cup StatusOps
                 /\ tx[t].op \in {"unbind"} \cup StatusOps => Passed(t, "merchant")
                 /\ tx[t].op \in {"adminUnbind", "disconnect"} => Passed(t, "binding")
                 /\ tx[t].op \in {"unbindAll", "delete"} => Passed(t, "license")
           /\ Passed(t, "binding") =>
                 tx[t].op \in {"activate", "verify", "unbind", "adminUnbind", "disconnect"}
<1>1. CASE tx[t].op = "idle"
  BY <1>1 DEF Passed, Statement
<1>2. CASE tx[t].op # "idle"
  <2>1. /\ tx[t].op \in DOMAIN Program /\ tx[t].at \in 1..Len(Program[tx[t].op])
        /\ Statement(t) = Program[tx[t].op][tx[t].at]
    BY <1>2 DEF LockInv, TypeOK, TxRec, AtStatement, Running, Statement
  <2> QED
    BY <1>2, <2>1, Order DEF Passed
<1> QED
  BY <1>1, <1>2

LEMMA PassedAtCommit ==
    ASSUME LockInv, NEW t \in Transactions, Statement(t) = "commit"
    PROVE  /\ tx[t].op \in DOMAIN Program /\ tx[t].op # "idle"
           /\ tx[t].op \notin RowFirstOps => Passed(t, "merchant")
           /\ tx[t].op \in {"generate", "activate", "verify", "unbind", "setApp"} =>
                 Passed(t, "app")
           /\ tx[t].op \in {"activate", "verify", "unbindAll", "delete", "setLicense"} =>
                 Passed(t, "license")
           /\ tx[t].op \in {"verify", "unbind"} => Passed(t, "session")
           /\ tx[t].op \in {"activate", "verify", "unbind", "adminUnbind", "disconnect"} =>
                 Passed(t, "binding")
           /\ tx[t].op \in {"unbindAll", "delete"} => Passed(t, "bindings")
           /\ tx[t].op \notin {"generate", "activate", "verify"} => Passed(t, "sessions")
           /\ tx[t].op \in ClientOps => tx[t].at > 4
<1>1. /\ tx[t].op \in DOMAIN Program /\ tx[t].op # "idle"
      /\ tx[t].at \in 1..Len(Program[tx[t].op])
      /\ Program[tx[t].op][tx[t].at] = "commit"
  BY StatementOf
<1> QED
  BY <1>1, CommitOrder DEF Passed

\* What a call starts with.
LEMMA Begun ==
    ASSUME LockInv, NEW t \in Transactions, BeginAny(t)
    PROVE  /\ tx[t] = Idle /\ UNCHANGED <<rows, owner>> /\ tx'[t].at = 1
           /\ tx'[t].op \in ClientOps => tx'[t].device \in Devices /\ tx'[t].session \in Sessions
           /\ tx'[t].op \notin ClientOps => tx'[t].session = None
           /\ tx'[t].op = "activate" =>
                 FreshBinding(tx'[t].binding) /\ FreshSession(tx'[t].session)
           /\ tx'[t].op \in {"verify", "unbind"} => session[tx'[t].session] # None
           /\ tx'[t].op = "generate" =>
                 license.status = "none" /\ \A u \in Transactions : tx[u].op # "generate"
<1>1. tx[t] = Idle /\ UNCHANGED <<rows, owner>> /\ tx'[t].at = 1
  BY BeginTyped
  DEF BeginAny, BeginActivate, BeginWithSession, BeginWithBinding, BeginWithLicense,
      BeginStatus, BeginGenerate, Begin
<1>2. \A q : tx' = [tx EXCEPT ![t] = q] => tx'[t] = q
  BY DEF LockInv, TypeOK
<1> USE <1>2 DEF Begin, ClientOps
<1>3. CASE \E d \in Devices, b \in Bindings, s \in Sessions : BeginActivate(t, d, b, s)
  <2>1. PICK d \in Devices, b \in Bindings, s \in Sessions : BeginActivate(t, d, b, s)
    BY <1>3
  <2> DEFINE q == [Idle EXCEPT !.op = "activate", !.device = d, !.binding = b, !.session = s]
  <2>2. q.op = "activate" /\ q.device = d /\ q.binding = b /\ q.session = s
    BY DEF Idle
  <2>3. tx'[t] = q /\ FreshBinding(b) /\ FreshSession(s)
    BY <2>1 DEF BeginActivate
  <2> HIDE DEF q
  <2> QED
    BY <1>1, <2>2, <2>3
<1>4. CASE \E op \in ClientOps, d \in Devices, s \in Sessions : BeginWithSession(t, op, d, s)
  <2>1. PICK op \in ClientOps, d \in Devices, s \in Sessions : BeginWithSession(t, op, d, s)
    BY <1>4
  <2> DEFINE q == [Idle EXCEPT !.op = op, !.device = d, !.session = s]
  <2>2. q.op = op /\ q.device = d /\ q.session = s
    BY DEF Idle
  <2>3. tx'[t] = q /\ session[s] # None /\ op \in {"verify", "unbind"}
    BY <2>1 DEF BeginWithSession
  <2> HIDE DEF q
  <2> QED
    BY <1>1, <2>2, <2>3
<1>5. CASE \E op \in DOMAIN Program, b \in Bindings : BeginWithBinding(t, op, b)
  <2>1. PICK op \in DOMAIN Program, b \in Bindings : BeginWithBinding(t, op, b)
    BY <1>5
  <2> DEFINE q == [Idle EXCEPT !.op = op, !.binding = b]
  <2>2. q.op = op /\ q.session = None
    BY DEF Idle
  <2>3. tx'[t] = q /\ op \in {"adminUnbind", "disconnect"}
    BY <2>1 DEF BeginWithBinding
  <2> HIDE DEF q
  <2> QED
    BY <1>1, <2>2, <2>3
<1>6. CASE \E op \in DOMAIN Program : BeginWithLicense(t, op)
  <2>1. PICK op \in DOMAIN Program : BeginWithLicense(t, op)
    BY <1>6
  <2> DEFINE q == [Idle EXCEPT !.op = op]
  <2>2. q.op = op /\ q.session = None
    BY DEF Idle
  <2>3. tx'[t] = q /\ op \in {"unbindAll", "delete"}
    BY <2>1 DEF BeginWithLicense
  <2> HIDE DEF q
  <2> QED
    BY <1>1, <2>2, <2>3
<1>7. CASE \E op \in StatusOps, status \in Status : BeginStatus(t, op, status)
  <2>1. PICK op \in StatusOps, status \in Status : BeginStatus(t, op, status)
    BY <1>7
  <2> DEFINE q == [Idle EXCEPT !.op = op, !.status = status]
  <2>2. q.op = op /\ q.session = None
    BY DEF Idle
  <2>3. tx'[t] = q /\ op \notin ClientOps /\ op # "generate"
    BY <2>1 DEF BeginStatus, StatusOps
  <2> HIDE DEF q
  <2> QED
    BY <1>1, <2>2, <2>3
<1>8. CASE BeginGenerate(t)
  <2> DEFINE q == [Idle EXCEPT !.op = "generate"]
  <2>2. q.op = "generate" /\ q.session = None
    BY DEF Idle
  <2>3. /\ tx'[t] = q
        /\ license.status = "none" /\ \A u \in Transactions : tx[u].op # "generate"
    BY <1>8 DEF BeginGenerate
  <2> HIDE DEF q
  <2> QED
    BY <1>1, <2>2, <2>3
<1> QED
  BY <1>3, <1>4, <1>5, <1>6, <1>7, <1>8 DEF BeginAny

\* What the other steps make of a connection's input.
LEMMA InputKept ==
    ASSUME LockInv, NEW t \in Transactions, StepOf(t)
    PROVE  \/ tx'[t] = Idle /\ \A r \in Rows : owner'[r] # t
           \/ BeginAny(t)
           \/ /\ tx'[t].op = tx[t].op /\ tx'[t].session = tx[t].session
              /\ tx'[t].device = tx[t].device /\ tx'[t].status = tx[t].status
              /\ UNCHANGED rows
              /\ \/ /\ Retry(t) /\ tx'[t].at = 1
                    /\ tx[t].op = "activate" => tx'[t].binding = tx[t].binding
                 \/ tx' = tx /\ \A r \in Rows : owner[r] = t => owner'[r] = t
                 \/ Execute(t)
<1>0. tx[t] \in TxRec /\ t # None
  BY NoneAssumption DEF LockInv, TypeOK
<1>1. CASE \E r \in Rows : Lock(t, r)
  BY <1>1 DEF Lock, LockInv, TypeOK
<1>2. CASE End(t)
  BY <1>0, <1>2 DEF End, Release, LockInv, TypeOK
<1>3. CASE Retry(t)
  <2> DEFINE q == [tx[t] EXCEPT !.at = 1, !.attempt = @ + 1, !.seen = 0,
                               !.binding = IF tx[t].op = "activate" THEN @ ELSE None]
  <2>1. tx'[t] = q /\ UNCHANGED rows
    BY <1>3 DEF Retry, LockInv, TypeOK
  <2>2. /\ q.op = tx[t].op /\ q.session = tx[t].session /\ q.device = tx[t].device
        /\ q.status = tx[t].status /\ q.at = 1
        /\ tx[t].op = "activate" => q.binding = tx[t].binding
    BY <1>0 DEF TxRec
  <2> HIDE DEF q
  <2> QED
    BY <1>3, <2>1, <2>2
<1>4. CASE Execute(t)
  <2>1. PICK q \in Read(t) : tx' = [tx EXCEPT ![t] = [q EXCEPT !.at = @ + 1]]
    BY <1>4 DEF Execute
  <2>2. q.op = tx[t].op /\ q.session = tx[t].session /\ q.device = tx[t].device
        /\ q.status = tx[t].status /\ DOMAIN q = DOMAIN tx[t]
    BY <1>0, ReadCases DEF TxRec
  <2>3. tx'[t] = [q EXCEPT !.at = @ + 1]
    BY <2>1 DEF LockInv, TypeOK
  <2>4. /\ tx'[t].op = tx[t].op /\ tx'[t].session = tx[t].session
        /\ tx'[t].device = tx[t].device /\ tx'[t].status = tx[t].status
    BY <1>0, <2>2, <2>3 DEF TxRec
  <2> QED
    BY <1>4, <2>4 DEF Execute
<1> QED
  BY <1>1, <1>2, <1>3, <1>4, CommitTyped DEF StepOf, Refuse, GiveUp, Timeout

BindingRec == [status : {"absent", "active", "revoked"}, device : Devices \cup {None}]

\* Saving a binding that is active for the device already.
LEMMA SaveSame ==
    ASSUME LockInv, NEW t \in Transactions, SaveBinding(t), tx[t].binding \in Bindings,
           binding[tx[t].binding].status = "active",
           binding[tx[t].binding].device = tx[t].device
    PROVE  binding' = binding
<1>1. binding \in [Bindings -> BindingRec]
  BY DEF LockInv, TypeOK, BindingRec
<1>2. binding[tx[t].binding] = [status |-> "active", device |-> tx[t].device]
  BY <1>1 DEF BindingRec
<1> QED
  BY <1>1, <1>2 DEF SaveBinding

\* A commit changes rows that its transaction owns, and inserts new ones under the lock of
\* the licence.
LEMMA CommitWrites ==
    ASSUME LockInv, IsolationInv, NEW u \in Transactions, Commit(u)
    PROVE  /\ merchant' # merchant => owner["merchant"] = u
           /\ app' # app => owner["app"] = u
           /\ license' # license =>
                 \/ owner["license"] = u /\ LicenseExists /\ license'.status # "none"
                 \/ tx[u].op = "generate"
           /\ \A s \in Sessions : session'[s] # session[s] =>
                 \/ owner[s] = u /\ session[s] # None /\ session'[s] = None
                 \/ /\ tx[u].op = "activate" /\ s = tx[u].session /\ session[s] = None
                    /\ session'[s] = tx[u].binding
           /\ \A b \in Bindings : binding'[b] # binding[b] =>
                 \/ /\ owner[b] = u /\ binding[b].status # "absent"
                    /\ binding'[b].status # "active"
                 \/ /\ tx[u].op = "activate" /\ b = tx[u].binding
                    /\ binding[b].status = "absent" /\ owner["license"] = u
                    /\ binding'[b] = [status |-> "active", device |-> tx[u].device]
           /\ AbsentBlank'
<1> DEFINE Effect ==
      /\ merchant' # merchant => owner["merchant"] = u
      /\ app' # app => owner["app"] = u
      /\ license' # license =>
            \/ owner["license"] = u /\ LicenseExists /\ license'.status # "none"
            \/ tx[u].op = "generate"
      /\ \A s \in Sessions : session'[s] # session[s] =>
            \/ owner[s] = u /\ session[s] # None /\ session'[s] = None
            \/ /\ tx[u].op = "activate" /\ s = tx[u].session /\ session[s] = None
               /\ session'[s] = tx[u].binding
      /\ \A b \in Bindings : binding'[b] # binding[b] =>
            \/ /\ owner[b] = u /\ binding[b].status # "absent"
               /\ binding'[b].status # "active"
            \/ /\ tx[u].op = "activate" /\ b = tx[u].binding
               /\ binding[b].status = "absent" /\ owner["license"] = u
               /\ binding'[b] = [status |-> "active", device |-> tx[u].device]
      /\ AbsentBlank'
<1>1. /\ binding \in [Bindings -> BindingRec]
      /\ session \in [Sessions -> Bindings \cup {None}]
      /\ license \in [status : {"none", "pending", "active", "disabled", "deleted"},
                      activated : BOOLEAN]
      /\ tx[u] \in TxRec
  BY DEF LockInv, TypeOK, BindingRec
<1>2. Isolated(u) /\ AbsentBlank /\ Statement(u) = "commit"
  BY DEF IsolationInv, Commit, CommitGenerate, CommitActivate, CommitVerify, CommitUnbind,
     CommitDisconnect, CommitUnbindAll, CommitDelete, CommitStatus, Committing
<1>3. (\A s \in Sessions : session'[s] # session[s] => s \in Deletes(u) /\ session'[s] = None)
      /\ Passed(u, "sessions")
      => \A s \in Sessions : session'[s] # session[s] =>
            owner[s] = u /\ session[s] # None /\ session'[s] = None
  BY <1>2 DEF Isolated, DeletesOwned, Deletes
<1>4. session' = WithoutDeleted(u) =>
          \A s \in Sessions : session'[s] # session[s] => s \in Deletes(u) /\ session'[s] = None
  BY <1>1 DEF WithoutDeleted
<1>5. CASE CommitGenerate(u)
  BY <1>2, <1>5 DEF CommitGenerate, Committing, AbsentBlank
<1>6. CASE CommitActivate(u)
  <2>1. /\ tx[u].op = "activate" /\ Passed(u, "license") /\ Passed(u, "binding")
    BY <1>2, <1>6, PassedAtCommit DEF CommitActivate, Committing
  <2>2. owner["license"] = u /\ LicenseExists /\ tx[u].session \in Sessions
        /\ session[tx[u].session] = None
    BY <1>2, <2>1 DEF Isolated, LicenseKept, Inputs, ClientOps
  <2>3. license'.status # "none"
    BY <1>6, <2>2 DEF CommitActivate, LicenseExists
  <2>4. \A s \in Sessions : session'[s] # session[s] =>
            s = tx[u].session /\ session'[s] = tx[u].binding
    BY <1>1, <1>6, <2>2 DEF CommitActivate
  <2>5. tx[u].binding \in Bindings /\ SaveBinding(u)
    BY <1>6, <2>1 DEF LockInv, AtStatement, Running, CommitActivate
  <2>6. CASE tx[u].binding \in BindingFor(tx[u].device)
    <3>1. binding' = binding
      BY <2>5, <2>6, SaveSame DEF BindingFor, ActiveBindings
    <3> QED
      BY <1>2, <1>6, <2>1, <2>2, <2>3, <2>4, <3>1 DEF CommitActivate, AbsentBlank
  <2>7. CASE NewBinding(u)
    <3>1. /\ \A b \in Bindings \ {tx[u].binding} : binding'[b] = binding[b]
          /\ binding'[tx[u].binding] = [status |-> "active", device |-> tx[u].device]
          /\ binding[tx[u].binding].status = "absent"
      BY <1>1, <2>5, <2>7 DEF SaveBinding, NewBinding
    <3>2. AbsentBlank'
      BY <1>2, <3>1 DEF AbsentBlank
    <3> QED
      BY <1>6, <2>1, <2>2, <2>3, <2>4, <3>1, <3>2 DEF CommitActivate
  <2> QED
    BY <1>2, <2>1, <2>6, <2>7 DEF Isolated, SeatKept
<1>7. CASE CommitVerify(u)
  <2>1. tx[u].op = "verify" /\ Passed(u, "binding")
    BY <1>2, <1>7, PassedAtCommit DEF CommitVerify, Committing
  <2>2. binding' = binding
    BY <1>2, <1>7, <2>1, SaveSame DEF CommitVerify, Isolated, BindingKept, ClientOps
  <2> QED
    BY <1>2, <1>7, <2>2 DEF CommitVerify, AbsentBlank
<1>8. CASE CommitUnbind(u)
  <2>1. tx[u].op \in {"unbind", "adminUnbind"} /\ Passed(u, "binding") /\ Passed(u, "sessions")
    BY <1>2, <1>8, PassedAtCommit DEF CommitUnbind, Committing
  <2>2. /\ tx[u].binding \in Bindings /\ owner[tx[u].binding] = u
        /\ binding[tx[u].binding].status # "absent"
    BY <1>2, <2>1 DEF Isolated, BindingKept
  <2>3. /\ \A b \in Bindings \ {tx[u].binding} : binding'[b] = binding[b]
        /\ binding'[tx[u].binding].status = "revoked"
    BY <1>1, <1>8, <2>2 DEF CommitUnbind, BindingRec
  <2>4. AbsentBlank'
    BY <1>2, <2>3 DEF AbsentBlank
  <2> QED
    BY <1>3, <1>4, <1>8, <2>1, <2>2, <2>3, <2>4 DEF CommitUnbind
<1>9. CASE CommitDisconnect(u)
  <2>1. Passed(u, "sessions")
    BY <1>2, <1>9, PassedAtCommit DEF CommitDisconnect, Committing
  <2> QED
    BY <1>2, <1>3, <1>4, <1>9, <2>1 DEF CommitDisconnect, AbsentBlank
<1>10. CASE CommitUnbindAll(u)
  <2>1. tx[u].op = "unbindAll" /\ Passed(u, "bindings") /\ Passed(u, "sessions")
    BY <1>2, <1>10, PassedAtCommit DEF CommitUnbindAll, Committing
  <2>2. \A b \in ActiveBindings : owner[b] = u /\ b \in Bindings
    BY <1>2, <2>1 DEF Isolated, BindingsOwned, ActiveBindings
  <2>3. \A b \in Bindings :
            IF b \in ActiveBindings THEN binding'[b].status = "revoked"
                                    ELSE binding'[b] = binding[b]
    BY <1>1, <1>10 DEF CommitUnbindAll, BindingRec
  <2>4. AbsentBlank' /\ \A b \in ActiveBindings : binding[b].status # "absent"
    BY <1>2, <2>3 DEF AbsentBlank, ActiveBindings
  <2> QED
    BY <1>3, <1>4, <1>10, <2>1, <2>2, <2>3, <2>4 DEF CommitUnbindAll
<1>11. CASE CommitDelete(u)
  <2>1. tx[u].op = "delete" /\ Passed(u, "license") /\ Passed(u, "bindings")
        /\ Passed(u, "sessions")
    BY <1>2, <1>11, PassedAtCommit DEF CommitDelete, Committing
  <2>2. \A b \in Bindings : binding[b].status # "absent" => owner[b] = u
    BY <1>2, <2>1 DEF Isolated, BindingsOwned
  <2>3. \A b \in Bindings : binding'[b] = [status |-> "absent", device |-> None]
    BY <1>11 DEF CommitDelete
  <2>4. \A b \in Bindings : binding[b].status = "absent" => binding'[b] = binding[b]
    BY <1>1, <1>2, <2>3 DEF AbsentBlank, BindingRec
  <2>5. AbsentBlank' /\ \A b \in Bindings : binding'[b].status # "active"
    BY <2>3 DEF AbsentBlank
  <2>6. owner["license"] = u /\ LicenseExists /\ license'.status # "none"
    BY <1>2, <1>11, <2>1 DEF Isolated, LicenseKept, CommitDelete
  <2> QED
    BY <1>3, <1>4, <1>11, <2>1, <2>2, <2>4, <2>5, <2>6 DEF CommitDelete
<1>12. CASE CommitStatus(u)
  <2>1. tx[u].op \in StatusOps /\ Passed(u, "merchant") /\ Passed(u, "sessions")
        /\ (tx[u].op = "setApp" => Passed(u, "app"))
        /\ (tx[u].op = "setLicense" => Passed(u, "license"))
    BY <1>2, <1>12, PassedAtCommit DEF CommitStatus, Committing, StatusOps, RowFirstOps
  <2>2. /\ owner["merchant"] = u
        /\ tx[u].op = "setApp" => owner["app"] = u
        /\ tx[u].op = "setLicense" => owner["license"] = u /\ LicenseExists
    BY <1>2, <2>1 DEF Isolated, MerchantKept, AppKept, LicenseKept
  <2>3. license' # license => tx[u].op = "setLicense" /\ license'.status # "none"
    BY <1>1, <1>12 DEF CommitStatus
  <2> QED
    BY <1>2, <1>3, <1>4, <1>12, <2>1, <2>2, <2>3 DEF CommitStatus, AbsentBlank
<1>13. Effect
  BY <1>5, <1>6, <1>7, <1>8, <1>9, <1>10, <1>11, <1>12 DEF Commit
<1> QED
  BY <1>13

-----------------------------------------------------------------------------
\* What any step leaves alone: what another connection owns, and the records of the others.
LEMMA StepWrites ==
    ASSUME LockInv, IsolationInv, NEW u \in Transactions, StepOf(u)
    PROVE  /\ merchant' # merchant => owner["merchant"] = u
           /\ app' # app => owner["app"] = u
           /\ license' # license =>
                 \/ owner["license"] = u /\ LicenseExists /\ license'.status # "none"
                 \/ tx[u].op = "generate"
           /\ \A s \in Sessions : session'[s] # session[s] =>
                 \/ owner[s] = u /\ session[s] # None /\ session'[s] = None
                 \/ /\ Committing(u, {"activate"}) /\ s = tx[u].session /\ session[s] = None
                    /\ session'[s] = tx[u].binding
           /\ \A b \in Bindings : binding'[b] # binding[b] =>
                 \/ /\ owner[b] = u /\ binding[b].status # "absent"
                    /\ binding'[b].status # "active"
                 \/ /\ Committing(u, {"activate"}) /\ b = tx[u].binding
                    /\ binding[b].status = "absent" /\ owner["license"] = u
                    /\ binding'[b] = [status |-> "active", device |-> tx[u].device]
           /\ AbsentBlank'
<1>1. CASE Commit(u)
  <2>1. Statement(u) = "commit"
    BY <1>1 DEF Commit, CommitGenerate, CommitActivate, CommitVerify, CommitUnbind,
       CommitDisconnect, CommitUnbindAll, CommitDelete, CommitStatus, Committing
  <2> QED
    BY <1>1, <2>1, CommitWrites DEF Committing
<1>2. CASE ~Commit(u)
  <2>1. UNCHANGED rows
    BY <1>2, Begun DEF StepOf, Lock, Execute, Refuse, Retry, GiveUp, Timeout
  <2> QED
    BY <2>1 DEF rows, IsolationInv, AbsentBlank
<1> QED
  BY <1>1, <1>2

\* A device's new token and its new binding stay its own.
LEMMA OthersInputs ==
    ASSUME LockInv, IsolationInv, NEW u \in Transactions, StepOf(u),
           NEW t \in Transactions, t # u
    PROVE  /\ Inputs(t)'
           /\ NewBinding(t) /\ tx[t].op = "activate" => NewBinding(t)'
<1>1. /\ tx'[t] = tx[t] /\ \A v \in Transactions \ {u} : tx'[v] = tx[v]
      /\ \A st : Passed(t, st)' <=> Passed(t, st)
  BY OthersKept DEF Passed
<1>2. Inputs(t) /\ Inputs(u)
  BY DEF IsolationInv, Isolated
<1>3. tx[t].op = "activate" => tx[t].session \in Sessions /\ tx[t].binding \in Bindings
  BY <1>2 DEF Inputs, ClientOps, LockInv, AtStatement, Running
<1>4. Committing(u, {"activate"}) => tx[u].op = "activate"
  BY DEF Committing
<1>5. tx[t].op = "activate" => session'[tx[t].session] = None
  BY <1>2, <1>3, <1>4, StepWrites, ZenonT(60) DEF Inputs
<1>6. tx[t].op = "activate" => tx'[u].session # tx[t].session
  <2> SUFFICES ASSUME tx[t].op = "activate" PROVE tx'[u].session # tx[t].session
    OBVIOUS
  <2>1. tx[t].session # None /\ session[tx[t].session] = None /\ tx[u].session # tx[t].session
    BY <1>2, <1>3, NoneAssumption DEF Inputs
  <2>2. CASE BeginAny(u)
    BY <2>1, <2>2, Begun DEF FreshSession, ClientOps
  <2>3. Idle.session = None
    BY DEF Idle
  <2> QED
    BY <2>1, <2>2, <2>3, InputKept
<1>7. tx[t].op = "generate" =>
          license'.status = "none" /\ tx'[u].op # "generate"
  <2> SUFFICES ASSUME tx[t].op = "generate"
               PROVE  license'.status = "none" /\ tx'[u].op # "generate"
    OBVIOUS
  <2>1. license.status = "none" /\ tx[u].op # "generate"
    BY <1>2 DEF Inputs
  <2>2. license' = license
    BY <2>1, StepWrites DEF LicenseExists
  <2> QED
    BY <2>1, <2>2, InputKept, IdleTyped, Begun
<1>8. NewBinding(t) /\ tx[t].op = "activate" => NewBinding(t)'
  <2> SUFFICES ASSUME NewBinding(t), tx[t].op = "activate" PROVE NewBinding(t)'
    OBVIOUS
  <2>1. binding'[tx[t].binding].status = "absent"
    BY <1>3, <1>4, StepWrites DEF NewBinding
  <2>2. tx'[u].op = "activate" => tx'[u].binding # tx[t].binding
    <3>1. CASE BeginAny(u)
      BY <3>1, Begun DEF FreshBinding
    <3>2. CASE Execute(u)
      <4>1. tx[u].op = "activate" =>
                \/ tx'[u].binding = tx[u].binding
                \/ tx'[u].binding \in ActiveBindings
        <5>1. Statement(u) = "session" => tx[u].op # "activate"
          BY PassedOrder
        <5> QED
          BY <3>2, <5>1, OwnExecute DEF BindingFor
      <4> QED
        BY <3>2, <4>1, OwnExecute, ZenonT(60) DEF NewBinding, ActiveBindings
    <3>3. CASE tx' = tx
      BY <3>3 DEF NewBinding
    <3> QED
      BY <3>1, <3>2, <3>3, InputKept, IdleTyped DEF NewBinding
  <2> QED
    BY <1>1, <2>1, <2>2 DEF NewBinding
<1> QED
  BY <1>1, <1>2, <1>5, <1>6, <1>7, <1>8 DEF Inputs

\* What a transaction has checked and locked no other connection's step undoes.
LEMMA OthersIsolated ==
    ASSUME LockInv, IsolationInv, NEW u \in Transactions, StepOf(u),
           NEW t \in Transactions, t # u
    PROVE  Isolated(t)'
<1>1. /\ tx'[t] = tx[t]
      /\ \A st : Passed(t, st)' <=> Passed(t, st)
      /\ \A r \in Rows : owner[r] = t => owner'[r] = t /\ owner[r] # u
  BY OthersKept DEF Passed
<1>2. /\ {"merchant", "app", "license"} \subseteq Rows
      /\ Bindings \subseteq Rows /\ Sessions \subseteq Rows
  BY DEF Rows
<1>3. Isolated(t) /\ Isolated(u)
  BY DEF IsolationInv
<1>4. Inputs(t)' /\ (NewBinding(t) /\ tx[t].op = "activate" => NewBinding(t)')
  BY OthersInputs
<1>5. MerchantKept(t)' /\ AppKept(t)'
  BY <1>1, <1>2, <1>3, StepWrites DEF Isolated, MerchantKept, AppKept
<1>6. LicenseKept(t)'
  <2> SUFFICES ASSUME Passed(t, "license")
               PROVE  /\ owner'["license"] = t
                      /\ LicenseExists'
                      /\ tx[t].op \in ClientOps => license'.status # "disabled"
    BY <1>1 DEF LicenseKept
  <2>1. owner["license"] = t /\ LicenseExists
        /\ (tx[t].op \in ClientOps => license.status # "disabled")
    BY <1>3 DEF Isolated, LicenseKept
  <2>2. tx[u].op # "generate"
    BY <1>3, <2>1 DEF Isolated, Inputs, LicenseExists
  <2>3. license' = license
    BY <1>1, <1>2, <2>1, <2>2, StepWrites
  <2> QED
    BY <1>1, <1>2, <2>1, <2>3 DEF LicenseExists
<1>7. SessionKept(t)'
  <2> SUFFICES ASSUME Passed(t, "session")
               PROVE  /\ owner'[tx[t].session] = t
                      /\ session'[tx[t].session] = tx[t].binding
                      /\ tx[t].binding \in Bindings
    BY <1>1 DEF SessionKept
  <2>1. /\ owner[tx[t].session] = t /\ session[tx[t].session] = tx[t].binding
        /\ tx[t].binding \in Bindings /\ tx[t].session \in Sessions
    <3>1. tx[t].op \in {"verify", "unbind"}
      BY PassedOrder
    <3> QED
      BY <1>3, <3>1 DEF Isolated, SessionKept, Inputs, ClientOps
  <2>2. session'[tx[t].session] = session[tx[t].session]
    <3>1. \A s \in Sessions : session'[s] # session[s] =>
              \/ owner[s] = u /\ session[s] # None /\ session'[s] = None
              \/ /\ Committing(u, {"activate"}) /\ s = tx[u].session /\ session[s] = None
                 /\ session'[s] = tx[u].binding
      BY StepWrites
    <3>2. session[tx[t].session] # None /\ owner[tx[t].session] # u
      BY <1>1, <1>2, <2>1, NoneAssumption
    <3> QED
      BY <2>1, <3>1, <3>2
  <2> QED
    BY <1>1, <1>2, <2>1, <2>2
<1>8. BindingKept(t)'
  <2> SUFFICES ASSUME Passed(t, "binding"), tx[t].op # "activate"
               PROVE  /\ tx[t].binding \in Bindings
                      /\ owner'[tx[t].binding] = t
                      /\ binding'[tx[t].binding].status # "absent"
                      /\ tx[t].op # "disconnect" => binding'[tx[t].binding].status = "active"
                      /\ tx[t].op \in ClientOps => binding'[tx[t].binding].device = tx[t].device
    BY <1>1 DEF BindingKept
  <2>1. /\ tx[t].binding \in Bindings /\ owner[tx[t].binding] = t
        /\ binding[tx[t].binding].status # "absent"
        /\ tx[t].op # "disconnect" => binding[tx[t].binding].status = "active"
        /\ tx[t].op \in ClientOps => binding[tx[t].binding].device = tx[t].device
    BY <1>3 DEF Isolated, BindingKept
  <2>2. binding'[tx[t].binding] = binding[tx[t].binding]
    BY <1>1, <1>2, <2>1, StepWrites
  <2> QED
    BY <1>1, <1>2, <2>1, <2>2
<1>9. SeatKept(t)'
  <2> SUFFICES ASSUME Passed(t, "binding"), tx[t].op = "activate"
               PROVE  \/ /\ tx[t].binding \in BindingFor(tx[t].device)'
                         /\ owner'[tx[t].binding] = t
                      \/ BindingFor(tx[t].device)' = {} /\ NewBinding(t)'
    BY <1>1 DEF SeatKept, BindingFor
  <2>1. owner["license"] = t
    BY <1>3, PassedOrder DEF Isolated, LicenseKept
  <2>2. \A b \in Bindings : binding'[b] # binding[b] =>
            owner[b] = u /\ binding'[b].status # "active"
    BY <1>1, <1>2, <2>1, StepWrites
  <2>3. CASE tx[t].binding \in BindingFor(tx[t].device) /\ owner[tx[t].binding] = t
    BY <1>1, <1>2, <2>2, <2>3 DEF BindingFor, ActiveBindings
  <2>4. CASE BindingFor(tx[t].device) = {} /\ NewBinding(t)
    BY <1>1, <1>4, <2>2, <2>4 DEF BindingFor, ActiveBindings
  <2> QED
    BY <1>3, <2>3, <2>4 DEF Isolated, SeatKept
\* A session is added under the locks of the merchant, the licence and its binding.
<1>10. DeletesOwned(t)'
  <2> SUFFICES ASSUME Passed(t, "sessions"), NEW s \in Deletes(t)'
               PROVE  owner'[s] = t
    BY <1>1 DEF DeletesOwned
  <2>1. s \in Sessions /\ session'[s] # None
        /\ (tx[t].op \in {"unbind", "adminUnbind", "disconnect"} => session'[s] = tx[t].binding)
        /\ (tx[t].op \in StatusOps => tx[t].status = "disabled")
    BY <1>1 DEF Deletes
  <2>2. CASE session'[s] = session[s]
    BY <1>1, <1>2, <1>3, <2>1, <2>2 DEF Isolated, DeletesOwned, Deletes
  <2>3. CASE session'[s] # session[s]
    <3>1. Committing(u, {"activate"}) /\ session'[s] = tx[u].binding
      BY <2>1, <2>3, StepWrites, ZenonT(60)
    <3>2. tx[u].op = "activate" /\ Passed(u, "merchant") /\ Passed(u, "license")
          /\ Passed(u, "binding")
      BY <3>1, PassedAtCommit DEF Committing, RowFirstOps
    <3>3. /\ owner["merchant"] = u /\ owner["license"] = u
          /\ owner[tx[u].binding] = u \/ binding[tx[u].binding].status = "absent"
      BY <1>3, <3>2 DEF Isolated, MerchantKept, LicenseKept, SeatKept, NewBinding
    <3>4. CASE tx[t].op \in {"unbind"} \cup StatusOps
      BY <1>1, <1>2, <1>3, <2>1, <3>3, <3>4, PassedOrder DEF Isolated, MerchantKept
    <3>5. CASE tx[t].op \in {"unbindAll", "delete"}
      BY <1>1, <1>2, <1>3, <2>1, <3>3, <3>5, PassedOrder DEF Isolated, LicenseKept
    <3>6. CASE tx[t].op \in {"adminUnbind", "disconnect"}
      <4>1. /\ tx[t].binding \in Bindings /\ owner[tx[t].binding] = t
            /\ binding[tx[t].binding].status # "absent"
        BY <1>3, <3>6, PassedOrder DEF Isolated, BindingKept
      <4> QED
        BY <1>1, <1>2, <2>1, <3>1, <3>3, <3>6, <4>1
    <3>7. tx[t].op \in {"unbind", "unbindAll", "delete", "adminUnbind", "disconnect"}
                           \cup StatusOps
      BY PassedOrder
    <3> QED
      BY <3>4, <3>5, <3>6, <3>7
  <2> QED
    BY <2>2, <2>3
<1>11. BindingsOwned(t)'
  <2> SUFFICES ASSUME Passed(t, "bindings"), NEW b \in Bindings,
                      IF tx[t].op = "unbindAll" THEN binding'[b].status = "active"
                                                ELSE binding'[b].status # "absent"
               PROVE  owner'[b] = t
    BY <1>1 DEF BindingsOwned
  <2>1. owner["license"] = t
    BY <1>3, PassedOrder DEF Isolated, LicenseKept
  <2>2. binding'[b] # binding[b] =>
            /\ owner[b] = u /\ binding[b].status # "absent" /\ binding'[b].status # "active"
    BY <1>1, <1>2, <2>1, StepWrites
  <2>3. CASE binding'[b] = binding[b]
    BY <1>1, <1>2, <1>3, <2>3 DEF Isolated, BindingsOwned
  <2>4. CASE binding'[b] # binding[b]
    BY <1>1, <1>2, <1>3, <2>2, <2>4 DEF Isolated, BindingsOwned
  <2> QED
    BY <2>3, <2>4
<1> QED
  BY <1>4, <1>5, <1>6, <1>7, <1>8, <1>9, <1>10, <1>11 DEF Isolated

\* A call that has executed nothing has only its input to keep.
LEMMA NothingPassed ==
    ASSUME NEW t, tx'[t].at = 1 \/ tx'[t].op = "idle", Inputs(t)'
    PROVE  Isolated(t)'
<1>1. \A st : ~Passed(t, st)'
  BY DEF Passed, Before
<1> QED
  BY <1>1
  DEF Isolated, MerchantKept, AppKept, LicenseKept, SessionKept, BindingKept, SeatKept,
      DeletesOwned, BindingsOwned

\* Executing the lookup of a session reads its binding.
LEMMA SessionRead ==
    ASSUME LockInv, NEW t \in Transactions, Execute(t), Statement(t) = "session"
    PROVE  tx'[t].binding = session[tx[t].session]
<1>1. PICK q \in Read(t) : tx' = [tx EXCEPT ![t] = [q EXCEPT !.at = @ + 1]]
  BY DEF Execute
<1>2. tx[t] \in TxRec /\ tx'[t] = [q EXCEPT !.at = @ + 1]
  BY <1>1 DEF LockInv, TypeOK
<1>3. q = [tx[t] EXCEPT !.binding = session[tx[t].session]]
  BY ReadCases
<1> QED
  BY <1>2, <1>3 DEF TxRec

LEMMA ExecuteIsolated ==
    ASSUME LockInv, IsolationInv, NEW t \in Transactions, Execute(t)
    PROVE  Isolated(t)'
<1>1. /\ tx'[t].op = tx[t].op /\ tx'[t].session = tx[t].session
      /\ tx'[t].device = tx[t].device /\ tx'[t].status = tx[t].status
      /\ UNCHANGED <<merchant, app, license, binding, session>>
      /\ \A u \in Transactions \ {t} : tx'[u] = tx[u]
      /\ \A r \in Rows : owner[r] = t => owner'[r] = t
      /\ \A r \in Rows : r \in Wants(t) => owner'[r] = t
      /\ Passes(t)
  <2>1. ~BeginAny(t) /\ tx'[t] # Idle
    <3>1. Statement(t) # "none"
      BY DEF Execute
    <3>2. tx'[t].op = tx[t].op /\ tx[t].op # "idle"
      BY <3>1, OwnExecute, StatementOf
    <3> QED
      BY <3>2, IdleTyped, Begun
  <2>2. StepOf(t)
    BY DEF StepOf
  <2> QED
    BY <2>1, <2>2, InputKept, OthersKept, OwnExecute DEF rows
<1>2. \A st : Passed(t, st)' <=> Passed(t, st) \/ Statement(t) = st
  BY PassedNext
<1>3. Isolated(t)
  BY DEF IsolationInv
<1>4. {"merchant", "app", "license"} \subseteq Rows /\ Bindings \subseteq Rows
      /\ Sessions \subseteq Rows
  BY DEF Rows
<1>5. \/ Statement(t) = "session" /\ tx'[t].binding = session[tx[t].session]
      \/ /\ Statement(t) = "binding" /\ tx[t].op = "activate"
         /\ tx'[t].binding \in BindingFor(tx[t].device)
      \/ /\ Statement(t) # "session" /\ tx'[t].binding = tx[t].binding
         /\ ~(Statement(t) = "binding" /\ tx[t].op = "activate"
              /\ BindingFor(tx[t].device) # {})
  BY OwnExecute, SessionRead
<1>6. NewBinding(t) /\ tx'[t].binding = tx[t].binding => NewBinding(t)'
  BY <1>1 DEF NewBinding
<1>7. Inputs(t)'
  <2>1. tx[t].op = "activate" /\ ~Passed(t, "binding") /\ Statement(t) # "binding"
            => tx'[t].binding = tx[t].binding
    BY <1>5, PassedOrder
  <2> QED
    BY <1>1, <1>2, <1>3, <1>6, <2>1 DEF Isolated, Inputs
<1>8. MerchantKept(t)'
  <2>1. Statement(t) = "merchant" => "merchant" \in Wants(t)
    BY DEF Wants
  <2>2. Statement(t) = "merchant" /\ tx[t].op # "setMerchant" => merchant = "active"
    BY <1>1 DEF Passes
  <2> QED
    BY <1>1, <1>2, <1>3, <1>4, <2>1, <2>2 DEF Isolated, MerchantKept
<1>9. AppKept(t)'
  <2>1. Statement(t) = "app" => "app" \in Wants(t)
    BY DEF Wants
  <2>2. Statement(t) = "app" /\ tx[t].op # "setApp" => app = "active"
    BY <1>1 DEF Passes
  <2> QED
    BY <1>1, <1>2, <1>3, <1>4, <2>1, <2>2 DEF Isolated, AppKept
<1>10. LicenseKept(t)'
  <2>1. Statement(t) = "license" =>
            LicenseExists /\ (tx[t].op \in ClientOps => license.status # "disabled")
    BY <1>1 DEF Passes
  <2>2. Statement(t) = "license" => "license" \in Wants(t)
    BY <2>1 DEF Wants
  <2> QED
    BY <1>1, <1>2, <1>3, <1>4, <2>1, <2>2 DEF Isolated, LicenseKept, LicenseExists
<1>11. SessionKept(t)'
  <2>1. CASE Statement(t) = "session"
    <3>1. tx[t].session \in Sessions /\ session[tx[t].session] # None
      BY <1>1, <1>3, <2>1, PassedOrder DEF Passes, Isolated, Inputs, ClientOps
    <3>2. session[tx[t].session] \in Bindings
      BY <3>1 DEF LockInv, TypeOK
    <3>3. tx[t].session \in Wants(t)
      BY <2>1, <3>1 DEF Wants
    <3>4. tx'[t].binding = session[tx[t].session]
      BY <1>5, <2>1
    <3> QED
      BY <1>1, <1>4, <3>1, <3>2, <3>3, <3>4 DEF SessionKept
  <2>2. CASE Statement(t) # "session"
    <3> SUFFICES ASSUME Passed(t, "session")
                 PROVE  /\ owner'[tx[t].session] = t
                        /\ session[tx[t].session] = tx'[t].binding
                        /\ tx'[t].binding \in Bindings
      BY <1>1, <1>2, <2>2 DEF SessionKept
    <3>1. tx[t].op \in {"verify", "unbind"} /\ tx[t].session \in Sessions
      BY <1>3, PassedOrder DEF Isolated, Inputs, ClientOps
    <3>2. tx'[t].binding = tx[t].binding
      BY <1>5, <2>2, <3>1
    <3> QED
      BY <1>1, <1>3, <1>4, <3>1, <3>2 DEF Isolated, SessionKept
  <2> QED
    BY <2>1, <2>2
<1>12. BindingKept(t)'
  <2> SUFFICES ASSUME Passed(t, "binding") \/ Statement(t) = "binding", tx[t].op # "activate"
               PROVE  /\ tx'[t].binding \in Bindings
                      /\ owner'[tx'[t].binding] = t
                      /\ binding[tx'[t].binding].status # "absent"
                      /\ tx[t].op # "disconnect" => binding[tx'[t].binding].status = "active"
                      /\ tx[t].op \in ClientOps =>
                            binding[tx'[t].binding].device = tx[t].device
    BY <1>1, <1>2 DEF BindingKept
  <2>1. tx'[t].binding = tx[t].binding
    BY <1>5, PassedOrder
  <2>2. CASE Passed(t, "binding")
    BY <1>1, <1>3, <1>4, <2>1, <2>2 DEF Isolated, BindingKept
  <2>3. CASE Statement(t) = "binding"
    <3>1. tx[t].op \in {"verify", "unbind", "adminUnbind", "disconnect"}
          /\ tx[t].binding \in Bindings
      BY <2>3, PassedOrder DEF LockInv, AtStatement, Running
    <3>2. /\ tx[t].op = "disconnect" => binding[tx[t].binding].status # "absent"
          /\ tx[t].op # "disconnect" => binding[tx[t].binding].status = "active"
          /\ tx[t].op \in ClientOps => binding[tx[t].binding].device = tx[t].device
      BY <1>1, <2>3, <3>1 DEF Passes, ClientOps
    <3>3. tx[t].binding \in Wants(t)
      BY <2>3, <3>1, <3>2 DEF Wants
    <3> QED
      BY <1>1, <1>4, <2>1, <3>1, <3>2, <3>3
  <2> QED
    BY <2>2, <2>3
<1>13. SeatKept(t)'
  <2> SUFFICES ASSUME Passed(t, "binding") \/ Statement(t) = "binding", tx[t].op = "activate"
               PROVE  \/ /\ tx'[t].binding \in BindingFor(tx[t].device)
                         /\ owner'[tx'[t].binding] = t
                      \/ BindingFor(tx[t].device) = {} /\ NewBinding(t)'
    BY <1>1, <1>2 DEF SeatKept, BindingFor, ActiveBindings
  <2>1. BindingFor(tx[t].device) \subseteq Rows
    BY <1>4 DEF BindingFor, ActiveBindings
  <2>2. CASE Statement(t) = "binding"
    <3>1. ~Passed(t, "binding") /\ Statement(t) # "session"
      BY <2>2, PassedOrder
    <3>2. Wants(t) = BindingFor(tx[t].device)
      BY <2>2 DEF Wants
    <3> QED
      BY <1>1, <1>3, <1>5, <1>6, <2>1, <2>2, <3>1, <3>2 DEF Isolated, Inputs
  <2>3. CASE Statement(t) # "binding"
    BY <1>1, <1>3, <1>5, <1>6, <2>1, <2>3, PassedOrder DEF Isolated, SeatKept
  <2> QED
    BY <2>2, <2>3
<1>14. DeletesOwned(t)'
  <2> SUFFICES ASSUME Passed(t, "sessions") \/ Statement(t) = "sessions", NEW s \in Deletes(t)'
               PROVE  owner'[s] = t
    BY <1>2 DEF DeletesOwned
  <2>1. tx'[t].binding = tx[t].binding
    BY <1>5, PassedOrder
  <2>2. s \in Deletes(t) /\ s \in Sessions
    BY <1>1, <2>1 DEF Deletes
  <2>3. CASE Passed(t, "sessions")
    BY <1>1, <1>3, <1>4, <2>2, <2>3 DEF Isolated, DeletesOwned
  <2>4. CASE Statement(t) = "sessions"
    <3>1. Wants(t) = Deletes(t)
      BY <2>4 DEF Wants
    <3> QED
      BY <1>1, <1>4, <2>2, <3>1
  <2> QED
    BY <2>3, <2>4
<1>15. BindingsOwned(t)'
  <2> SUFFICES ASSUME Passed(t, "bindings") \/ Statement(t) = "bindings", NEW b \in Bindings,
                      IF tx[t].op = "unbindAll" THEN binding[b].status = "active"
                                                ELSE binding[b].status # "absent"
               PROVE  owner'[b] = t
    BY <1>1, <1>2 DEF BindingsOwned
  <2>1. CASE Passed(t, "bindings")
    BY <1>1, <1>3, <1>4, <2>1 DEF Isolated, BindingsOwned
  <2>2. CASE Statement(t) = "bindings"
    <3>1. b \in Wants(t)
      BY <2>2 DEF Wants, ActiveBindings
    <3> QED
      BY <1>1, <1>4, <3>1
  <2> QED
    BY <2>1, <2>2
<1> QED
  BY <1>7, <1>8, <1>9, <1>10, <1>11, <1>12, <1>13, <1>14, <1>15 DEF Isolated

LEMMA OwnIsolated ==
    ASSUME LockInv, IsolationInv, NEW t \in Transactions, StepOf(t)
    PROVE  Isolated(t)'
<1>1. \A u \in Transactions \ {t} : tx'[u] = tx[u]
  BY OthersKept
<1>2. Isolated(t)
  BY DEF IsolationInv
<1>3. CASE tx'[t] = Idle
  <2>1. tx'[t].op = "idle" /\ Inputs(t)'
    BY <1>3, IdleTyped DEF Inputs, ClientOps
  <2> QED
    BY <2>1, NothingPassed
<1>4. CASE BeginAny(t)
  <2>1. Inputs(t)'
    <3>1. /\ UNCHANGED <<binding, session, license>>
          /\ tx'[t].op = "activate" => tx'[t].session \in Sessions
      BY <1>4, Begun DEF rows, ClientOps
    <3> QED
      BY <1>1, <1>4, <3>1, Begun DEF Inputs, NewBinding, FreshBinding, FreshSession
  <2>2. tx'[t].at = 1
    BY <1>4, Begun
  <2> QED
    BY <2>1, <2>2, NothingPassed
<1>5. CASE Execute(t)
  BY <1>5, ExecuteIsolated
<1>6. CASE /\ Retry(t) /\ tx'[t].at = 1 /\ UNCHANGED rows
           /\ tx'[t].op = tx[t].op /\ tx'[t].session = tx[t].session
           /\ tx'[t].device = tx[t].device
           /\ tx[t].op = "activate" => tx'[t].binding = tx[t].binding
  <2>1. ~(tx[t].op = "activate" /\ Passed(t, "binding"))
    <3> SUFFICES ASSUME tx[t].op = "activate", Passed(t, "binding") PROVE FALSE
      OBVIOUS
    <3>1. Wants(t) = {}
      BY PassedOrder DEF Wants
    <3>2. WaitsFor(t) # {}
      BY <1>6 DEF Retry, Waiting
    <3> QED
      BY <3>1, <3>2 DEF WaitsFor
  <2>2. Inputs(t)'
    BY <1>1, <1>2, <1>6, <2>1 DEF Isolated, Inputs, NewBinding, rows
  <2> QED
    BY <1>6, <2>2, NothingPassed
<1>7. CASE tx' = tx /\ UNCHANGED rows /\ \A r \in Rows : owner[r] = t => owner'[r] = t
  <2>1. {"merchant", "app", "license"} \subseteq Rows /\ Bindings \subseteq Rows
        /\ Sessions \subseteq Rows
    BY DEF Rows
  <2>2. \A st : Passed(t, st)' <=> Passed(t, st)
    BY <1>7 DEF Passed
  <2>3. UNCHANGED <<merchant, app, license, binding, session>>
    BY <1>7 DEF rows
  <2>4. Inputs(t)' /\ MerchantKept(t)' /\ AppKept(t)' /\ LicenseKept(t)'
    BY <1>2, <1>7, <2>1, <2>2, <2>3
    DEF Isolated, Inputs, NewBinding, MerchantKept, AppKept, LicenseKept, LicenseExists
  <2>5. SessionKept(t)'
    <3>1. Passed(t, "session") => tx[t].session \in Sessions
      BY <1>2, PassedOrder DEF Isolated, Inputs, ClientOps
    <3> QED
      BY <1>2, <1>7, <2>1, <2>2, <2>3, <3>1 DEF Isolated, SessionKept
  <2>6. BindingKept(t)' /\ SeatKept(t)'
    BY <1>2, <1>7, <2>1, <2>2, <2>3
    DEF Isolated, BindingKept, SeatKept, NewBinding, BindingFor, ActiveBindings
  <2>7. DeletesOwned(t)' /\ BindingsOwned(t)'
    BY <1>2, <1>7, <2>1, <2>2, <2>3 DEF Isolated, DeletesOwned, BindingsOwned, Deletes
  <2> QED
    BY <2>4, <2>5, <2>6, <2>7 DEF Isolated
<1> QED
  BY <1>3, <1>4, <1>5, <1>6, <1>7, InputKept

LEMMA IsolationStep ==
    ASSUME LockInv, IsolationInv, [Next]_vars
    PROVE  IsolationInv'
<1>1. CASE UNCHANGED vars
  BY <1>1
  DEF vars, IsolationInv, AbsentBlank, Isolated, Inputs, NewBinding, MerchantKept, AppKept,
      LicenseKept, SessionKept, BindingKept, SeatKept, DeletesOwned, BindingsOwned, Passed,
      LicenseExists, BindingFor, ActiveBindings, Deletes
<1>2. CASE Next
  <2>1. PICK u \in Transactions : StepOf(u)
    BY <1>2, NextIsStep
  <2>2. AbsentBlank'
    BY <2>1, StepWrites
  <2>3. \A t \in Transactions : Isolated(t)'
    BY <2>1, OwnIsolated, OthersIsolated
  <2> QED
    BY <2>2, <2>3 DEF IsolationInv
<1> QED
  BY <1>1, <1>2

LEMMA IsolationInit == Init => IsolationInv
<1> SUFFICES ASSUME Init PROVE IsolationInv
  OBVIOUS
<1>1. AbsentBlank
  BY DEF Init, AbsentBlank
<1>2. \A t \in Transactions : tx[t].op = "idle" /\ Inputs(t)
  BY IdleTyped DEF Init, Inputs, ClientOps
<1>3. \A t \in Transactions : \A st : ~Passed(t, st)
  BY <1>2 DEF Passed
<1> QED
  BY <1>1, <1>2, <1>3
  DEF IsolationInv, Isolated, MerchantKept, AppKept, LicenseKept, SessionKept, BindingKept,
      SeatKept, DeletesOwned, BindingsOwned

-----------------------------------------------------------------------------
(***************************************************************************)
(* The mapped rows.  CoreIs relates LicenseCore's reading of them to that  *)
(* of the repositories.                                                    *)
(***************************************************************************)
CoreStep == [Core!Next]_(Core!vars)

OpenSessions == {s \in Sessions : session[s] # None}

LEMMA CoreRows ==
    ASSUME LockInv
    PROVE  /\ Core!Exists("license") <=> LicenseExists
           /\ Core!InService("app") <=> app = "active" /\ merchant = "active"
           /\ LicenseExists => Core!Usable("license", 1) <=> license.status # "disabled"
           /\ \A s \in Sessions : Core!Open(s) <=> session[s] # None
           /\ Core!ActiveBindings("license") = ActiveBindings
           /\ \A d : Core!BindingFor("license", d) = BindingFor(d)
           /\ Core!SeatFree("license")
<1>1. /\ binding \in [Bindings -> BindingRec]
      /\ session \in [Sessions -> Bindings \cup {None}]
      /\ None \notin {"merchant", "app", "license"} /\ None \notin Bindings
  BY NoneAssumption DEF LockInv, TypeOK, BindingRec
<1>2. Core!Exists("license") <=> LicenseExists
  BY DEF Core!Exists, CoreLicense, LicenseExists, LockInv, TypeOK
<1>3. Core!InService("app") <=> app = "active" /\ merchant = "active"
  BY DEF Core!InService
<1>4. LicenseExists => Core!Usable("license", 1) <=> license.status # "disabled"
  BY DEF Core!Usable, CoreLicense, Core!NoTime
<1>5. \A s \in Sessions : Core!Open(s) <=> session[s] # None
  BY <1>1 DEF Core!Open, CoreSession
<1>6. Core!ActiveBindings("license") = ActiveBindings
  BY <1>1 DEF Core!ActiveBindings, CoreBinding, ActiveBindings
<1>7. \A d : Core!BindingFor("license", d) = BindingFor(d)
  BY <1>6 DEF Core!BindingFor, BindingFor, CoreBinding, ActiveBindings
<1>8. Core!SeatFree("license")
  BY DEF Core!SeatFree, CoreLicense
<1> QED
  BY <1>2, <1>3, <1>4, <1>5, <1>6, <1>7, <1>8

LEMMA CoreSessions ==
    ASSUME LockInv
    PROVE  /\ Core!SessionsOfLicense("license") = OpenSessions
           /\ Core!SessionsOfApp("app") = OpenSessions
           /\ Core!SessionsOfMerchant("merchant") = OpenSessions
           /\ \A b \in Bindings : Core!SessionsOfBinding(b) = {s \in Sessions : session[s] = b}
           /\ Core!ExpiredSessions(1) = {}
<1>1. /\ session \in [Sessions -> Bindings \cup {None}]
      /\ None \notin {"merchant", "app", "license"} /\ None \notin Bindings
  BY NoneAssumption DEF LockInv, TypeOK
<1>2. Core!SessionsOfLicense("license") = OpenSessions
  BY <1>1 DEF Core!SessionsOfLicense, CoreSession, OpenSessions
<1>3. Core!SessionsOfApp("app") = OpenSessions
  BY <1>1 DEF Core!SessionsOfApp, CoreSession, OpenSessions
<1>4. Core!SessionsOfMerchant("merchant") = OpenSessions
  BY <1>3 DEF Core!SessionsOfMerchant
<1>5. \A b \in Bindings : Core!SessionsOfBinding(b) = {s \in Sessions : session[s] = b}
  BY <1>1 DEF Core!SessionsOfBinding, CoreSession
<1>6. Core!ExpiredSessions(1) = {}
  BY <1>1 DEF Core!ExpiredSessions, CoreSession, Core!Open
<1> QED
  BY <1>2, <1>3, <1>4, <1>5, <1>6

\* Deleting sessions is taking them out of LicenseCore's table.
LEMMA CoreWithout ==
    ASSUME LockInv, NEW D \in SUBSET Sessions,
           session' = [s \in Sessions |-> IF s \in D THEN None ELSE session[s]]
    PROVE  [s \in Sessions |-> CoreSession(s)]' = Core!Without(D)
<1>1. \A s \in Sessions : session'[s] = IF s \in D THEN None ELSE session[s]
  OBVIOUS
<1>2. \A s \in Sessions : CoreSession(s)' = IF s \in D THEN Core!NoSession ELSE CoreSession(s)
  BY <1>1 DEF CoreSession, Core!NoSession, Core!NoTime
<1> QED
  BY <1>2 DEF Core!Without

\* A table of LicenseCore changes only with the rows it stands for.
LEMMA CoreSame ==
    /\ merchant' = merchant =>
          [m \in {"merchant"} |-> merchant]' = [m \in {"merchant"} |-> merchant]
    /\ app' = app => [a \in {"app"} |-> app]' = [a \in {"app"} |-> app]
    /\ license' = license =>
          [l \in {"license"} |-> CoreLicense]' = [l \in {"license"} |-> CoreLicense]
    /\ binding' = binding =>
          [b \in Bindings |-> CoreBinding(b)]' = [b \in Bindings |-> CoreBinding(b)]
    /\ session' = session =>
          [s \in Sessions |-> CoreSession(s)]' = [s \in Sessions |-> CoreSession(s)]
BY DEF CoreLicense, LicenseExists, CoreBinding, CoreSession

LEMMA RequestMoved ==
    ASSUME NEW t \in Transactions, \A u \in Transactions \ {t} : tx'[u] = tx[u],
           NEW q, CoreRequest(t)' = q
    PROVE  [u \in Transactions |-> CoreRequest(u)]'
               = [[u \in Transactions |-> CoreRequest(u)] EXCEPT ![t] = q]
<1>1. \A u \in Transactions \ {t} : CoreRequest(u)' = CoreRequest(u)
  BY DEF CoreRequest, Accepted
<1> QED
  BY <1>1

LEMMA Stutter ==
    ASSUME NEW t \in Transactions, \A u \in Transactions \ {t} : tx'[u] = tx[u],
           CoreRequest(t)' = CoreRequest(t), UNCHANGED rows
    PROVE  CoreStep
<1>1. [u \in Transactions |-> CoreRequest(u)]' = [u \in Transactions |-> CoreRequest(u)]
  BY RequestMoved
<1>2. UNCHANGED Core!vars
  BY <1>1, CoreSame DEF Core!vars, rows
<1> QED
  BY <1>2 DEF CoreStep

\* A transaction that ends without effect.
LEMMA Rejected ==
    ASSUME LockInv, NEW t \in Transactions, \A u \in Transactions \ {t} : tx'[u] = tx[u],
           ~Accepted(t)', UNCHANGED rows
    PROVE  CoreStep
<1>1. CoreRequest(t)' = Core!Idle
  BY DEF CoreRequest, Core!Idle, Core!NoTime
<1>2. CASE ~Accepted(t)
  BY <1>1, <1>2, Stutter DEF CoreRequest, Core!Idle, Core!NoTime
<1>3. CASE Accepted(t)
  <2>1. CoreRequest(t).op # "idle"
    BY <1>3 DEF CoreRequest, Accepted, ClientOps
  <2>2. Core!Finish(t)
    BY <1>1, RequestMoved DEF Core!Finish
  <2>3. Core!Reject(t)
    BY <2>1, <2>2, CoreSame DEF Core!Reject, rows
  <2> QED
    BY <2>3 DEF CoreStep, Core!Next, Core!ClientStep
<1> QED
  BY <1>2, <1>3

\* Changing fields of an idle request gives the whole request.
LEMMA RequestRecord ==
    ASSUME NEW op, NEW l, NEW d, NEW s, NEW y,
           y \in [op : {op}, app : {"app"}, license : {l}, device : {d}, session : {s}, now : {1}]
    PROVE  y = [op |-> op, app |-> "app", license |-> l, device |-> d, session |-> s, now |-> 1]
OBVIOUS

LEMMA ActivateRequest ==
    ASSUME NEW d
    PROVE  [Core!Idle EXCEPT !.op = "activate", !.app = "app", !.license = "license",
                             !.device = d, !.now = 1]
               = [op |-> "activate", app |-> "app", license |-> "license", device |-> d,
                  session |-> None, now |-> 1]
<1>1. [Core!Idle EXCEPT !.op = "activate", !.app = "app", !.license = "license",
                        !.device = d, !.now = 1]
          \in [op : {"activate"}, app : {"app"}, license : {"license"}, device : {d},
               session : {None}, now : {1}]
  BY DEF Core!Idle
<1> QED
  BY <1>1, RequestRecord, ZenonT(60)

LEMMA SessionRequest ==
    ASSUME NEW op, NEW d, NEW s
    PROVE  [Core!Idle EXCEPT !.op = op, !.app = "app", !.session = s, !.device = d, !.now = 1]
               = [op |-> op, app |-> "app", license |-> None, device |-> d, session |-> s,
                  now |-> 1]
<1>1. [Core!Idle EXCEPT !.op = op, !.app = "app", !.session = s, !.device = d, !.now = 1]
          \in [op : {op}, app : {"app"}, license : {None}, device : {d}, session : {s},
               now : {1}]
  BY DEF Core!Idle
<1> QED
  BY <1>1, RequestRecord, ZenonT(60)

\* A client call is accepted where its lookup has passed.
LEMMA Submitted ==
    ASSUME LockInv, IsolationInv, NEW t \in Transactions, Execute(t),
           \A u \in Transactions \ {t} : tx'[u] = tx[u],
           tx'[t].op = tx[t].op, tx'[t].session = tx[t].session, tx'[t].device = tx[t].device,
           ~Accepted(t), Accepted(t)', UNCHANGED rows
    PROVE  CoreStep
<1>1. /\ tx[t].op \in ClientOps /\ tx[t].at = 4
      /\ tx[t].op \in DOMAIN Program /\ tx[t].op # "idle"
      /\ tx[t].at \in 1..Len(Program[tx[t].op])
      /\ Statement(t) = Program[tx[t].op][tx[t].at]
      /\ Passes(t)
  <2>1. Statement(t) # "none" /\ Passes(t)
    BY DEF Execute
  <2> QED
    BY <2>1, OwnExecute, StatementOf DEF Accepted
<1>2. /\ tx[t].op = "activate" => Statement(t) = "license"
      /\ tx[t].op # "activate" => Statement(t) = "session"
      /\ Passed(t, "merchant") /\ Passed(t, "app")
  BY <1>1, Order DEF Passed, ClientOps
<1>3. merchant = "active" /\ app = "active" /\ Isolated(t)
  BY <1>1, <1>2 DEF IsolationInv, Isolated, MerchantKept, AppKept, ClientOps
<1>4. tx[t].device \in Devices /\ tx[t].session \in Sessions
  BY <1>1, <1>3 DEF Isolated, Inputs
<1>5. CoreRequest(t) = Core!Idle
  BY DEF CoreRequest, Core!Idle, Core!NoTime
<1>6. CASE tx[t].op = "activate"
  <2>1. LicenseExists
    BY <1>1, <1>2, <1>6 DEF Passes
  <2>2. CoreRequest(t)' = [Core!Idle EXCEPT !.op = "activate", !.app = "app",
                              !.license = "license", !.device = tx[t].device, !.now = 1]
    <3>1. CoreRequest(t)' = [op |-> "activate", app |-> "app", license |-> "license",
                             device |-> tx[t].device, session |-> None, now |-> 1]
      BY <1>6 DEF CoreRequest
    <3> QED
      BY <3>1, ActivateRequest
  <2>3. Core!SubmitActivate(t, "app", "license", tx[t].device)
    BY <1>3, <1>5, <2>1, <2>2, CoreRows, CoreSame, RequestMoved
    DEF Core!SubmitActivate, Core!Submit, rows
  <2> QED
    BY <1>4, <2>3 DEF CoreStep, Core!Next, Core!ClientStep
<1>7. CASE tx[t].op \in {"verify", "unbind"}
  <2>1. PICK op, d, s : op = tx[t].op /\ d = tx[t].device /\ s = tx[t].session
    OBVIOUS
  <2>2. session[s] # None /\ s \in Sessions /\ d \in Devices
    BY <1>1, <1>2, <1>4, <1>7, <2>1 DEF Passes
  <2>3. CoreRequest(t)' = [Core!Idle EXCEPT !.op = op, !.app = "app", !.session = s,
                                           !.device = d, !.now = 1]
    <3>1. CoreRequest(t)' = [op |-> op, app |-> "app", license |-> None, device |-> d,
                             session |-> s, now |-> 1]
      BY <1>7, <2>1 DEF CoreRequest
    <3>2. [Core!Idle EXCEPT !.op = op, !.app = "app", !.session = s, !.device = d, !.now = 1]
              = [op |-> op, app |-> "app", license |-> None, device |-> d, session |-> s,
                 now |-> 1]
      BY SessionRequest
    <3> QED
      BY <3>1, <3>2, Zenon
  <2>4. Core!InService("app") /\ Core!Open(s)
    BY <1>3, <2>2, CoreRows
  <2>5. Core!SubmitVerify(t, "app", s, d) \/ Core!SubmitUnbind(t, "app", s, d)
    <3>1. CASE op = "verify"
      BY <1>5, <2>3, <2>4, <3>1, CoreSame, RequestMoved
      DEF Core!SubmitVerify, Core!Submit, rows
    <3>2. CASE op = "unbind"
      BY <1>5, <2>3, <2>4, <3>2, CoreSame, RequestMoved
      DEF Core!SubmitUnbind, Core!Submit, rows
    <3> QED
      BY <1>7, <2>1, <3>1, <3>2
  <2> QED
    BY <2>2, <2>5 DEF CoreStep, Core!Next, Core!ClientStep
<1> QED
  BY <1>1, <1>6, <1>7 DEF ClientOps

\* Every step that is not a commit.
LEMMA QuietStep ==
    ASSUME LockInv, IsolationInv, NEW t \in Transactions, StepOf(t), ~Commit(t)
    PROVE  CoreStep
<1>1. \A u \in Transactions \ {t} : tx'[u] = tx[u]
  BY OthersKept
<1>2. UNCHANGED rows
  BY Begun DEF StepOf, Lock, Execute, Refuse, Retry, GiveUp, Timeout
<1>3. CASE tx'[t] = Idle \/ tx'[t].at = 1
  <2>1. ~Accepted(t)'
    BY <1>3, IdleTyped DEF Accepted
  <2> QED
    BY <1>1, <1>2, <2>1, Rejected
<1>4. CASE tx' = tx
  BY <1>1, <1>2, <1>4, Stutter DEF CoreRequest, Accepted
<1>5. CASE /\ Execute(t) /\ tx'[t].op = tx[t].op /\ tx'[t].session = tx[t].session
           /\ tx'[t].device = tx[t].device
  <2>1. Accepted(t) => Accepted(t)'
    BY <1>5, OwnExecute DEF Accepted
  <2>2. CASE Accepted(t)' /\ ~Accepted(t)
    BY <1>1, <1>2, <1>5, <2>2, Submitted
  <2>3. CASE Accepted(t)' <=> Accepted(t)
    <3>1. CoreRequest(t)' = CoreRequest(t)
      BY <1>5, <2>3 DEF CoreRequest
    <3> QED
      BY <1>1, <1>2, <3>1, Stutter
  <2> QED
    BY <2>1, <2>2, <2>3
<1> QED
  BY <1>3, <1>4, <1>5, InputKept, Begun

-----------------------------------------------------------------------------
\* A transaction that ends leaves LicenseCore's requests without its own.
LEMMA EndCore ==
    ASSUME LockInv, NEW t \in Transactions, End(t)
    PROVE  /\ Core!Finish(t)
           /\ tx[t].op \notin ClientOps =>
                 [u \in Transactions |-> CoreRequest(u)]' = [u \in Transactions |-> CoreRequest(u)]
<1>1. tx'[t] = Idle /\ \A u \in Transactions \ {t} : tx'[u] = tx[u]
  BY DEF End, LockInv, TypeOK
<1>2. CoreRequest(t)' = Core!Idle
  BY <1>1, IdleTyped DEF CoreRequest, Accepted, ClientOps, Core!Idle, Core!NoTime
<1>3. [u \in Transactions |-> CoreRequest(u)]'
          = [[u \in Transactions |-> CoreRequest(u)] EXCEPT ![t] = Core!Idle]
  BY <1>1, <1>2, RequestMoved
<1>4. tx[t].op \notin ClientOps => CoreRequest(t) = Core!Idle
  BY DEF CoreRequest, Accepted, Core!Idle, Core!NoTime
<1> QED
  BY <1>3, <1>4 DEF Core!Finish

LEMMA GenerateStep ==
    ASSUME LockInv, IsolationInv, NEW t \in Transactions, CommitGenerate(t)
    PROVE  CoreStep
<1>1. /\ tx[t].op = "generate" /\ Passed(t, "merchant") /\ Passed(t, "app") /\ Isolated(t)
      /\ End(t)
  BY PassedAtCommit DEF CommitGenerate, Committing, RowFirstOps, IsolationInv
<1>2. license.status = "none" /\ merchant = "active" /\ app = "active"
  BY <1>1 DEF Isolated, Inputs, MerchantKept, AppKept
<1>3. \A u \in Transactions : CoreRequest(u).license # "license"
  <2> SUFFICES ASSUME NEW u \in Transactions, CoreRequest(u).license = "license"
               PROVE  FALSE
    OBVIOUS
  <2>1. tx[u].op = "activate" /\ tx[u].at > 4
    BY NoneAssumption DEF CoreRequest, Accepted
  <2>2. tx[u].op \in DOMAIN Program /\ tx[u].at \in 1..Len(Program[tx[u].op])
    BY <2>1 DEF LockInv, TypeOK, TxRec, AtStatement, Running
  <2>3. Passed(u, "license")
    BY <2>1, <2>2, Order DEF Passed
  <2> QED
    BY <1>2, <2>3 DEF IsolationInv, Isolated, LicenseKept, LicenseExists
<1>4. [l \in {"license"} |-> CoreLicense]'
          = [l \in {"license"} |->
                [status |-> "pending", app |-> "app", activated |-> FALSE, duration |-> 0,
                 expiresAt |-> 2, maxDevices |-> 0]]
  BY DEF CommitGenerate, CoreLicense, LicenseExists
<1>5. Core!FreshLicense("license") /\ Core!InService("app")
  BY <1>2, <1>3, CoreRows DEF Core!FreshLicense, LicenseExists
<1>6. Core!Generate("app", {"license"}, 0, 2, 0)
  BY <1>1, <1>4, <1>5, CoreSame, EndCore
  DEF Core!Generate, Core!NoTime, CommitGenerate, ClientOps
<1> QED
  BY <1>6 DEF CoreStep, Core!Next, Core!AdminStep, Core!ManageStep, Core!NoTime

\* A table of LicenseCore changes at one place with one row.
LEMMA BindingMoved ==
    ASSUME NEW b \in Bindings, \A x \in Bindings \ {b} : binding'[x] = binding[x],
           NEW y, CoreBinding(b)' = y
    PROVE  [x \in Bindings |-> CoreBinding(x)]'
               = [[x \in Bindings |-> CoreBinding(x)] EXCEPT ![b] = y]
<1>1. \A x \in Bindings \ {b} : CoreBinding(x)' = CoreBinding(x)
  <2> TAKE x \in Bindings \ {b}
  <2>1. binding'[x] = binding[x]
    OBVIOUS
  <2> QED
    BY <2>1 DEF CoreBinding
<1> QED
  BY <1>1

LEMMA SessionMoved ==
    ASSUME NEW s \in Sessions, \A x \in Sessions \ {s} : session'[x] = session[x],
           NEW y, CoreSession(s)' = y
    PROVE  [x \in Sessions |-> CoreSession(x)]'
               = [[x \in Sessions |-> CoreSession(x)] EXCEPT ![s] = y]
<1>1. \A x \in Sessions \ {s} : CoreSession(x)' = CoreSession(x)
  <2> TAKE x \in Sessions \ {s}
  <2>1. session'[x] = session[x]
    OBVIOUS
  <2> QED
    BY <2>1 DEF CoreSession
<1> QED
  BY <1>1

LEMMA ActivateStep ==
    ASSUME LockInv, IsolationInv, NEW t \in Transactions, CommitActivate(t)
    PROVE  CoreStep
<1>0. PICK b, s, d : b = tx[t].binding /\ s = tx[t].session /\ d = tx[t].device
  OBVIOUS
<1>1. /\ tx[t].op = "activate" /\ Isolated(t) /\ End(t) /\ Accepted(t)
      /\ Passed(t, "merchant") /\ Passed(t, "app") /\ Passed(t, "license")
      /\ Passed(t, "binding")
  BY PassedAtCommit
  DEF CommitActivate, Committing, RowFirstOps, IsolationInv, Accepted, ClientOps
<1>2. /\ merchant = "active" /\ app = "active"
      /\ LicenseExists /\ license.status # "disabled"
      /\ s \in Sessions /\ session[s] = None
      /\ \A u \in Transactions \ {t} : tx[u].session # s
      /\ b \in Bindings /\ d \in Devices
  BY <1>0, <1>1
  DEF Isolated, Inputs, MerchantKept, AppKept, LicenseKept, ClientOps, LockInv, AtStatement,
      Running
<1>3. CoreRequest(t) = [op |-> "activate", app |-> "app", license |-> "license",
                        device |-> d, session |-> None, now |-> 1]
  BY <1>0, <1>1 DEF CoreRequest
<1>4. Core!CanActivate(CoreRequest(t))
  <2>1. [l \in {"license"} |-> CoreLicense]["license"].app = "app"
    BY <1>2 DEF CoreLicense
  <2> QED
    BY <1>2, <1>3, <2>1, CoreRows DEF Core!CanActivate
<1>5. Core!FreshSession(s)
  <2>1. \A u \in Transactions : CoreRequest(u).session # s
    BY <1>1, <1>2, <1>3, NoneAssumption DEF CoreRequest
  <2> QED
    BY <1>2, <2>1, CoreRows DEF Core!FreshSession
<1>6. \/ /\ b \in Core!BindingFor("license", d)
         /\ UNCHANGED [x \in Bindings |-> CoreBinding(x)]
      \/ /\ Core!BindingFor("license", d) = {}
         /\ Core!FreshBinding(b)
         /\ [x \in Bindings |-> CoreBinding(x)]' =
               [[x \in Bindings |-> CoreBinding(x)] EXCEPT
                   ![b] = [status |-> "active", license |-> "license", device |-> d]]
  <2>1. CASE b \in BindingFor(d)
    <3>1. binding' = binding
      BY <1>0, <1>2, <2>1, SaveSame DEF BindingFor, ActiveBindings, CommitActivate
    <3> QED
      BY <2>1, <3>1, CoreRows, CoreSame
  <2>2. CASE BindingFor(d) = {} /\ NewBinding(t)
    <3>1. /\ \A x \in Bindings \ {b} : binding'[x] = binding[x]
          /\ binding'[b] = [status |-> "active", device |-> d]
      BY <1>0, <1>2 DEF CommitActivate, SaveBinding, LockInv, TypeOK
    <3>2. CoreBinding(b)' = [status |-> "active", license |-> "license", device |-> d]
      BY <3>1 DEF CoreBinding
    <3>3. [x \in Bindings |-> CoreBinding(x)]' =
              [[x \in Bindings |-> CoreBinding(x)] EXCEPT
                  ![b] = [status |-> "active", license |-> "license", device |-> d]]
      BY <1>2, <3>1, <3>2, BindingMoved
    <3>4. Core!FreshBinding(b)
      BY <1>0, <1>2, <2>2 DEF NewBinding, Core!FreshBinding, CoreBinding
    <3> QED
      BY <2>2, <3>3, <3>4, CoreRows
  <2> QED
    BY <1>0, <1>1, <2>1, <2>2 DEF Isolated, SeatKept
<1>7. [l \in {"license"} |-> CoreLicense]' =
          [[l \in {"license"} |-> CoreLicense] EXCEPT
              !["license"] = Core!Activated("license", 1)]
  <2>1. Core!TermEnd("license", 1) = 2
    BY <1>2 DEF Core!TermEnd, CoreLicense
  <2>2. CoreLicense' = Core!Activated("license", 1)
    <3>1. CASE license.activated
      BY <1>2, <3>1
      DEF Core!Activated, CoreLicense, LicenseExists, CommitActivate
    <3>2. CASE ~license.activated
      <4>1. CoreLicense' = [status |-> "active", app |-> "app", activated |-> TRUE,
                            duration |-> 0, expiresAt |-> 2, maxDevices |-> 0]
        BY <1>2, <3>2 DEF CommitActivate, CoreLicense, LicenseExists
      <4>2. CoreLicense = [status |-> license.status, app |-> "app", activated |-> FALSE,
                           duration |-> 0, expiresAt |-> 2, maxDevices |-> 0]
        BY <1>2, <3>2 DEF CoreLicense, LockInv, TypeOK
      <4>3. Core!Activated("license", 1) =
                [CoreLicense EXCEPT !.activated = TRUE, !.status = "active", !.expiresAt = 2]
        BY <2>1, <3>2 DEF Core!Activated, CoreLicense
      <4> QED
        BY <4>1, <4>2, <4>3
    <3> QED
      BY <3>1, <3>2
  <2> QED
    BY <2>2
<1>8. [x \in Sessions |-> CoreSession(x)]' =
          [Core!Without(Core!ExpiredSessions(1)) EXCEPT
              ![s] = [app |-> "app", license |-> "license", binding |-> b,
                      expiresAt |-> Core!SessionExpiry("license", 1)]]
  <2>1. Core!SessionExpiry("license", 1) = 2
    BY <1>2 DEF Core!SessionExpiry, Core!TermEnd, Core!Earlier, CoreLicense
  <2>2. Core!Without(Core!ExpiredSessions(1)) = [x \in Sessions |-> CoreSession(x)]
    BY CoreSessions DEF Core!Without
  <2>3. session'[s] = b /\ \A x \in Sessions \ {s} : session'[x] = session[x]
    BY <1>0, <1>2 DEF CommitActivate, LockInv, TypeOK
  <2>4. CoreSession(s)' = [app |-> "app", license |-> "license", binding |-> b,
                           expiresAt |-> 2]
    BY <1>2, <2>3, NoneAssumption DEF CoreSession
  <2> QED
    BY <1>2, <2>1, <2>2, <2>3, <2>4, SessionMoved
<1>9. Core!Finish(t) /\ UNCHANGED <<merchant, app>>
  BY <1>1, EndCore DEF CommitActivate
<1>10. Core!Activate(t, b, s)
  <2>1. CoreRequest(t).op = "activate" /\ CoreRequest(t).license = "license"
        /\ CoreRequest(t).device = d /\ CoreRequest(t).now = 1 /\ CoreRequest(t).app = "app"
    BY <1>3
  <2>2. \E q : q = CoreRequest(t)
    OBVIOUS
  <2> HIDE DEF CoreRequest
  <2> QED
    BY <1>4, <1>5, <1>6, <1>7, <1>8, <1>9, <2>1, CoreSame DEF Core!Activate
<1> QED
  BY <1>2, <1>10 DEF CoreStep, Core!Next, Core!ClientStep

\* A session call that commits passes the checks of LicenseCore's transaction.
LEMMA LookedUp ==
    ASSUME LockInv, IsolationInv, NEW t \in Transactions, Statement(t) = "commit",
           tx[t].op \in {"verify", "unbind"}, NEW s, NEW b, NEW d,
           s = tx[t].session, b = tx[t].binding, d = tx[t].device
    PROVE  /\ s \in Sessions /\ b \in Bindings /\ session[s] = b
           /\ binding[b].status = "active" /\ binding[b].device = d
           /\ CoreRequest(t) = [op |-> tx[t].op, app |-> "app", license |-> None, device |-> d,
                                session |-> s, now |-> 1]
           /\ CoreSession(s) = [app |-> "app", license |-> "license", binding |-> b,
                                expiresAt |-> 2]
           /\ Core!SessionAccepted(CoreRequest(t)) /\ Core!DeviceMatches(CoreRequest(t))
<1>1. /\ Isolated(t) /\ Accepted(t)
      /\ Passed(t, "merchant") /\ Passed(t, "app") /\ Passed(t, "session")
      /\ Passed(t, "binding")
  BY PassedAtCommit DEF RowFirstOps, IsolationInv, Accepted, ClientOps
<1>2. /\ merchant = "active" /\ app = "active"
      /\ s \in Sessions /\ b \in Bindings /\ session[s] = b
      /\ binding[b].status = "active" /\ binding[b].device = d
  BY <1>1
  DEF Isolated, Inputs, MerchantKept, AppKept, SessionKept, BindingKept, ClientOps
<1>3. CoreRequest(t) = [op |-> tx[t].op, app |-> "app", license |-> None, device |-> d,
                        session |-> s, now |-> 1]
  BY <1>1 DEF CoreRequest
<1>4. CoreSession(s) = [app |-> "app", license |-> "license", binding |-> b, expiresAt |-> 2]
  BY <1>2, NoneAssumption DEF CoreSession
<1>5. Core!SessionAccepted(CoreRequest(t))
  BY <1>2, <1>3, <1>4, NoneAssumption, CoreRows DEF Core!SessionAccepted
<1>6. Core!DeviceMatches(CoreRequest(t))
  BY <1>2, <1>3, <1>4 DEF Core!DeviceMatches, CoreBinding
<1> QED
  BY <1>2, <1>3, <1>4, <1>5, <1>6

LEMMA VerifyStep ==
    ASSUME LockInv, IsolationInv, NEW t \in Transactions, CommitVerify(t)
    PROVE  CoreStep
<1>1. PICK s, b, d : s = tx[t].session /\ b = tx[t].binding /\ d = tx[t].device
  OBVIOUS
<1>2. Statement(t) = "commit" /\ tx[t].op = "verify" /\ End(t)
  BY DEF CommitVerify, Committing
<1>3. /\ s \in Sessions /\ b \in Bindings /\ session[s] = b
      /\ binding[b].status = "active" /\ binding[b].device = d
      /\ CoreRequest(t) = [op |-> tx[t].op, app |-> "app", license |-> None, device |-> d,
                           session |-> s, now |-> 1]
      /\ CoreSession(s) = [app |-> "app", license |-> "license", binding |-> b,
                           expiresAt |-> 2]
      /\ Core!SessionAccepted(CoreRequest(t)) /\ Core!DeviceMatches(CoreRequest(t))
  BY <1>1, <1>2, LookedUp
<1>4. LicenseExists /\ license.status # "disabled"
  BY <1>2, PassedAtCommit DEF IsolationInv, Isolated, LicenseKept, ClientOps
<1>5. Core!CanVerify(CoreRequest(t))
  BY <1>3, <1>4, CoreRows DEF Core!CanVerify
<1>6. UNCHANGED <<merchant, app, license, binding, session>>
  BY <1>1, <1>3, SaveSame DEF CommitVerify
<1>7. [[x \in Sessions |-> CoreSession(x)] EXCEPT
          ![s].expiresAt = Core!Earlier(1 + 1, CoreLicense.expiresAt)]
          = [x \in Sessions |-> CoreSession(x)]
  <2>1. Core!Earlier(1 + 1, CoreLicense.expiresAt) = 2
    BY <1>4 DEF Core!Earlier, CoreLicense
  <2>2. [CoreSession(s) EXCEPT !.expiresAt = 2] = CoreSession(s)
    BY <1>3
  <2> QED
    BY <1>3, <2>1, <2>2
<1>8. Core!Verify(t)
  <2>1. /\ CoreRequest(t).op = "verify" /\ CoreRequest(t).session = s
        /\ CoreRequest(t).now = 1 /\ CoreSession(s).license = "license"
    BY <1>2, <1>3
  <2>2. UNCHANGED [x \in Sessions |-> CoreSession(x)]
    BY <1>6, CoreSame
  <2> HIDE DEF CoreRequest, CoreSession, CoreLicense
  <2> QED
    BY <1>2, <1>3, <1>5, <1>6, <1>7, <2>1, <2>2, EndCore, CoreSame DEF Core!Verify
<1> QED
  BY <1>8 DEF CoreStep, Core!Next, Core!ClientStep

\* Revoking a binding, as unbind and the administrator's unbind write it.
LEMMA Revoking ==
    ASSUME LockInv, NEW b \in Bindings, binding[b].status = "active",
           binding' = [binding EXCEPT ![b].status = "revoked"]
    PROVE  [x \in Bindings |-> CoreBinding(x)]'
               = [[x \in Bindings |-> CoreBinding(x)] EXCEPT ![b].status = "revoked"]
<1>1. /\ binding \in [Bindings -> BindingRec]
      /\ \A x \in Bindings \ {b} : binding'[x] = binding[x]
      /\ binding'[b] = [binding[b] EXCEPT !.status = "revoked"]
  BY DEF LockInv, TypeOK, BindingRec
<1>2. CoreBinding(b)' = [CoreBinding(b) EXCEPT !.status = "revoked"]
  <2>1. binding'[b].status = "revoked" /\ binding'[b].device = binding[b].device
    BY <1>1 DEF BindingRec
  <2> QED
    BY <2>1 DEF CoreBinding
<1> QED
  BY <1>1, <1>2, BindingMoved

LEMMA UnbindStep ==
    ASSUME LockInv, IsolationInv, NEW t \in Transactions, CommitUnbind(t)
    PROVE  CoreStep
<1>1. PICK s, b, d : s = tx[t].session /\ b = tx[t].binding /\ d = tx[t].device
  OBVIOUS
<1>2. Statement(t) = "commit" /\ tx[t].op \in {"unbind", "adminUnbind"} /\ End(t)
  BY DEF CommitUnbind, Committing
<1>3. b \in Bindings /\ binding[b].status = "active"
  BY <1>1, <1>2, PassedAtCommit DEF IsolationInv, Isolated, BindingKept
<1>4. [x \in Bindings |-> CoreBinding(x)]'
          = [[x \in Bindings |-> CoreBinding(x)] EXCEPT ![b].status = "revoked"]
  BY <1>1, <1>3, Revoking DEF CommitUnbind
<1>5. [x \in Sessions |-> CoreSession(x)]' = Core!Without(Core!SessionsOfBinding(b))
  <2>1. Deletes(t) = {x \in Sessions : session[x] = b}
    BY <1>1, <1>2, <1>3, NoneAssumption DEF Deletes, StatusOps
  <2>2. session' = [x \in Sessions |->
                       IF x \in {y \in Sessions : session[y] = b} THEN None ELSE session[x]]
    BY <2>1 DEF CommitUnbind, WithoutDeleted
  <2> QED
    BY <1>3, <2>2, CoreSessions, CoreWithout
<1>6. UNCHANGED <<merchant, app, license>>
  BY DEF CommitUnbind
<1>7. CASE tx[t].op = "unbind"
  <2>1. /\ CoreRequest(t).op = "unbind" /\ CoreRequest(t).session = s
        /\ CoreSession(s).binding = b
        /\ Core!CanUnbind(CoreRequest(t))
    BY <1>1, <1>2, <1>7, LookedUp DEF Core!CanUnbind
  <2> HIDE DEF CoreRequest, CoreSession
  <2>2. Core!Unbind(t)
    <3>1. s \in Sessions
      BY <1>1, <1>2, <1>7, LookedUp
    <3> QED
      BY <1>2, <1>4, <1>5, <1>6, <2>1, <3>1, EndCore, CoreSame DEF Core!Unbind
  <2> QED
    BY <2>2 DEF CoreStep, Core!Next, Core!ClientStep
<1>8. CASE tx[t].op = "adminUnbind"
  <2>1. Core!UnbindDevice(b)
    BY <1>2, <1>3, <1>4, <1>5, <1>6, <1>8, EndCore, CoreSame
    DEF Core!UnbindDevice, ClientOps, CoreBinding
  <2> QED
    BY <1>3, <2>1 DEF CoreStep, Core!Next, Core!AdminStep, Core!ManageStep
<1> QED
  BY <1>2, <1>7, <1>8

LEMMA DisconnectStep ==
    ASSUME LockInv, IsolationInv, NEW t \in Transactions, CommitDisconnect(t)
    PROVE  CoreStep
<1>1. PICK b : b = tx[t].binding
  OBVIOUS
<1>2. Statement(t) = "commit" /\ tx[t].op = "disconnect" /\ End(t)
  BY DEF CommitDisconnect, Committing
<1>3. b \in Bindings /\ binding[b].status # "absent"
  BY <1>1, <1>2, PassedAtCommit DEF IsolationInv, Isolated, BindingKept
<1>4. [x \in Sessions |-> CoreSession(x)]' = Core!Without(Core!SessionsOfBinding(b))
  <2>1. Deletes(t) = {x \in Sessions : session[x] = b}
    BY <1>1, <1>2, <1>3, NoneAssumption DEF Deletes, StatusOps
  <2>2. session' = [x \in Sessions |->
                       IF x \in {y \in Sessions : session[y] = b} THEN None ELSE session[x]]
    BY <2>1 DEF CommitDisconnect, WithoutDeleted
  <2> QED
    BY <1>3, <2>2, CoreSessions, CoreWithout
<1>5. Core!Disconnect(b)
  BY <1>2, <1>3, <1>4, EndCore, CoreSame
  DEF Core!Disconnect, ClientOps, CommitDisconnect, CoreBinding
<1> QED
  BY <1>3, <1>5 DEF CoreStep, Core!Next, Core!AdminStep, Core!ManageStep

LEMMA UnbindAllStep ==
    ASSUME LockInv, IsolationInv, NEW t \in Transactions, CommitUnbindAll(t)
    PROVE  CoreStep
<1>1. Statement(t) = "commit" /\ tx[t].op = "unbindAll" /\ End(t)
  BY DEF CommitUnbindAll, Committing
<1>2. LicenseExists
  BY <1>1, PassedAtCommit DEF IsolationInv, Isolated, LicenseKept
<1>3. [x \in Sessions |-> CoreSession(x)]' = Core!Without(Core!SessionsOfLicense("license"))
  <2>1. Deletes(t) = OpenSessions
    BY <1>1 DEF Deletes, StatusOps, OpenSessions
  <2> QED
    BY <2>1, CoreSessions, CoreWithout
    DEF CommitUnbindAll, WithoutDeleted, OpenSessions
<1>4. [x \in Bindings |-> CoreBinding(x)]'
          = [x \in Bindings |->
                IF x \in Core!ActiveBindings("license")
                THEN [CoreBinding(x) EXCEPT !.status = "revoked"] ELSE CoreBinding(x)]
  <2>1. Core!ActiveBindings("license") = ActiveBindings
    BY CoreRows
  <2>2. ASSUME NEW x \in Bindings
        PROVE  CoreBinding(x)' = IF x \in ActiveBindings
                                 THEN [CoreBinding(x) EXCEPT !.status = "revoked"]
                                 ELSE CoreBinding(x)
    <3>1. binding[x] \in BindingRec
      BY DEF LockInv, TypeOK, BindingRec
    <3>2. CASE x \in ActiveBindings
      <4>1. binding'[x] = [binding[x] EXCEPT !.status = "revoked"]
        BY <3>2 DEF CommitUnbindAll
      <4>2. /\ binding'[x].status = "revoked" /\ binding'[x].device = binding[x].device
            /\ binding[x].status # "absent"
        BY <3>1, <3>2, <4>1 DEF BindingRec, ActiveBindings
      <4> QED
        BY <3>2, <4>2 DEF CoreBinding
    <3>3. CASE x \notin ActiveBindings
      <4>1. binding'[x] = binding[x]
        BY <3>3 DEF CommitUnbindAll
      <4> QED
        BY <3>3, <4>1 DEF CoreBinding
    <3> QED
      BY <3>2, <3>3
  <2> HIDE DEF CoreBinding
  <2> QED
    BY <2>1, <2>2
<1>5. Core!UnbindAllDevices("license")
  BY <1>1, <1>2, <1>3, <1>4, EndCore, CoreRows, CoreSame
  DEF Core!UnbindAllDevices, ClientOps, CommitUnbindAll
<1> QED
  BY <1>5 DEF CoreStep, Core!Next, Core!AdminStep, Core!ManageStep

LEMMA DeleteStep ==
    ASSUME LockInv, IsolationInv, NEW t \in Transactions, CommitDelete(t)
    PROVE  CoreStep
<1>1. Statement(t) = "commit" /\ tx[t].op = "delete" /\ End(t)
  BY DEF CommitDelete, Committing
<1>2. LicenseExists
  BY <1>1, PassedAtCommit DEF IsolationInv, Isolated, LicenseKept
<1>3. [x \in Sessions |-> CoreSession(x)]' = Core!Without(Core!SessionsOfLicense("license"))
  <2>1. Deletes(t) = OpenSessions
    BY <1>1 DEF Deletes, StatusOps, OpenSessions
  <2> QED
    BY <2>1, CoreSessions, CoreWithout
    DEF CommitDelete, WithoutDeleted, OpenSessions
<1>4. [x \in Bindings |-> CoreBinding(x)]'
          = [x \in Bindings |->
                IF CoreBinding(x).license = "license" THEN Core!NoBinding ELSE CoreBinding(x)]
  <2>1. ASSUME NEW x \in Bindings
        PROVE  /\ CoreBinding(x)' = Core!NoBinding
               /\ CoreBinding(x).license # "license" => CoreBinding(x) = Core!NoBinding
    <3>1. CoreBinding(x)' = Core!NoBinding
      <4>1. binding'[x].status = "absent" /\ binding'[x].device = None
        BY DEF CommitDelete
      <4> QED
        BY <4>1 DEF CoreBinding, Core!NoBinding
    <3>2. CASE binding[x].status = "absent"
      BY <3>1, <3>2 DEF CoreBinding, Core!NoBinding, IsolationInv, AbsentBlank
    <3>3. CASE binding[x].status # "absent"
      BY <3>1, <3>3 DEF CoreBinding
    <3> QED
      BY <3>2, <3>3
  <2> HIDE DEF CoreBinding
  <2> QED
    BY <2>1
<1>5. [l \in {"license"} |-> CoreLicense]'
          = [[l \in {"license"} |-> CoreLicense] EXCEPT !["license"] = Core!NoLicense]
  <2>1. CoreLicense' = Core!NoLicense
    BY DEF CommitDelete, CoreLicense, LicenseExists, Core!NoLicense, Core!NoTime
  <2> QED
    BY <2>1
<1>6. Core!DeleteLicense("license")
  BY <1>1, <1>2, <1>3, <1>4, <1>5, EndCore, CoreRows, CoreSame
  DEF Core!DeleteLicense, ClientOps, CommitDelete
<1> QED
  BY <1>6 DEF CoreStep, Core!Next, Core!AdminStep

LEMMA StatusStep ==
    ASSUME LockInv, IsolationInv, NEW t \in Transactions, CommitStatus(t)
    PROVE  CoreStep
<1>1. PICK status : status = tx[t].status
  OBVIOUS
<1>2. Statement(t) = "commit" /\ tx[t].op \in StatusOps /\ End(t) /\ tx[t].op # "idle"
  BY DEF CommitStatus, Committing, StatusOps
<1>3. /\ status \in Status
      /\ tx[t].op # "setMerchant" => merchant = "active"
      /\ tx[t].op = "setLicense" => LicenseExists
  BY <1>1, <1>2, PassedAtCommit
  DEF IsolationInv, Isolated, MerchantKept, LicenseKept, RowFirstOps, StatusOps, LockInv,
      AtStatement, Running
<1>4. [x \in Sessions |-> CoreSession(x)]' =
          IF status = "disabled" THEN Core!Without(OpenSessions)
                                 ELSE [x \in Sessions |-> CoreSession(x)]
  <2>1. CASE status = "disabled"
    <3>1. Deletes(t) = OpenSessions
      BY <1>1, <1>2, <2>1 DEF Deletes, StatusOps, OpenSessions
    <3> QED
      BY <2>1, <3>1, CoreWithout DEF CommitStatus, WithoutDeleted, OpenSessions
  <2>2. CASE status # "disabled"
    <3>1. Deletes(t) = {}
      BY <1>1, <1>2, <2>2 DEF Deletes
    <3>2. session' = session
      BY <3>1 DEF CommitStatus, WithoutDeleted, LockInv, TypeOK
    <3> QED
      BY <2>2, <3>2, CoreSame
  <2> QED
    BY <2>1, <2>2
<1>5. UNCHANGED [x \in Bindings |-> CoreBinding(x)]
  BY CoreSame DEF CommitStatus
<1>6. CASE tx[t].op = "setMerchant"
  <2>1. /\ [m \in {"merchant"} |-> merchant]'
               = [[m \in {"merchant"} |-> merchant] EXCEPT !["merchant"] = status]
        /\ UNCHANGED <<app, license>>
    BY <1>1, <1>6 DEF CommitStatus
  <2>2. Core!SetMerchantStatus("merchant", status)
    BY <1>2, <1>4, <1>5, <1>6, <2>1, EndCore, CoreSame, CoreSessions
    DEF Core!SetMerchantStatus, ClientOps
  <2> QED
    BY <1>3, <2>2 DEF CoreStep, Core!Next, Core!AdminStep, Core!ManageStep, Status, Core!Status
<1>7. CASE tx[t].op = "setApp"
  <2>1. /\ [a \in {"app"} |-> app]' = [[a \in {"app"} |-> app] EXCEPT !["app"] = status]
        /\ UNCHANGED <<merchant, license>>
    BY <1>1, <1>7 DEF CommitStatus
  <2>2. Core!SetApplicationStatus("app", status)
    BY <1>2, <1>3, <1>4, <1>5, <1>7, <2>1, EndCore, CoreSame, CoreSessions
    DEF Core!SetApplicationStatus, ClientOps
  <2> QED
    BY <1>3, <2>2 DEF CoreStep, Core!Next, Core!AdminStep, Core!ManageStep, Status, Core!Status
<1>8. CASE tx[t].op = "setLicense"
  <2>1. PICK to : to = IF status = "disabled" THEN "disabled"
                       ELSE IF license.activated THEN "active" ELSE "pending"
    OBVIOUS
  <2>2. license' = [license EXCEPT !.status = to] /\ UNCHANGED <<merchant, app>>
    BY <1>1, <1>8, <2>1 DEF CommitStatus
  <2>3. license'.status = to /\ license'.activated = license.activated
    BY <2>2 DEF LockInv, TypeOK
  <2>4. CoreLicense' = [CoreLicense EXCEPT !.status = to]
    <3>1. LicenseExists'
      BY <2>1, <2>3 DEF LicenseExists
    <3> QED
      BY <1>3, <1>8, <2>3, <3>1 DEF CoreLicense
  <2>5. [l \in {"license"} |-> CoreLicense]'
            = [[l \in {"license"} |-> CoreLicense] EXCEPT !["license"].status = to]
    BY <2>4
  <2>6. /\ CoreLicense.app = "app" /\ 1 < CoreLicense.expiresAt
        /\ CoreLicense.activated = license.activated
    BY <1>3, <1>8 DEF CoreLicense
  <2> HIDE DEF CoreLicense
  <2>7. Core!SetLicenseStatus("license", status)
    BY <1>2, <1>3, <1>4, <1>5, <1>8, <2>1, <2>2, <2>5, <2>6, EndCore, CoreRows, CoreSame,
       CoreSessions
    DEF Core!SetLicenseStatus, ClientOps
  <2> QED
    BY <1>3, <2>7 DEF CoreStep, Core!Next, Core!AdminStep, Core!ManageStep, Status, Core!Status
<1> QED
  BY <1>2, <1>6, <1>7, <1>8 DEF StatusOps

LEMMA CoreInitial == Init => Core!Init
<1> SUFFICES ASSUME Init PROVE Core!Init
  OBVIOUS
<1>1. CoreLicense = Core!NoLicense
  BY DEF Init, CoreLicense, LicenseExists, Core!NoLicense, Core!NoTime
<1>2. \A b \in Bindings : CoreBinding(b) = Core!NoBinding
  BY DEF Init, CoreBinding, Core!NoBinding
<1>3. \A s \in Sessions : CoreSession(s) = Core!NoSession
  BY DEF Init, CoreSession, Core!NoSession, Core!NoTime
<1>4. \A t \in Transactions : CoreRequest(t) = Core!Idle
  BY IdleTyped DEF Init, CoreRequest, Accepted, ClientOps, Core!Idle, Core!NoTime
<1>5. merchant = "active" /\ app = "active"
  BY DEF Init
<1> QED
  BY <1>1, <1>2, <1>3, <1>4, <1>5 DEF Core!Init

LEMMA CoreSteps == LockInv /\ IsolationInv /\ [Next]_vars => CoreStep
<1> SUFFICES ASSUME LockInv, IsolationInv, [Next]_vars PROVE CoreStep
  OBVIOUS
<1>1. CASE UNCHANGED vars
  <2>1. UNCHANGED [t \in Transactions |-> CoreRequest(t)]
    BY <1>1 DEF vars, CoreRequest, Accepted
  <2> QED
    BY <1>1, <2>1, CoreSame DEF vars, CoreStep, Core!vars
<1>2. ASSUME NEW t \in Transactions, StepOf(t)
      PROVE  CoreStep
  <2>1. CASE Commit(t)
    BY <2>1, GenerateStep, ActivateStep, VerifyStep, UnbindStep, DisconnectStep,
       UnbindAllStep, DeleteStep, StatusStep
    DEF Commit
  <2> QED
    BY <1>2, <2>1, QuietStep
<1> QED
  BY <1>1, <1>2, NextIsStep

\* Whatever the statements of concurrent transactions interleave and whichever are rolled
\* back and tried again, each commit is one transaction of LicenseCore.
THEOREM LicensingRefines == Spec => ImplementsLicenseCore
<1>1. Init => LockInv /\ IsolationInv /\ Core!Init
  BY MysqlInitial, IsolationInit, CoreInitial
<1>2. LockInv /\ IsolationInv /\ [Next]_vars => LockInv' /\ IsolationInv'
  BY LockStep, IsolationStep
<1>3. LockInv /\ IsolationInv /\ [Next]_vars => [Core!Next]_(Core!vars)
  BY CoreSteps DEF CoreStep
<1> QED
  BY <1>1, <1>2, <1>3, PTL DEF Spec, ImplementsLicenseCore, Core!Spec

-----------------------------------------------------------------------------
(***************************************************************************)
(* What the refinement gives: the theorems of LicenseCoreProofs, read on   *)
(* the rows of the repositories.                                           *)
(***************************************************************************)
Machine == INSTANCE LicenseCoreProofs WITH
    Merchants <- {"merchant"}, Apps <- {"app"}, Licenses <- {"license"},
    Requests <- Transactions,
    MerchantOf <- [a \in {"app"} |-> "merchant"],
    Delivered <- {}, DeviceLimits <- {0}, Durations <- {}, FixedExpiries <- {2},
    SessionTtl <- 1, MaxTime <- 1,
    merchant <- [m \in {"merchant"} |-> merchant],
    app <- [a \in {"app"} |-> app],
    license <- [l \in {"license"} |-> CoreLicense],
    binding <- [b \in Bindings |-> CoreBinding(b)],
    session <- [s \in Sessions |-> CoreSession(s)],
    pending <- [t \in Transactions |-> CoreRequest(t)],
    clock <- 1

LEMMA MachineAssumptions ==
    /\ Machine!MerchantsAssumption /\ Machine!BoundsAssumption
    /\ Machine!FiniteAssumption /\ Machine!NoneAssumption
<1>1. Machine!MerchantsAssumption
  BY DEF Machine!MerchantsAssumption
<1>2. Machine!BoundsAssumption
  BY DEF Machine!BoundsAssumption
<1>3. Machine!FiniteAssumption
  BY IdsAssumption DEF Machine!FiniteAssumption, IsFiniteSet, Machine!IsFiniteSet
<1>4. Machine!NoneAssumption
  BY NoneAssumption DEF Machine!NoneAssumption
<1> QED
  BY <1>1, <1>2, <1>3, <1>4

\* Machine has the definitions of Core, so every run of the one is a run of the other.
LEMMA MachineSteps == [Core!Next]_(Core!vars) => [Machine!Next]_(Machine!vars)
<1>1. \A r, a, l, d : Core!SubmitActivate(r, a, l, d) => Machine!SubmitActivate(r, a, l, d)
  BY
  DEF Core!SubmitActivate, Machine!SubmitActivate, Core!Submit, Machine!Submit,
      Core!InService, Machine!InService, Core!Exists, Machine!Exists, Core!Idle, Machine!Idle,
      Core!NoTime, Machine!NoTime
<1>2. \A r, a, s, d : Core!SubmitVerify(r, a, s, d) => Machine!SubmitVerify(r, a, s, d)
  BY
  DEF Core!SubmitVerify, Machine!SubmitVerify, Core!Submit, Machine!Submit, Core!InService,
      Machine!InService, Core!Open, Machine!Open, Core!Idle, Machine!Idle, Core!NoTime,
      Machine!NoTime
<1>3. \A r, a, s, d : Core!SubmitUnbind(r, a, s, d) => Machine!SubmitUnbind(r, a, s, d)
  BY
  DEF Core!SubmitUnbind, Machine!SubmitUnbind, Core!Submit, Machine!Submit, Core!Open,
      Machine!Open, Core!Idle, Machine!Idle, Core!NoTime, Machine!NoTime
<1>4. ASSUME NEW r \in Transactions, NEW b, NEW s, Core!Activate(r, b, s)
      PROVE  Machine!Activate(r, b, s)
  <2>1. PICK q : q = CoreRequest(r)
    OBVIOUS
  <2>2. q.op = "activate" /\ q.license = "license" /\ Core!CanActivate(q)
    <3>1. q.op = "activate" /\ Core!CanActivate(q)
      BY <1>4, <2>1 DEF Core!Activate
    <3> QED
      BY <2>1, <3>1 DEF CoreRequest
  <2>3. Machine!SeatFree("license")
    BY DEF Machine!SeatFree, CoreLicense
  <2>4. /\ Core!BindingFor("license", q.device) = Machine!BindingFor("license", q.device)
        /\ Core!FreshSession(s) => Machine!FreshSession(s)
        /\ Core!FreshBinding(b) => Machine!FreshBinding(b)
    BY DEF Core!BindingFor, Machine!BindingFor, Core!ActiveBindings, Machine!ActiveBindings,
           Core!FreshSession, Machine!FreshSession, Core!FreshBinding, Machine!FreshBinding,
           Core!Open, Machine!Open
  <2>5. Machine!CanActivate(q)
    BY <2>2, <2>3
    DEF Core!CanActivate, Machine!CanActivate, Core!InService, Machine!InService,
        Core!Exists, Machine!Exists, Core!Usable, Machine!Usable, Core!NoTime, Machine!NoTime
  <2>6. /\ Core!SessionExpiry("license", q.now) = Machine!SessionExpiry("license", q.now)
        /\ Core!Activated("license", q.now) = Machine!Activated("license", q.now)
    BY DEF Core!TermEnd, Machine!TermEnd, Core!SessionExpiry, Machine!SessionExpiry,
           Core!Earlier, Machine!Earlier, Core!Activated, Machine!Activated
  <2>7. Core!Without(Core!ExpiredSessions(q.now)) = Machine!Without(Machine!ExpiredSessions(q.now))
    BY DEF Core!Without, Machine!Without, Core!ExpiredSessions, Machine!ExpiredSessions,
           Core!Open, Machine!Open, Core!NoSession, Machine!NoSession, Core!NoTime,
           Machine!NoTime
  <2>8. Core!Finish(r) => Machine!Finish(r)
    BY DEF Core!Finish, Machine!Finish, Core!Idle, Machine!Idle, Core!NoTime, Machine!NoTime
  <2>9. [t \in Transactions |-> CoreRequest(t)][r] = q
    BY <2>1
  <2> QED
    BY <1>4, <2>2, <2>4, <2>5, <2>6, <2>7, <2>8, <2>9, Zenon DEF Core!Activate, Machine!Activate
<1>5. \A r : Core!Verify(r) => Machine!Verify(r)
  BY
  DEF Core!Verify, Machine!Verify, Core!CanVerify, Machine!CanVerify, Core!SessionAccepted,
      Machine!SessionAccepted, Core!DeviceMatches, Machine!DeviceMatches, Core!Earlier,
      Machine!Earlier, Core!Finish, Machine!Finish, Core!InService, Machine!InService,
      Core!Exists, Machine!Exists, Core!Usable, Machine!Usable, Core!Open, Machine!Open,
      Core!Idle, Machine!Idle, Core!NoTime, Machine!NoTime
<1>6. \A r : Core!Unbind(r) => Machine!Unbind(r)
  BY
  DEF Core!Unbind, Machine!Unbind, Core!CanUnbind, Machine!CanUnbind, Core!SessionAccepted,
      Machine!SessionAccepted, Core!DeviceMatches, Machine!DeviceMatches, Core!Without,
      Machine!Without, Core!SessionsOfBinding, Machine!SessionsOfBinding, Core!Finish,
      Machine!Finish, Core!InService, Machine!InService, Core!Open, Machine!Open, Core!Idle,
      Machine!Idle, Core!NoTime, Machine!NoTime, Core!NoSession, Machine!NoSession
<1>7. \A r : Core!Reject(r) => Machine!Reject(r)
  BY
  DEF Core!Reject, Machine!Reject, Core!Finish, Machine!Finish, Core!Idle, Machine!Idle,
      Core!NoTime, Machine!NoTime
<1>8. \A a, ls, n, f, m : Core!Generate(a, ls, n, f, m) => Machine!Generate(a, ls, n, f, m)
  BY
  DEF Core!Generate, Machine!Generate, Core!InService, Machine!InService, Core!FreshLicense,
      Machine!FreshLicense, Core!Exists, Machine!Exists, Core!NoTime, Machine!NoTime
<1>9. \A l : Core!UnbindAllDevices(l) => Machine!UnbindAllDevices(l)
  BY
  DEF Core!UnbindAllDevices, Machine!UnbindAllDevices, Core!Exists, Machine!Exists,
      Core!ActiveBindings, Machine!ActiveBindings, Core!Without, Machine!Without,
      Core!SessionsOfLicense, Machine!SessionsOfLicense, Core!NoSession, Machine!NoSession,
      Core!NoTime, Machine!NoTime
<1>10. \A l, y : Core!SetLicenseStatus(l, y) => Machine!SetLicenseStatus(l, y)
  BY
  DEF Core!SetLicenseStatus, Machine!SetLicenseStatus, Core!Exists, Machine!Exists,
      Core!Without, Machine!Without, Core!SessionsOfLicense, Machine!SessionsOfLicense,
      Core!NoSession, Machine!NoSession, Core!NoTime, Machine!NoTime
<1>11. \A b : Core!UnbindDevice(b) => Machine!UnbindDevice(b)
  BY
  DEF Core!UnbindDevice, Machine!UnbindDevice, Core!Without, Machine!Without,
      Core!SessionsOfBinding, Machine!SessionsOfBinding, Core!NoSession, Machine!NoSession,
      Core!NoTime, Machine!NoTime
<1>12. \A b : Core!Disconnect(b) => Machine!Disconnect(b)
  BY
  DEF Core!Disconnect, Machine!Disconnect, Core!Without, Machine!Without,
      Core!SessionsOfBinding, Machine!SessionsOfBinding, Core!NoSession, Machine!NoSession,
      Core!NoTime, Machine!NoTime
<1>13. \A a, y : Core!SetApplicationStatus(a, y) => Machine!SetApplicationStatus(a, y)
  BY
  DEF Core!SetApplicationStatus, Machine!SetApplicationStatus, Core!Without, Machine!Without,
      Core!SessionsOfApp, Machine!SessionsOfApp, Core!NoSession, Machine!NoSession,
      Core!NoTime, Machine!NoTime
<1>14. \A m, y : Core!SetMerchantStatus(m, y) => Machine!SetMerchantStatus(m, y)
  BY
  DEF Core!SetMerchantStatus, Machine!SetMerchantStatus, Core!Without, Machine!Without,
      Core!SessionsOfMerchant, Machine!SessionsOfMerchant, Core!SessionsOfApp,
      Machine!SessionsOfApp, Core!NoSession, Machine!NoSession, Core!NoTime, Machine!NoTime
<1>15. \A l : Core!DeleteLicense(l) => Machine!DeleteLicense(l)
  BY
  DEF Core!DeleteLicense, Machine!DeleteLicense, Core!Exists, Machine!Exists, Core!Without,
      Machine!Without, Core!SessionsOfLicense, Machine!SessionsOfLicense, Core!NoSession,
      Machine!NoSession, Core!NoBinding, Machine!NoBinding, Core!NoLicense, Machine!NoLicense,
      Core!NoTime, Machine!NoTime
<1>16. Core!CleanupSessions => Machine!CleanupSessions
  BY
  DEF Core!CleanupSessions, Machine!CleanupSessions, Core!Without, Machine!Without,
      Core!ExpiredSessions, Machine!ExpiredSessions, Core!Open, Machine!Open, Core!NoSession,
      Machine!NoSession, Core!NoTime, Machine!NoTime
<1>17. \A r \in Transactions : Core!ClientStep(r) => Machine!ClientStep(r)
  BY <1>1, <1>2, <1>3, <1>4, <1>5, <1>6, <1>7 DEF Core!ClientStep, Machine!ClientStep
<1>18. Core!ManageStep => Machine!ManageStep
  BY <1>8, <1>9, <1>10, <1>11, <1>12, <1>13, <1>14
  DEF Core!ManageStep, Machine!ManageStep, Core!Status, Machine!Status, Core!NoTime,
      Machine!NoTime
<1>19. Core!AdminStep => Machine!AdminStep
  BY <1>15, <1>16, <1>18 DEF Core!AdminStep, Machine!AdminStep
<1>20. Core!Tick => Machine!Tick
  BY DEF Core!Tick, Machine!Tick
<1>21. Core!Next => Machine!Next
  BY <1>17, <1>19, <1>20 DEF Core!Next, Machine!Next
<1>22. UNCHANGED Core!vars => UNCHANGED Machine!vars
  BY DEF Core!vars, Machine!vars
<1> QED
  BY <1>21, <1>22

LEMMA MachineRuns == Spec => Machine!Spec
<1>1. Core!Init => Machine!Init
  BY
  DEF Core!Init, Machine!Init, Core!NoLicense, Machine!NoLicense, Core!NoBinding,
      Machine!NoBinding, Core!NoSession, Machine!NoSession, Core!Idle, Machine!Idle,
      Core!NoTime, Machine!NoTime
<1>2. [Core!Next]_(Core!vars) => [Machine!Next]_(Machine!vars)
  BY MachineSteps
<1> QED
  BY <1>1, <1>2, LicensingRefines, PTL DEF ImplementsLicenseCore, Core!Spec, Machine!Spec

LEMMA MysqlInvariant == Spec => []LockInv
BY MysqlInitial, LockStep, PTL DEF Spec

\* A client session row is authority that still stands: its merchant, program and licence
\* are enabled and its binding is active.
RowsHaveAuthority ==
    \A s \in Sessions : session[s] # None =>
        /\ merchant = "active" /\ app = "active" /\ license.status = "active"
        /\ binding[session[s]].status = "active"

\* A device has at most one active binding of the licence.
OneRowPerDevice ==
    \A b, c \in ActiveBindings : binding[b].device = binding[c].device => b = c

\* Bindings do not outlive the licence, and only an activated one has any.
RowsHaveLicense ==
    \A b \in Bindings : binding[b].status # "absent" => LicenseExists /\ license.activated

\* A revoked binding is never active again.
RowStaysRevoked ==
    \A b \in Bindings : binding[b].status = "revoked" => binding'[b].status # "active"

LEMMA AuthorityOfRows ==
    ASSUME LockInv, Machine!SessionsHaveAuthority
    PROVE  RowsHaveAuthority
<1> SUFFICES ASSUME NEW s \in Sessions, session[s] # None
             PROVE  /\ merchant = "active" /\ app = "active" /\ license.status = "active"
                    /\ binding[session[s]].status = "active"
  BY DEF RowsHaveAuthority
<1>1. session[s] \in Bindings
  BY DEF LockInv, TypeOK
<1>2. CoreSession(s) = [app |-> "app", license |-> "license", binding |-> session[s],
                        expiresAt |-> 2]
  BY DEF CoreSession
<1>3. Machine!Open(s)
  BY <1>1, <1>2, NoneAssumption DEF Machine!Open
<1>4. /\ session[s] \in Bindings /\ [x \in Sessions |-> CoreSession(x)][s] = CoreSession(s)
      /\ [x \in Bindings |-> CoreBinding(x)][session[s]] = CoreBinding(session[s])
  BY <1>1
<1>5. PICK c : c = CoreSession(s)
  OBVIOUS
<1>6. c.app = "app" /\ c.license = "license" /\ c.binding = session[s]
  BY <1>2, <1>5
<1>7. /\ app = "active" /\ merchant = "active" /\ CoreLicense.status = "active"
      /\ CoreBinding(session[s]).status = "active"
  BY <1>3, <1>4, <1>5, <1>6 DEF Machine!SessionsHaveAuthority
<1> QED
  BY <1>1, <1>7 DEF CoreLicense, CoreBinding

\* On MySQL too, disabling a merchant, a program or a licence, unbinding a device or deleting
\* the licence leaves no session behind, and no call that is under way brings one back.
THEOREM MysqlSessionAuthority == Spec => []RowsHaveAuthority
<1>1. Machine!Spec => []Machine!SessionsHaveAuthority
  BY MachineAssumptions, Machine!SessionAuthority
<1>2. LockInv /\ Machine!SessionsHaveAuthority => RowsHaveAuthority
  BY AuthorityOfRows
<1> QED
  BY <1>1, <1>2, MachineRuns, MysqlInvariant, PTL

\* On MySQL too, a device holds at most one seat: activating again finds its binding.
THEOREM MysqlOneSeat == Spec => []OneRowPerDevice
<1>1. Machine!Spec => []Machine!OneSeatPerDevice
  BY MachineAssumptions, Machine!OneSeat
<1>2. Machine!OneSeatPerDevice => OneRowPerDevice
  BY DEF Machine!OneSeatPerDevice, OneRowPerDevice, ActiveBindings, CoreBinding
<1> QED
  BY <1>1, <1>2, MachineRuns, PTL

\* On MySQL too, deleting a licence leaves no binding, and a licence without an activation
\* has none.
THEOREM MysqlBindingOwnership == Spec => []RowsHaveLicense
<1>1. Machine!Spec => []Machine!BindingsHaveLicense
  BY MachineAssumptions, Machine!BindingOwnership
<1>2. Machine!BindingsHaveLicense => RowsHaveLicense
  BY DEF Machine!BindingsHaveLicense, RowsHaveLicense, Machine!Exists, CoreBinding, CoreLicense
<1> QED
  BY <1>1, <1>2, MachineRuns, PTL

\* On MySQL too, a revoked binding is never active again, whichever transactions overlap.
THEOREM MysqlRevocationFinal == Spec => [][RowStaysRevoked]_vars
<1>1. Machine!Spec => Machine!RevocationIsFinal
  BY MachineAssumptions, Machine!RevocationFinal
<1>2. Machine!RevocationIsFinal => [][Machine!StaysRevoked]_(Machine!vars)
  BY PTL DEF Machine!RevocationIsFinal, Machine!StaysRevoked
<1>3. [Machine!StaysRevoked]_(Machine!vars) => [RowStaysRevoked]_vars
  <2> SUFFICES ASSUME [Machine!StaysRevoked]_(Machine!vars), NEW b \in Bindings,
                      binding[b].status = "revoked"
               PROVE  binding'[b].status # "active"
    BY DEF RowStaysRevoked
  <2>1. /\ [x \in Bindings |-> CoreBinding(x)][b].status = "revoked"
        /\ [x \in Bindings |-> CoreBinding(x)]'[b].status = binding'[b].status
    BY DEF CoreBinding
  <2>2. CASE UNCHANGED Machine!vars
    <3>1. UNCHANGED [x \in Bindings |-> CoreBinding(x)]
      BY <2>2 DEF Machine!vars
    <3> QED
      BY <2>1, <3>1
  <2>3. CASE Machine!StaysRevoked
    BY <2>1, <2>3 DEF Machine!StaysRevoked
  <2> QED
    BY <2>2, <2>3
<1> QED
  BY <1>1, <1>2, <1>3, MachineRuns, PTL
=============================================================================
