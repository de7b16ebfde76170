-------------------------- MODULE MysqlActivation --------------------------
(***************************************************************************)
(* The same licence machine on MySQL (src/storage/repositories): the       *)
(* transactions of one licence as sequences of statements on pooled        *)
(* connections, with InnoDB's row locks, its REPEATABLE READ read view,    *)
(* its deadlock victims and the repositories' retries.                     *)
(*                                                                         *)
(* Locking reads, updates and deletes see the latest committed rows and    *)
(* lock them until the transaction ends; the plain SELECT that begins most *)
(* transactions fixes the read view every later plain SELECT reads from.   *)
(* A transaction's writes become visible when it commits: every row it     *)
(* writes is locked until then or is new.  Time and expiry are left to     *)
(* LicenseCore, whose machine this module is shown to implement, and with  *)
(* them cleanupSessions, which deletes the expired sessions of all         *)
(* licences.                                                               *)
(***************************************************************************)
EXTENDS Integers, Sequences, FiniteSets

CONSTANTS
    Transactions,   \* the pool's connections, each running one transaction at a time
    Devices,
    Bindings,       \* ids of device_bindings rows
    Sessions,       \* client session tokens
    MaxDevices,     \* the licence's maxDevices; 0 is "unlimited"
    MaxAttempts,    \* attempts of #withRetry
    Calls,          \* the repository methods that are called (a bound)
    None

ASSUME PoolAssumption == IsFiniteSet(Transactions) /\ Transactions # {}
ASSUME LimitsAssumption == MaxDevices \in Nat /\ MaxAttempts \in Nat \ {0}
ASSUME IdsAssumption == IsFiniteSet(Bindings) /\ Bindings \cap Sessions = {}
ASSUME NoneAssumption ==
    /\ None \notin Transactions \cup Devices \cup Bindings \cup Sessions
    /\ None \notin {"merchant", "app", "license"}
    /\ {"merchant", "app", "license"} \cap (Bindings \cup Sessions) = {}

VARIABLES
    merchant,   \* merchants.status of the licence's merchant
    app,        \* applications.status of its program
    license,    \* the licences row
    binding,    \* device_bindings rows of the licence
    session,    \* client_sessions: the binding of each token, None when there is no row
    owner,      \* row -> the transaction that holds its exclusive lock
    tx          \* what each connection is running

vars == <<merchant, app, license, binding, session, owner, tx>>

rows == <<merchant, app, license, binding, session>>

Rows == {"merchant", "app", "license"} \cup Bindings \cup Sessions

Status == {"active", "disabled"}

ClientOps == {"activate", "verify", "unbind"}

StatusOps == {"setLicense", "setMerchant", "setApp"}

\* The statements of each repository method, named for the rows they lock: "identity" is
\* the plain SELECT of the owner's id, "merchant" and "app" are the locking reads of
\* #lockActiveApplication, and "audit" is the insert whose foreign key locks the merchant
\* row last.
Program ==
    [generate    |-> <<"identity", "merchant", "app", "commit">>,
     activate    |-> <<"identity", "merchant", "app", "license", "binding", "commit">>,
     verify      |-> <<"identity", "merchant", "app", "session", "license", "binding", "commit">>,
     unbind      |-> <<"identity", "merchant", "app", "session", "binding", "sessions", "commit">>,
     adminUnbind |-> <<"binding", "sessions", "audit", "commit">>,
     disconnect  |-> <<"binding", "sessions", "audit", "commit">>,
     unbindAll   |-> <<"license", "bindings", "sessions", "audit", "commit">>,
     delete      |-> <<"license", "sessions", "bindings", "audit", "commit">>,
     setLicense  |-> <<"identity", "merchant", "license", "sessions", "commit">>,
     setMerchant |-> <<"merchant", "sessions", "commit">>,
     setApp      |-> <<"identity", "merchant", "app", "sessions", "commit">>]

TxRec == [op : DOMAIN Program \cup {"idle"},
          at : 1..7,                        \* the statement it is at
          attempt : 1..MaxAttempts,
          device : Devices \cup {None},
          binding : Bindings \cup {None},   \* the binding read, or the id of a new one
          session : Sessions \cup {None},
          status : Status \cup {None},
          seen : 0..Cardinality(Bindings)]  \* active bindings in its read view

Idle == [op |-> "idle", at |-> 1, attempt |-> 1, device |-> None, binding |-> None,
         session |-> None, status |-> None, seen |-> 0]

Init ==
    /\ merchant = "active"
    /\ app = "active"
    /\ license = [status |-> "none", activated |-> FALSE]
    /\ binding = [b \in Bindings |-> [status |-> "absent", device |-> None]]
    /\ session = [s \in Sessions |-> None]
    /\ owner = [r \in Rows |-> None]
    /\ tx = [t \in Transactions |-> Idle]

-----------------------------------------------------------------------------
Statement(t) == IF tx[t].op = "idle" THEN "none" ELSE Program[tx[t].op][tx[t].at]

LicenseExists == license.status \notin {"none", "deleted"}

ActiveBindings == {b \in Bindings : binding[b].status = "active"}

BindingFor(d) == {b \in ActiveBindings : binding[b].device = d}

\* The session rows the DELETE of t's method matches.
Deletes(t) ==
    {s \in Sessions :
        /\ session[s] # None
        /\ tx[t].op \in {"unbind", "adminUnbind", "disconnect"} => session[s] = tx[t].binding
        /\ tx[t].op \in StatusOps => tx[t].status = "disabled"}

\* disconnect and unbindAll write an audit row only when they changed something.
Audited(t) ==
    /\ tx[t].op = "disconnect" => Deletes(t) # {}
    /\ tx[t].op = "unbindAll" => ActiveBindings # {}

\* Mutant of Wants: the lookups of session and binding rows are plain SELECTs.
WantsNoBinding(t) ==
    CASE Statement(t) = "merchant" -> {"merchant"}
      [] Statement(t) = "app" -> {"app"}
      [] Statement(t) = "license" -> {r \in {"license"} : LicenseExists}
      [] Statement(t) = "sessions" -> Deletes(t)
      [] OTHER -> {}

\* Mutant of Wants: the merchant and program rows are read without a lock.
WantsNoStatusRow(t) ==
    CASE Statement(t) = "audit" -> {r \in {"merchant"} : Audited(t)}
      [] Statement(t) = "license" -> {r \in {"license"} : LicenseExists}
      [] Statement(t) = "session" -> {s \in {tx[t].session} : session[s] # None}
      [] Statement(t) = "binding" ->
            IF tx[t].op = "activate" THEN BindingFor(tx[t].device)
            ELSE {b \in {tx[t].binding} : binding[b].status # "absent"}
      [] Statement(t) \in {"bindings", "sessions"} -> Deletes(t) \cup ActiveBindings
      [] OTHER -> {}

\* The existing rows that t's statement locks.
Wants(t) ==
    LET q == tx[t] IN
    CASE Statement(t) = "merchant" -> {"merchant"}
      [] Statement(t) = "audit" -> {r \in {"merchant"} : Audited(t)}
      [] Statement(t) = "app" -> {"app"}
      [] Statement(t) = "license" -> {r \in {"license"} : LicenseExists}
      [] Statement(t) = "session" -> {s \in {q.session} : session[s] # None}
      [] Statement(t) = "binding" ->
            IF q.op = "activate" THEN BindingFor(q.device)
            ELSE {b \in {q.binding} : binding[b].status # "absent"}
      [] Statement(t) = "bindings" ->
            IF q.op = "unbindAll" THEN ActiveBindings
            ELSE {b \in Bindings : binding[b].status # "absent"}
      [] Statement(t) = "sessions" -> Deletes(t)
      [] OTHER -> {}

\* The transactions whose locks t's statement waits for.
WaitsFor(t) == {owner[r] : r \in Wants(t)} \ {None, t}

Waiting(t) == WaitsFor(t) # {}

\* COUNT(*) is a plain SELECT: it counts the bindings of the read view.
SeatFree(t) == MaxDevices > 0 => tx[t].seen < MaxDevices

\* The checks that follow t's statement.
Passes(t) ==
    LET q == tx[t]
        st == Statement(t) IN
    /\ st = "merchant" /\ q.op # "setMerchant" => merchant = "active"
    /\ st = "app" /\ q.op # "setApp" => app = "active"
    /\ st = "license" => LicenseExists
    /\ st = "license" /\ q.op \in ClientOps => license.status # "disabled"
    /\ st = "session" => session[q.session] # None
    /\ st = "binding" /\ q.op = "activate" => BindingFor(q.device) # {} \/ SeatFree(t)
    /\ st = "binding" /\ q.op \in {"verify", "unbind"} =>
          binding[q.binding].status = "active" /\ binding[q.binding].device = q.device
    /\ st = "binding" /\ q.op = "adminUnbind" => binding[q.binding].status = "active"
    /\ st = "binding" /\ q.op = "disconnect" => binding[q.binding].status # "absent"

-----------------------------------------------------------------------------
\* A connection is taken from the pool and a repository method starts on it.
Begin(t, q) ==
    /\ q.op \in Calls
    /\ tx[t] = Idle
    /\ tx' = [tx EXCEPT ![t] = q]
    /\ UNCHANGED <<rows, owner>>

\* Ids and tokens are random: a new one names no row and is in no other transaction.
FreshBinding(b) == binding[b].status = "absent" /\ \A t \in Transactions : tx[t].binding # b

FreshSession(s) == session[s] = None /\ \A t \in Transactions : tx[t].session # s

\* A key is known to nobody before it is generated.
BeginActivate(t, d, b, s) ==
    /\ license.status # "none"
    /\ FreshBinding(b) /\ FreshSession(s)
    /\ Begin(t, [Idle EXCEPT !.op = "activate", !.device = d, !.binding = b, !.session = s])

BeginWithSession(t, op, d, s) ==
    /\ op \in {"verify", "unbind"}
    /\ session[s] # None
    /\ Begin(t, [Idle EXCEPT !.op = op, !.device = d, !.session = s])

BeginWithBinding(t, op, b) ==
    /\ op \in {"adminUnbind", "disconnect"}
    /\ binding[b].status # "absent"
    /\ Begin(t, [Idle EXCEPT !.op = op, !.binding = b])

BeginWithLicense(t, op) ==
    /\ op \in {"unbindAll", "delete"}
    /\ LicenseExists
    /\ Begin(t, [Idle EXCEPT !.op = op])

BeginStatus(t, op, status) ==
    /\ op \in StatusOps
    /\ op = "setLicense" => LicenseExists
    /\ Begin(t, [Idle EXCEPT !.op = op, !.status = status])

\* The modelled licence is generated once: ids are never used again.
BeginGenerate(t) ==
    /\ license.status = "none"
    /\ \A u \in Transactions : tx[u].op # "generate"
    /\ Begin(t, [Idle EXCEPT !.op = "generate"])

\* A statement that waits for some of its rows keeps the ones it already reached.
Lock(t, r) ==
    /\ Waiting(t)
    /\ r \in Wants(t)
    /\ owner[r] = None
    /\ owner' = [owner EXCEPT ![r] = t]
    /\ UNCHANGED <<rows, tx>>

Release(t) == owner' = [r \in Rows |-> IF owner[r] = t THEN None ELSE owner[r]]

End(t) ==
    /\ tx' = [tx EXCEPT ![t] = Idle]
    /\ Release(t)

\* What the statement read, kept for the later ones.
Read(t) ==
    LET q == tx[t] IN
    CASE Statement(t) = "identity" -> {[q EXCEPT !.seen = Cardinality(ActiveBindings)]}
      [] Statement(t) = "session" -> {[q EXCEPT !.binding = session[q.session]]}
      [] Statement(t) = "binding" /\ q.op = "activate" /\ BindingFor(q.device) # {} ->
            {[q EXCEPT !.binding = b] : b \in BindingFor(q.device)}
      [] OTHER -> {q}

\* The statement locks its rows, and its result lets the method go on.
Execute(t) ==
    /\ Statement(t) \notin {"none", "commit"}
    /\ ~Waiting(t)
    /\ Passes(t)
    /\ owner' = [r \in Rows |-> IF r \in Wants(t) THEN t ELSE owner[r]]
    /\ \E q \in Read(t) : tx' = [tx EXCEPT ![t] = [q EXCEPT !.at = @ + 1]]
    /\ UNCHANGED rows

\* The method throws and rolls back; revoking a revoked binding commits nothing, the same.
Refuse(t) ==
    /\ Statement(t) \notin {"none", "commit"}
    /\ ~Waiting(t)
    /\ ~Passes(t)
    /\ End(t)
    /\ UNCHANGED rows

-----------------------------------------------------------------------------
Committing(t, ops) == Statement(t) = "commit" /\ tx[t].op \in ops

WithoutDeleted(t) == [s \in Sessions |-> IF s \in Deletes(t) THEN None ELSE session[s]]

CommitGenerate(t) ==
    /\ Committing(t, {"generate"})
    /\ license' = [status |-> "pending", activated |-> FALSE]
    /\ End(t)
    /\ UNCHANGED <<merchant, app, binding, session>>

\* INSERT of a new binding, or UPDATE of the one found; both write the whole row.
SaveBinding(t) ==
    binding' = [binding EXCEPT ![tx[t].binding] = [status |-> "active", device |-> tx[t].device]]

CommitActivate(t) ==
    /\ Committing(t, {"activate"})
    /\ license' = IF license.activated THEN license
                  ELSE [status |-> "active", activated |-> TRUE]
    /\ SaveBinding(t)
    /\ session' = [session EXCEPT ![tx[t].session] = tx[t].binding]
    /\ End(t)
    /\ UNCHANGED <<merchant, app>>

CommitVerify(t) ==
    /\ Committing(t, {"verify"})
    /\ SaveBinding(t)
    /\ End(t)
    /\ UNCHANGED <<merchant, app, license, session>>

CommitUnbind(t) ==
    /\ Committing(t, {"unbind", "adminUnbind"})
    /\ binding' = [binding EXCEPT ![tx[t].binding].status = "revoked"]
    /\ session' = WithoutDeleted(t)
    /\ End(t)
    /\ UNCHANGED <<merchant, app, license>>

CommitDisconnect(t) ==
    /\ Committing(t, {"disconnect"})
    /\ session' = WithoutDeleted(t)
    /\ End(t)
    /\ UNCHANGED <<merchant, app, license, binding>>

CommitUnbindAll(t) ==
    /\ Committing(t, {"unbindAll"})
    /\ binding' = [b \in Bindings |->
          IF b \in ActiveBindings THEN [binding[b] EXCEPT !.status = "revoked"]
          ELSE binding[b]]
    /\ session' = WithoutDeleted(t)
    /\ End(t)
    /\ UNCHANGED <<merchant, app, license>>

CommitDelete(t) ==
    /\ Committing(t, {"delete"})
    /\ binding' = [b \in Bindings |-> [status |-> "absent", device |-> None]]
    /\ session' = WithoutDeleted(t)
    /\ license' = [status |-> "deleted", activated |-> FALSE]
    /\ End(t)
    /\ UNCHANGED <<merchant, app>>

CommitStatus(t) ==
    /\ Committing(t, StatusOps)
    /\ merchant' = IF tx[t].op = "setMerchant" THEN tx[t].status ELSE merchant
    /\ app' = IF tx[t].op = "setApp" THEN tx[t].status ELSE app
    /\ license' = IF tx[t].op # "setLicense" THEN license
                  ELSE [license EXCEPT !.status =
                           IF tx[t].status = "disabled" THEN "disabled"
                           ELSE IF license.activated THEN "active" ELSE "pending"]
    /\ session' = WithoutDeleted(t)
    /\ End(t)
    /\ UNCHANGED binding

Commit(t) ==
    \/ CommitGenerate(t) \/ CommitActivate(t) \/ CommitVerify(t) \/ CommitUnbind(t)
    \/ CommitDisconnect(t) \/ CommitUnbindAll(t) \/ CommitDelete(t) \/ CommitStatus(t)

-----------------------------------------------------------------------------
\* Transactions that wait for each other in a cycle (or in cycles joined together).
Deadlocked(T) ==
    /\ T # {}
    /\ \A t \in T : WaitsFor(t) \cap T # {}
    /\ \A t \in T : \E u \in T : t \in WaitsFor(u)

Victim(t) == \E T \in SUBSET Transactions : t \in T /\ Deadlocked(T)

\* Mutant of MayRetry: one attempt too many.
MayRetryInclusive(t) == tx[t].op \in ClientOps /\ tx[t].attempt <= MaxAttempts

\* Only the verification repository wraps its methods in #withRetry.
MayRetry(t) == tx[t].op \in ClientOps /\ tx[t].attempt < MaxAttempts

\* Mutant of Retry: the attempts are not counted.
RetryUncounted(t) ==
    /\ Waiting(t)
    /\ tx[t].op \in ClientOps
    /\ tx' = [tx EXCEPT ![t].at = 1, ![t].seen = 0,
                        ![t].binding = IF tx[t].op = "activate" THEN @ ELSE None]
    /\ Release(t)
    /\ UNCHANGED rows

\* ER_LOCK_DEADLOCK or ER_LOCK_WAIT_TIMEOUT ends a wait: rolled back, and started again with
\* the same input.
Retry(t) ==
    /\ Waiting(t)
    /\ MayRetry(t)
    /\ tx' = [tx EXCEPT ![t].at = 1, ![t].attempt = @ + 1, ![t].seen = 0,
                        ![t].binding = IF tx[t].op = "activate" THEN @ ELSE None]
    /\ Release(t)
    /\ UNCHANGED rows

\* The deadlock is the caller's error.
GiveUp(t) ==
    /\ Victim(t)
    /\ ~MayRetry(t)
    /\ End(t)
    /\ UNCHANGED rows

\* The last attempt's lock wait timeout; or the client-side statement timeout, which destroys
\* the connection and so rolls back: its error is a StorageUnavailableError, which is not
\* retried.  A process crash does the same.
Timeout(t) ==
    /\ Waiting(t)
    /\ End(t)
    /\ UNCHANGED rows

BeginAny(t) ==
    \/ \E d \in Devices, b \in Bindings, s \in Sessions : BeginActivate(t, d, b, s)
    \/ \E op \in ClientOps, d \in Devices, s \in Sessions : BeginWithSession(t, op, d, s)
    \/ \E op \in DOMAIN Program, b \in Bindings : BeginWithBinding(t, op, b)
    \/ \E op \in DOMAIN Program : BeginWithLicense(t, op)
    \/ \E op \in StatusOps, status \in Status : BeginStatus(t, op, status)
    \/ BeginGenerate(t)

Next ==
    \E t \in Transactions :
        \/ BeginAny(t)
        \/ \E r \in Rows : Lock(t, r)
        \/ Execute(t) \/ Refuse(t) \/ Commit(t)
        \/ Retry(t) \/ GiveUp(t) \/ Timeout(t)

Spec == Init /\ [][Next]_vars

\* Lock queues are fair, so a statement whose rows are free again and again is executed;
\* InnoDB detects a deadlock and rolls one victim back.  Nothing makes a timeout or a new
\* call happen.
Fairness ==
    \A t \in Transactions :
        /\ SF_vars(Execute(t) \/ Refuse(t))
        /\ SF_vars(\E r \in Rows : Lock(t, r))
        /\ WF_vars(Commit(t))
        /\ WF_vars(Victim(t) /\ (Retry(t) \/ GiveUp(t)))

FairSpec == Spec /\ Fairness

(***************************************************************************)
(* Refinement: every committed transaction is one atomic transaction of    *)
(* LicenseCore on the same rows, with time standing still and no device    *)
(* limit.  A client call counts as accepted once its lookup (the licence   *)
(* row, or the session row) has passed and is locked.                      *)
(***************************************************************************)
Accepted(t) == tx[t].op \in ClientOps /\ tx[t].at > 4

CoreLicense ==
    [status |-> IF LicenseExists THEN license.status ELSE "absent",
     app |-> IF LicenseExists THEN "app" ELSE None,
     activated |-> license.activated,
     duration |-> 0,
     expiresAt |-> IF LicenseExists THEN 2 ELSE 0,
     maxDevices |-> 0]

CoreBinding(b) ==
    [status |-> binding[b].status,
     license |-> IF binding[b].status = "absent" THEN None ELSE "license",
     device |-> binding[b].device]

CoreSession(s) ==
    IF session[s] = None
    THEN [app |-> None, license |-> None, binding |-> None, expiresAt |-> 0]
    ELSE [app |-> "app", license |-> "license", binding |-> session[s], expiresAt |-> 2]

CoreRequest(t) ==
    IF Accepted(t)
    THEN [op |-> tx[t].op,
          app |-> "app",
          license |-> IF tx[t].op = "activate" THEN "license" ELSE None,
          device |-> tx[t].device,
          session |-> IF tx[t].op = "activate" THEN None ELSE tx[t].session,
          now |-> 1]
    ELSE [op |-> "idle", app |-> None, license |-> None, device |-> None,
          session |-> None, now |-> 0]

Core == INSTANCE LicenseCore WITH
    Merchants <- {"merchant"}, Apps <- {"app"}, Licenses <- {"license"},
    Requests <- Transactions,
    MerchantOf <- [a \in {"app"} |-> "merchant"],
    Delivered <- {}, DeviceLimits <- {0}, Durations <- {}, FixedExpiries <- {2},
    SessionTtl <- 1, MaxTime <- 1,
    merchant <- [m \in {"merchant"} |-> merchant],
    app <- [a \in {"app"} |-> app],
    license <- [l \in {"license"} |-> CoreLicense],
    binding <- [b \in Bindings |-> CoreBinding(b)],
    session <- [s \in Sessions |-> CoreSession(s)],
    pending <- [t \in Transactions |-> CoreRequest(t)],
    clock <- 1

(***************************************************************************)
(* Properties.                                                             *)
(***************************************************************************)

\* Every variable keeps its type.
TypeOK ==
    /\ merchant \in Status /\ app \in Status
    /\ license \in [status : {"none", "pending", "active", "disabled", "deleted"},
                    activated : BOOLEAN]
    /\ binding \in [Bindings -> [status : {"absent", "active", "revoked"},
                                 device : Devices \cup {None}]]
    /\ session \in [Sessions -> Bindings \cup {None}]
    /\ owner \in [Rows -> Transactions \cup {None}]
    /\ tx \in [Transactions -> TxRec]

\* The repositories' row locks make every transaction atomic: whatever the statements of
\* concurrent transactions interleave, and whichever are rolled back and tried again, each
\* commit is a transaction the single-writer JSON store could have run at that moment.  What
\* this does not cover is the device limit (DeviceLimitHolds).
ImplementsLicenseCore == Core!Spec

\* The promise that the device limit is decided atomically.
DeviceLimitHolds ==
    MaxDevices > 0 => Cardinality(ActiveBindings) <= MaxDevices

\* How far the limit can be exceeded: only by activations whose read views were open
\* together, so by fewer bindings than the pool has connections.
OvershootBounded ==
    MaxDevices > 0 =>
        Cardinality(ActiveBindings) <= MaxDevices + Cardinality(Transactions) - 1

\* Client calls take the merchant row first and so never deadlock among themselves: every
\* cycle contains a call of the administration that starts at a binding or a licence row.
DeadlocksNeedAdmin ==
    \A T \in SUBSET Transactions :
        Deadlocked(T) =>
            \E t \in T : tx[t].op \in {"adminUnbind", "disconnect", "unbindAll", "delete"}

\* Every call that got a connection ends, by a commit, a refusal or an error: deadlocks are
\* broken and the victims' retries are bounded.
TransactionsEnd ==
    \A t \in Transactions : tx[t].op # "idle" ~> tx[t].op = "idle"
=============================================================================
