----------------------------- MODULE MysqlOrders -----------------------------
(***************************************************************************)
(* OrderBook on MySQL (mysql-order-repository.js and the repositories of   *)
(* products, licences, merchants and programs that lock the same rows):    *)
(* each transaction as its sequence of locking statements on a pooled      *)
(* connection, deadlock victims, lock wait timeouts, lost connections and  *)
(* the retries of the order repository.                                    *)
(*                                                                         *)
(* Every row is read with FOR UPDATE, so a transaction meets the latest    *)
(* committed rows and writes back, when it commits, the copy it read.  The *)
(* plain SELECT of a program's merchant_id reads a column that never       *)
(* changes and is left out.                                                *)
(***************************************************************************)
EXTENDS OrderBook, Naturals, Sequences, FiniteSets

CONSTANTS
    Transactions,   \* the pool's connections, each running one transaction at a time
    MaxAttempts     \* attempts of createPublic and fulfill

ASSUME AttemptsAssumption == MaxAttempts \in Nat \ {0}
ASSUME PoolAssumption == IsFiniteSet(Transactions)
ASSUME RowsAssumption ==    \* rows of different tables are different
    /\ None \notin Transactions
    /\ {"merchant", "app"} \cap (Products \cup Orders \cup Keys) = {}
    /\ Products \cap Orders = {} /\ Products \cap Keys = {} /\ Orders \cap Keys = {}

VARIABLES
    owner,      \* row -> the transaction that holds its lock
    tx          \* what each connection is running

vars == <<book, owner, tx>>

Rows == {"merchant", "app"} \cup Products \cup Orders \cup Keys

\* Mutant of CreatePublicStatements: the program is locked before its merchant.
CreatePublicAppFirst == <<"app", "merchant", "product", "order", "commit">>

CreatePublicStatements == <<"merchant", "product", "app", "order", "commit">>

\* The rows each repository method locks, in order.  "order" is an insert for create and a
\* SELECT ... FOR UPDATE elsewhere; "history" looks for the order a licence settled and locks
\* the gap it finds instead; "link" is the UPDATE that writes orders.license_id; "audit" is
\* the insert whose foreign key locks the merchant row last.
Program ==
    [createProduct |-> <<"merchant", "app", "product", "commit">>,
     updateProduct |-> <<"product", "audit", "commit">>,
     setProduct    |-> <<"product", "audit", "commit">>,
     setMerchant   |-> <<"merchant", "commit">>,
     setApp        |-> <<"merchant", "app", "commit">>,
     create        |-> CreatePublicStatements,
     fulfill       |-> <<"order", "merchant", "app", "license", "link", "commit">>,
     reject        |-> <<"order", "audit", "commit">>,
     generate      |-> <<"merchant", "app", "license", "commit">>,
     delete        |-> <<"license", "history", "audit", "commit">>]

TxRec == [op : DOMAIN Program \cup {"idle"},
          at : 1..6,
          attempt : 1..MaxAttempts,
          product : Products \cup {None},
          order : Orders \cup {None},
          key : Keys \cup {None},
          terms : Terms \cup {None},        \* asked for, or read from the row
          status : Status \cup {None}]

Idle == [op |-> "idle", at |-> 1, attempt |-> 1, product |-> None, order |-> None,
         key |-> None, terms |-> None, status |-> None]

Init ==
    /\ BookInit
    /\ owner = [r \in Rows |-> None]
    /\ tx = [t \in Transactions |-> Idle]

-----------------------------------------------------------------------------
Statement(t) == IF tx[t].op = "idle" THEN "none" ELSE Program[tx[t].op][tx[t].at]

\* An insert into a unique index: it waits for an uncommitted insert of the same value and
\* not for whoever locked the row by its id.
Inserted(t) == {o \in {tx[t].order} : order[o] = NoOrder}

\* Mutant of Wants: fulfill and reject read the order without locking it.
WantsNoOrder(t) ==
    CASE Statement(t) \in {"merchant", "audit"} -> {"merchant"}
      [] Statement(t) = "app" -> {"app"}
      [] Statement(t) = "product" -> {tx[t].product}
      [] Statement(t) = "order" -> Inserted(t)
      [] Statement(t) = "license" -> {tx[t].key}
      [] OTHER -> {}

\* Mutant of Wants: the statuses of merchant and program are read without locking.
WantsNoStatus(t) ==
    CASE Statement(t) = "product" -> {tx[t].product}
      [] Statement(t) = "order" -> IF tx[t].op = "create" THEN Inserted(t) ELSE {tx[t].order}
      [] Statement(t) = "license" -> {tx[t].key}
      [] Statement(t) = "history" -> {o \in Orders : order[o].key = tx[t].key}
      [] OTHER -> {}

\* The rows t's statement locks.
Wants(t) ==
    CASE Statement(t) \in {"merchant", "audit"} -> {"merchant"}
      [] Statement(t) = "app" -> {"app"}
      [] Statement(t) = "product" -> {tx[t].product}
      [] Statement(t) = "order" -> IF tx[t].op = "create" THEN Inserted(t) ELSE {tx[t].order}
      [] Statement(t) = "license" -> {tx[t].key}
      [] Statement(t) = "history" -> {o \in Orders : order[o].key = tx[t].key}
      [] OTHER -> {}

\* Who holds a row that t's statement locks.
RowHolders(t) == {owner[r] : r \in Wants(t)} \ {None, t}

Blocked(t) == RowHolders(t) # {}

\* Deletions that found no order hold the gap in uq_orders_license in which the licence's
\* entry would be.  Gap locks do not exclude each other, only an insert into the gap.
GapHolders == {u \in Transactions : tx[u].op = "delete" /\ tx[u].at > 2}

\* Statements that add an entry to uq_orders_license: a licence, or the NULL of a new order.
Inserts(t) == Statement(t) = "link" \/ (Statement(t) = "order" /\ tx[t].op = "create")

\* The transactions t's statement waits for, or may wait for: whether a gap, which begins at
\* the NULL entries or at another licence, takes in the new entry depends on random ids.
WaitsFor(t) == RowHolders(t) \cup (IF Inserts(t) THEN GapHolders ELSE {})

Waiting(t) == WaitsFor(t) # {}

\* The number or the key that t's insert would write is taken: ER_DUP_ENTRY.
Collides(t) ==
    \/ Statement(t) = "order" /\ tx[t].op = "create" /\ order[tx[t].order] # NoOrder
    \/ Statement(t) = "license" /\ tx[t].op # "delete" /\ license[tx[t].key].exists

\* Mutant of Passes: fulfill does not look at the order's status.
PassesDecided(t) ==
    LET q == tx[t]
        st == Statement(t) IN
    /\ st = "merchant" /\ q.op # "setMerchant" => merchant = "active"
    /\ st = "app" /\ q.op # "setApp" => app = "active"
    /\ st = "product" /\ q.op = "create" => product[q.product].status = "active"
    /\ st = "product" /\ q.op \in {"updateProduct", "setProduct"} => product[q.product] # NoProduct
    /\ st = "order" /\ q.op \in {"fulfill", "reject"} => order[q.order] # NoOrder
    /\ st = "license" /\ q.op = "delete" => license[q.key].exists
    /\ st = "history" => \A o \in Orders : order[o].key # q.key

\* The checks that follow t's statement.
Passes(t) ==
    LET q == tx[t]
        st == Statement(t) IN
    /\ st = "merchant" /\ q.op # "setMerchant" => merchant = "active"
    /\ st = "app" /\ q.op # "setApp" => app = "active"
    /\ st = "product" /\ q.op = "create" => product[q.product].status = "active"
    /\ st = "product" /\ q.op \in {"updateProduct", "setProduct"} => product[q.product] # NoProduct
    /\ st = "order" /\ q.op \in {"fulfill", "reject"} => order[q.order].status = "pending"
    /\ st = "license" /\ q.op = "delete" => license[q.key].exists
    /\ st = "history" => \A o \in Orders : order[o].key # q.key

-----------------------------------------------------------------------------
\* A connection is taken from the pool and a repository method starts on it.
Begin(t, q) ==
    /\ tx[t] = Idle
    /\ tx' = [tx EXCEPT ![t] = q]
    /\ UNCHANGED <<book, owner>>

\* A new product has a fresh id.
BeginProduct(t, op, p, terms) ==
    /\ op \in {"createProduct", "updateProduct"}
    /\ op = "createProduct" <=> product[p] = NoProduct
    /\ op = "createProduct" => \A u \in Transactions : tx[u].product # p
    /\ Begin(t, [Idle EXCEPT !.op = op, !.product = p, !.terms = terms])

BeginSetProduct(t, p, status) ==
    /\ product[p] # NoProduct
    /\ Begin(t, [Idle EXCEPT !.op = "setProduct", !.product = p, !.status = status])

BeginStatus(t, op, status) ==
    /\ op \in {"setMerchant", "setApp"}
    /\ Begin(t, [Idle EXCEPT !.op = op, !.status = status])

BeginCreate(t, p) ==
    /\ product[p] # NoProduct
    /\ Begin(t, [Idle EXCEPT !.op = "create", !.product = p])

BeginDecide(t, op, o) ==
    /\ op \in {"fulfill", "reject"}
    /\ order[o] # NoOrder
    /\ Begin(t, [Idle EXCEPT !.op = op, !.order = o])

BeginGenerate(t) == Begin(t, [Idle EXCEPT !.op = "generate"])

BeginDelete(t, k) ==
    /\ license[k].exists
    /\ Begin(t, [Idle EXCEPT !.op = "delete", !.key = k])

BeginAny(t) ==
    \/ \E op \in DOMAIN Program, p \in Products, terms \in Terms : BeginProduct(t, op, p, terms)
    \/ \E p \in Products, status \in Status : BeginSetProduct(t, p, status)
    \/ \E op \in DOMAIN Program, status \in Status : BeginStatus(t, op, status)
    \/ \E p \in Products : BeginCreate(t, p)
    \/ \E op \in DOMAIN Program, o \in Orders : BeginDecide(t, op, o)
    \/ BeginGenerate(t)
    \/ \E k \in Keys : BeginDelete(t, k)

Release(t) == owner' = [r \in Rows |-> IF owner[r] = t THEN None ELSE owner[r]]

End(t) ==
    /\ tx' = [tx EXCEPT ![t] = Idle]
    /\ Release(t)

\* What the method goes on with: what the statement read, and, once the program is locked,
\* a random number for a new order or a random key for a new licence, which may be taken.
Read(t) ==
    LET q == tx[t]
        st == Statement(t) IN
    CASE st = "product" /\ q.op \in {"create", "setProduct"} ->
            {[q EXCEPT !.terms = product[q.product].terms]}
      [] st = "order" /\ q.op \in {"fulfill", "reject"} ->
            {[q EXCEPT !.terms = order[q.order].terms]}
      [] st = "app" /\ q.op = "create" -> {[q EXCEPT !.order = o] : o \in Orders}
      [] st = "app" /\ q.op \in {"fulfill", "generate"} -> {[q EXCEPT !.key = k] : k \in Keys}
      [] OTHER -> {q}

\* The statement locks its rows, and its result lets the method go on.
Execute(t) ==
    /\ Statement(t) \notin {"none", "commit"}
    /\ ~Blocked(t) /\ ~Collides(t) /\ Passes(t)
    /\ owner' = [r \in Rows |-> IF r \in Wants(t) THEN t ELSE owner[r]]
    /\ \E q \in Read(t) : tx' = [tx EXCEPT ![t] = [q EXCEPT !.at = @ + 1]]
    /\ UNCHANGED book

\* The method throws and rolls back, or finds the order already decided as asked and commits
\* nothing.
Refuse(t) ==
    /\ Statement(t) \notin {"none", "commit"}
    /\ ~Blocked(t) /\ ~Collides(t) /\ ~Passes(t)
    /\ End(t)
    /\ UNCHANGED book

-----------------------------------------------------------------------------
Committing(t, op) == Statement(t) = "commit" /\ tx[t].op = op

CommitProduct(t) ==
    LET q == tx[t] IN
    /\ \/ /\ Committing(t, "createProduct")
          /\ product' = [product EXCEPT ![q.product] = [status |-> "active", terms |-> q.terms]]
       \/ /\ Committing(t, "updateProduct")
          /\ product' = [product EXCEPT ![q.product].terms = q.terms]
       \/ /\ Committing(t, "setProduct")
          /\ product' = [product EXCEPT ![q.product] = [status |-> q.status, terms |-> q.terms]]
    /\ End(t)
    /\ UNCHANGED <<merchant, app, order, license>>

CommitStatus(t) ==
    /\ \/ Committing(t, "setMerchant") /\ merchant' = tx[t].status /\ app' = app
       \/ Committing(t, "setApp") /\ app' = tx[t].status /\ merchant' = merchant
    /\ End(t)
    /\ UNCHANGED <<product, order, license>>

CommitCreate(t) ==
    /\ Committing(t, "create")
    /\ order' = [order EXCEPT ![tx[t].order] =
                    [status |-> "pending", terms |-> tx[t].terms, key |-> None]]
    /\ End(t)
    /\ UNCHANGED <<merchant, app, product, license>>

\* Mutant of CommitFulfill: the licence gets the terms a product has now.
CommitFulfillCurrentTerms(t) ==
    LET q == tx[t] IN
    /\ Committing(t, "fulfill")
    /\ \E p \in Products :
          license' = [license EXCEPT ![q.key] =
                         [exists |-> TRUE, terms |-> product[p].terms, order |-> q.order]]
    /\ order' = [order EXCEPT ![q.order] =
                    [status |-> "fulfilled", terms |-> q.terms, key |-> q.key]]
    /\ End(t)
    /\ UNCHANGED <<merchant, app, product>>

CommitFulfill(t) ==
    LET q == tx[t] IN
    /\ Committing(t, "fulfill")
    /\ license' = [license EXCEPT ![q.key] =
                      [exists |-> TRUE, terms |-> q.terms, order |-> q.order]]
    /\ order' = [order EXCEPT ![q.order] =
                    [status |-> "fulfilled", terms |-> q.terms, key |-> q.key]]
    /\ End(t)
    /\ UNCHANGED <<merchant, app, product>>

CommitReject(t) ==
    /\ Committing(t, "reject")
    /\ order' = [order EXCEPT ![tx[t].order].status = "rejected"]
    /\ End(t)
    /\ UNCHANGED <<merchant, app, product, license>>

CommitLicense(t) ==
    LET q == tx[t] IN
    /\ \/ /\ Committing(t, "generate")
          /\ license' = [license EXCEPT ![q.key] =
                            [exists |-> TRUE, terms |-> None, order |-> None]]
       \/ /\ Committing(t, "delete")
          /\ license' = [license EXCEPT ![q.key] = NoLicense]
    /\ End(t)
    /\ UNCHANGED <<merchant, app, product, order>>

Commit(t) ==
    \/ CommitProduct(t) \/ CommitStatus(t) \/ CommitCreate(t)
    \/ CommitFulfill(t) \/ CommitReject(t) \/ CommitLicense(t)

-----------------------------------------------------------------------------
\* Transactions that wait for each other in a cycle (or in cycles joined together).
Deadlocked(T) ==
    /\ T # {}
    /\ \A t \in T : WaitsFor(t) \cap T # {}
    /\ \A t \in T : \E u \in T : t \in WaitsFor(u)

\* Mutant of Retryable: the attempts are not counted.
RetryableAlways(t) == Collides(t) \/ Waiting(t)

\* The errors each method tries again: a taken number; a taken key, ER_LOCK_DEADLOCK and
\* ER_LOCK_WAIT_TIMEOUT.
Retryable(t) ==
    /\ tx[t].attempt < MaxAttempts
    /\ \/ tx[t].op \in {"create", "fulfill"} /\ Collides(t) /\ ~Blocked(t)
       \/ tx[t].op = "fulfill" /\ Waiting(t)

\* Rolled back and started again with the same input.
Retry(t) ==
    LET q == tx[t] IN
    /\ Retryable(t)
    /\ tx' = [tx EXCEPT ![t] =
                 [Idle EXCEPT !.op = q.op, !.attempt = q.attempt + 1, !.product = q.product,
                              !.order = IF q.op = "create" THEN None ELSE q.order]]
    /\ Release(t)
    /\ UNCHANGED book

\* The error ends the call: a collision or a lock failure that is not tried again, or, at any
\* statement, a lost connection, a statement timeout or a crash.
Fail(t) ==
    /\ tx[t].op # "idle"
    /\ End(t)
    /\ UNCHANGED book

Next ==
    \E t \in Transactions :
        BeginAny(t) \/ Execute(t) \/ Refuse(t) \/ Commit(t) \/ Retry(t) \/ Fail(t)

Spec == Init /\ [][Next]_vars

(***************************************************************************)
(* Properties.  OneLicensePerOrder, FulfilledOrdersDeliver and             *)
(* OrdersSettleOnce of OrderBook are checked here too.                     *)
(***************************************************************************)

\* Every variable keeps its type.
TypeOK ==
    /\ BookTypeOK
    /\ owner \in [Rows -> Transactions \cup {None}]
    /\ tx \in [Transactions -> TxRec]

\* Every transaction is atomic: whatever the statements interleave and whatever is rolled
\* back or tried again, each commit is a transaction the single-writer JSON store could have
\* run at that moment, checks included.
ImplementsOrderBook == BookSpec

\* A customer's order is not tried again after a deadlock, but it meets one only when an
\* administrator edits a product or deletes a licence: fulfilment, rejection, generation and
\* the status changes never wait in a cycle with orders alone.
OrdersDeadlockOnlyWithAdmin ==
    \A T \in SUBSET Transactions :
        Deadlocked(T) /\ (\E t \in T : tx[t].op = "create") =>
            \E t \in T : tx[t].op \in {"updateProduct", "setProduct", "delete"}
=============================================================================
