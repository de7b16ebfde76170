------------------------- MODULE MysqlOrdersProofs -------------------------
(***************************************************************************)
(* The storefront for every set of products, orders, keys, terms and       *)
(* connections.  First the atomic OrderBook: a fulfilled order delivers    *)
(* one existing licence on its own terms and no other licence names it,    *)
(* and a decided order never changes.  Then MysqlOrders: what a            *)
(* transaction has read stays true until it commits, because it holds the  *)
(* rows (Holds), so that each commit is the atomic transaction and all of  *)
(* the above holds of MySQL's interleaved statements; and what a           *)
(* transaction holds it has locked in its program's order (Locked), so     *)
(* that an order meets a deadlock only with the edit of a product or the   *)
(* deletion of a licence.                                                  *)
(***************************************************************************)
EXTENDS MysqlOrders, TLAPS

(***************************************************************************)
(* OrderBook.                                                              *)
(***************************************************************************)

\* Only a decided order has a key, and an absent one has nothing at all: what
\* OrdersSettleOnce and the deletion of licences lean on.
PendingHasNoKey ==
    \A o \in Orders :
        /\ order[o].status # "fulfilled" => order[o].key = None
        /\ order[o].status = "absent" => order[o] = NoOrder

BookInv ==
    /\ BookTypeOK
    /\ PendingHasNoKey
    /\ FulfilledOrdersDeliver
    /\ OneLicensePerOrder

\* The empty tables satisfy the invariant.
LEMMA BookInitInv == BookInit => BookInv
  BY NoneAssumption
  DEF BookInit, BookInv, BookTypeOK, PendingHasNoKey, FulfilledOrdersDeliver,
      OneLicensePerOrder, NoProduct, NoOrder, NoLicense, ProductRec, OrderRec,
      LicenseRec, Status

\* An administrative step leaves orders and licences alone.
LEMMA AdminInv ==
  ASSUME BookInv, ProductStep \/ StatusStep
  PROVE  BookInv'
<1>1. UNCHANGED <<order, license>>
  BY DEF ProductStep, StatusStep, CreateProduct, UpdateProduct, SetProductStatus,
         SetMerchantStatus, SetAppStatus
<1>2. BookTypeOK'
  <2>1. CASE StatusStep
    BY <2>1 DEF BookInv, BookTypeOK, StatusStep, SetMerchantStatus, SetAppStatus
  <2>2. CASE ProductStep
    <3>1. PICK p \in Products :
             \/ \E terms \in Terms : CreateProduct(p, terms) \/ UpdateProduct(p, terms)
             \/ \E status \in Status : SetProductStatus(p, status)
      BY <2>2 DEF ProductStep
    <3>2. product' \in [Products -> ProductRec]
      BY <3>1 DEF BookInv, BookTypeOK, CreateProduct, UpdateProduct,
                  SetProductStatus, ProductRec, Status
    <3>3. UNCHANGED <<merchant, app>>
      BY <3>1 DEF CreateProduct, UpdateProduct, SetProductStatus
    <3> QED BY <1>1, <3>2, <3>3 DEF BookInv, BookTypeOK
  <2> QED BY <2>1, <2>2
<1> QED
  BY <1>1, <1>2 DEF BookInv, PendingHasNoKey, FulfilledOrdersDeliver, OneLicensePerOrder

\* A new order is pending and no licence names it yet.
LEMMA CreateInv ==
  ASSUME BookInv, NEW o \in Orders, NEW p \in Products, CreatePublic(o, p)
  PROVE  BookInv'
<1>1. BookTypeOK'
  BY DEF BookInv, BookTypeOK, CreatePublic, OrderRec, ProductRec
<1>2. PendingHasNoKey'
  BY DEF BookInv, BookTypeOK, PendingHasNoKey, CreatePublic, OrderRec, NoOrder
<1>3. FulfilledOrdersDeliver'
  BY DEF BookInv, BookTypeOK, FulfilledOrdersDeliver, CreatePublic, OrderRec
<1>4. OneLicensePerOrder'
  BY DEF BookInv, BookTypeOK, OneLicensePerOrder, CreatePublic, OrderRec, NoOrder
<1> QED BY <1>1, <1>2, <1>3, <1>4 DEF BookInv

\* The licence of a fulfilment is new, so it is no other order's.
LEMMA FulfillInv ==
  ASSUME BookInv, NEW o \in Orders, NEW k \in Keys, Fulfill(o, k)
  PROVE  BookInv'
<1>1. BookTypeOK'
  BY ZenonT(60) DEF BookInv, BookTypeOK, Fulfill, OrderRec, LicenseRec
<1>2. PendingHasNoKey'
  BY DEF BookInv, BookTypeOK, PendingHasNoKey, Fulfill, OrderRec
<1>3. FulfilledOrdersDeliver'
  <2> SUFFICES ASSUME NEW q \in Orders, order'[q].status = "fulfilled"
               PROVE  /\ order'[q].key \in Keys
                      /\ license'[order'[q].key] =
                            [exists |-> TRUE, terms |-> order'[q].terms, order |-> q]
    BY DEF FulfilledOrdersDeliver
  <2>1. /\ order \in [Orders -> OrderRec]
        /\ license \in [Keys -> LicenseRec]
    BY DEF BookInv, BookTypeOK
  <2>2. CASE q = o
    BY <2>1, <2>2 DEF Fulfill, OrderRec
  <2>3. CASE q # o
    <3>1. order'[q] = order[q]
      BY <2>1, <2>3 DEF Fulfill
    <3>2. /\ order[q].key \in Keys
          /\ license[order[q].key] =
                [exists |-> TRUE, terms |-> order[q].terms, order |-> q]
      BY <3>1 DEF BookInv, FulfilledOrdersDeliver
    <3>3. order[q].key # k
      BY <3>2 DEF Fulfill
    <3> QED BY <2>1, <3>1, <3>2, <3>3 DEF Fulfill
  <2> QED BY <2>2, <2>3
<1>4. OneLicensePerOrder'
  BY DEF BookInv, BookTypeOK, OneLicensePerOrder, Fulfill, OrderRec, LicenseRec
<1> QED BY <1>1, <1>2, <1>3, <1>4 DEF BookInv

LEMMA RejectInv ==
  ASSUME BookInv, NEW o \in Orders, Reject(o)
  PROVE  BookInv'
<1>1. BookTypeOK'
  BY DEF BookInv, BookTypeOK, Reject, OrderRec
<1>2. PendingHasNoKey'
  BY DEF BookInv, BookTypeOK, PendingHasNoKey, Reject, OrderRec
<1>3. FulfilledOrdersDeliver'
  BY DEF BookInv, BookTypeOK, FulfilledOrdersDeliver, Reject, OrderRec
<1>4. OneLicensePerOrder'
  BY DEF BookInv, BookTypeOK, OneLicensePerOrder, Reject, OrderRec
<1> QED BY <1>1, <1>2, <1>3, <1>4 DEF BookInv

\* A generated licence names no order, and a deleted one settled none.
LEMMA LicenseInv ==
  ASSUME BookInv, LicenseStep
  PROVE  BookInv'
<1>1. PICK k \in Keys : Generate(k) \/ DeleteLicense(k)
  BY DEF LicenseStep
<1>2. UNCHANGED <<merchant, app, product, order>>
  BY <1>1 DEF DeleteLicense, Generate
<1>3. BookTypeOK' /\ None \notin Orders
  <2>1. license' \in [Keys -> LicenseRec]
    <3>1. CASE DeleteLicense(k)
      BY <3>1 DEF BookInv, BookTypeOK, DeleteLicense, LicenseRec, NoLicense
    <3>2. CASE Generate(k)
      BY <3>2 DEF BookInv, BookTypeOK, Generate, LicenseRec
    <3> QED BY <1>1, <3>1, <3>2
  <2> QED BY <1>2, <2>1, NoneAssumption DEF BookInv, BookTypeOK
<1>4. \A o \in Orders : order[o].status = "fulfilled" => order[o].key # k
  <2>1. CASE DeleteLicense(k)
    BY <2>1 DEF DeleteLicense
  <2>2. CASE ~license[k].exists
    <3> SUFFICES ASSUME NEW o \in Orders, order[o].status = "fulfilled"
                 PROVE  order[o].key # k
      OBVIOUS
    <3>1. license[order[o].key] = [exists |-> TRUE, terms |-> order[o].terms, order |-> o]
      BY DEF BookInv, FulfilledOrdersDeliver
    <3> QED BY <2>2, <3>1
  <2> QED BY <1>1, <2>1, <2>2 DEF Generate
<1>5. FulfilledOrdersDeliver'
  BY <1>1, <1>2, <1>4 DEF BookInv, BookTypeOK, FulfilledOrdersDeliver, DeleteLicense, Generate
<1>6. OneLicensePerOrder'
  BY <1>1, <1>2, <1>3
  DEF BookInv, BookTypeOK, OneLicensePerOrder, DeleteLicense, Generate, NoLicense, LicenseRec
<1> QED BY <1>2, <1>3, <1>5, <1>6 DEF BookInv, PendingHasNoKey

\* Every step of the storefront preserves the invariant.
LEMMA BookStepInv == BookInv /\ [BookNext]_book => BookInv'
<1> SUFFICES ASSUME BookInv, [BookNext]_book PROVE BookInv'
  OBVIOUS
<1>1. CASE ProductStep \/ StatusStep
  BY <1>1, AdminInv
<1>2. CASE OrderStep
  <2>1. PICK o \in Orders :
           \/ \E p \in Products : CreatePublic(o, p)
           \/ \E k \in Keys : Fulfill(o, k)
           \/ Reject(o)
    BY <1>2 DEF OrderStep
  <2> QED BY <2>1, CreateInv, FulfillInv, RejectInv
<1>3. CASE LicenseStep
  BY <1>3, LicenseInv
<1>4. CASE UNCHANGED book
  BY <1>4 DEF book, BookInv, BookTypeOK, PendingHasNoKey, FulfilledOrdersDeliver,
              OneLicensePerOrder
<1> QED BY <1>1, <1>2, <1>3, <1>4 DEF BookNext

LEMMA BookInvariant == BookSpec => []BookInv
  BY BookInitInv, BookStepInv, PTL DEF BookSpec

\* A fulfilled order always delivers an existing licence, made for it on its own terms.
THEOREM OrdersDeliver == BookSpec => []FulfilledOrdersDeliver
  BY BookInvariant, PTL DEF BookInv

\* No order ever has a second licence.
THEOREM LicenseUnique == BookSpec => []OneLicensePerOrder
  BY BookInvariant, PTL DEF BookInv

\* A decided order never changes and a placed one keeps its terms.
THEOREM OrdersFinal == BookSpec => OrdersSettleOnce
<1> DEFINE Settled ==
      \A o \in Orders :
          /\ order[o].status \in {"fulfilled", "rejected"} => order'[o] = order[o]
          /\ order[o].status # "absent" => order'[o].terms = order[o].terms
<1>1. BookInv /\ [BookNext]_book => [Settled]_order
  <2> SUFFICES ASSUME BookInv, BookNext, order' # order PROVE Settled
    BY DEF book
  <2>1. PICK o \in Orders :
           \/ \E p \in Products : CreatePublic(o, p)
           \/ \E k \in Keys : Fulfill(o, k)
           \/ Reject(o)
    BY DEF BookNext, ProductStep, StatusStep, OrderStep, LicenseStep, CreateProduct,
           UpdateProduct, SetProductStatus, SetMerchantStatus, SetAppStatus,
           DeleteLicense, Generate
  <2>2. order \in [Orders -> OrderRec]
    BY DEF BookInv, BookTypeOK
  <2>3. \A q \in Orders : q # o => order'[q] = order[q]
    BY <2>1, <2>2 DEF CreatePublic, Fulfill, Reject
  <2>4. order[o].status \in {"absent", "pending"}
    BY <2>1 DEF CreatePublic, Fulfill, Reject, NoOrder
  <2>5. order[o].status = "pending" => order'[o].terms = order[o].terms
    BY <2>1, <2>2 DEF CreatePublic, Fulfill, Reject, NoOrder, OrderRec
  <2> QED BY <2>3, <2>4, <2>5
<1> QED BY <1>1, BookInvariant, PTL DEF BookSpec, OrdersSettleOnce

(***************************************************************************)
(* MysqlOrders.                                                            *)
(***************************************************************************)

\* t has run its statement st.
Done(t, st) == \E i \in 1..6 : i < tx[t].at /\ Program[tx[t].op][i] = st

\* What each method is called with.
Input(q) ==
    /\ q.op # "idle" => q.at \in 1..Len(Program[q.op])
    /\ q.op = "idle" => q = Idle
    /\ q.op \in {"createProduct", "updateProduct", "setProduct", "create"} => q.product \in Products
    /\ q.op \in {"createProduct", "updateProduct"} => q.terms \in Terms
    /\ q.op \in {"setProduct", "setMerchant", "setApp"} => q.status \in Status
    /\ q.op \in {"fulfill", "reject"} => q.order \in Orders
    /\ q.op = "delete" => q.key \in Keys

\* And the random values it has drawn.
Asked(t) ==
    /\ Input(tx[t])
    /\ tx[t].op = "create" /\ Done(t, "app") => tx[t].order \in Orders
    /\ tx[t].op \in {"fulfill", "generate"} /\ Done(t, "app") => tx[t].key \in Keys

\* A product that is being created is nobody else's business; any other exists.
ProductKnown(t) ==
    LET q == tx[t] IN
    /\ q.op = "createProduct" =>
          /\ product[q.product] = NoProduct
          /\ \A u \in Transactions \ {t} : tx[u].product # q.product
    /\ q.op \in {"updateProduct", "setProduct", "create"} => product[q.product] # NoProduct

\* The rows t has read are locked by it, and what it read there and checked is still so.
Holds(t) ==
    LET q == tx[t] IN
    /\ Done(t, "merchant") =>
          owner["merchant"] = t /\ (q.op # "setMerchant" => merchant = "active")
    /\ Done(t, "app") => owner["app"] = t /\ (q.op # "setApp" => app = "active")
    /\ Done(t, "product") =>
          /\ owner[q.product] = t
          /\ q.op = "create" => product[q.product].status = "active"
          /\ q.op \in {"create", "setProduct"} => q.terms = product[q.product].terms
    /\ Done(t, "order") =>
          /\ owner[q.order] = t
          /\ q.op = "create" => order[q.order] = NoOrder
          /\ q.op \in {"fulfill", "reject"} =>
                order[q.order].status = "pending" /\ q.terms = order[q.order].terms
    /\ Done(t, "license") => owner[q.key] = t /\ (license[q.key].exists <=> q.op = "delete")
    /\ Done(t, "history") => \A o \in Orders : order[o].key # q.key

\* t holds no other row than those its statements named.
Locked(t) ==
    \A r \in Rows : owner[r] = t =>
        \/ r = "merchant" /\ (Done(t, "merchant") \/ Done(t, "audit"))
        \/ r = "app" /\ Done(t, "app")
        \/ r = tx[t].product /\ Done(t, "product")
        \/ r = tx[t].order /\ Done(t, "order")
        \/ r = tx[t].key /\ Done(t, "license")

OrdersInv ==
    /\ BookInv
    /\ TypeOK
    /\ \A t \in Transactions : Asked(t) /\ ProductKnown(t) /\ Holds(t) /\ Locked(t)

-----------------------------------------------------------------------------
\* The statements, method by method.
LEMMA ProgramText ==
    /\ DOMAIN Program = {"createProduct", "updateProduct", "setProduct", "setMerchant", "setApp",
                         "create", "fulfill", "reject", "generate", "delete"}
    /\ Program["createProduct"] = <<"merchant", "app", "product", "commit">>
    /\ Program["updateProduct"] = <<"product", "audit", "commit">>
    /\ Program["setProduct"] = <<"product", "audit", "commit">>
    /\ Program["setMerchant"] = <<"merchant", "commit">>
    /\ Program["setApp"] = <<"merchant", "app", "commit">>
    /\ Program["create"] = <<"merchant", "product", "app", "order", "commit">>
    /\ Program["fulfill"] = <<"order", "merchant", "app", "license", "link", "commit">>
    /\ Program["reject"] = <<"order", "audit", "commit">>
    /\ Program["generate"] = <<"merchant", "app", "license", "commit">>
    /\ Program["delete"] = <<"license", "history", "audit", "commit">>
BY DEF Program, CreatePublicStatements

\* Every program ends with its only commit.
LEMMA ProgramsEnd ==
    \A op \in DOMAIN Program :
        /\ Len(Program[op]) \in 2..6
        /\ \A i \in 1..Len(Program[op]) :
              /\ Program[op][i] = "commit" <=> i = Len(Program[op])
              /\ Program[op][i] # "none"
<1> SUFFICES ASSUME NEW op \in DOMAIN Program
             PROVE  /\ Len(Program[op]) \in 2..6
                    /\ \A i \in 1..Len(Program[op]) :
                          /\ Program[op][i] = "commit" <=> i = Len(Program[op])
                          /\ Program[op][i] # "none"
  OBVIOUS
<1>1. CASE op = "createProduct"
  BY <1>1, ProgramText
<1>2. CASE op = "updateProduct"
  BY <1>2, ProgramText
<1>3. CASE op = "setProduct"
  BY <1>3, ProgramText
<1>4. CASE op = "setMerchant"
  BY <1>4, ProgramText
<1>5. CASE op = "setApp"
  BY <1>5, ProgramText
<1>6. CASE op = "create"
  BY <1>6, ProgramText
<1>7. CASE op = "fulfill"
  BY <1>7, ProgramText
<1>8. CASE op = "reject"
  BY <1>8, ProgramText
<1>9. CASE op = "generate"
  BY <1>9, ProgramText
<1>10. CASE op = "delete"
  BY <1>10, ProgramText
<1> QED
  BY <1>1, <1>2, <1>3, <1>4, <1>5, <1>6, <1>7, <1>8, <1>9, <1>10, ProgramText

\* Which methods run which statement, and what they have run before it.
LEMMA ProgramsOrder ==
    ASSUME NEW op \in DOMAIN Program, NEW i \in 1..Len(Program[op])
    PROVE  /\ Program[op][i] = "product" => op \in {"createProduct", "updateProduct", "setProduct", "create"}
           /\ Program[op][i] = "order" => op \in {"create", "fulfill", "reject"}
           /\ Program[op][i] = "order" /\ op = "create" => i = 4
           /\ Program[op][i] = "license" => op \in {"fulfill", "generate", "delete"}
           /\ Program[op][i] = "license" /\ op = "fulfill" => i = 4
           /\ Program[op][i] = "license" /\ op = "generate" => i = 3
           /\ Program[op][i] = "app" =>
                 /\ op \in {"createProduct", "setApp", "create", "fulfill", "generate"}
                 /\ \E j \in 1..6 : j < i /\ Program[op][j] = "merchant"
           /\ Program[op][i] = "history" => op = "delete" /\ i = 2
           /\ Program[op][i] = "link" => op = "fulfill"
           /\ op = "create" => i \in 1..5
<1>1. /\ Program[op][i] = "product" => op \in {"createProduct", "updateProduct", "setProduct", "create"}
      /\ Program[op][i] = "order" => op \in {"create", "fulfill", "reject"}
      /\ Program[op][i] = "license" => op \in {"fulfill", "generate", "delete"}
      /\ Program[op][i] = "link" => op = "fulfill"
  BY ProgramText
<1>2. /\ Program[op][i] = "order" /\ op = "create" => i = 4
      /\ Program[op][i] = "license" /\ op = "fulfill" => i = 4
      /\ Program[op][i] = "license" /\ op = "generate" => i = 3
      /\ Program[op][i] = "history" => op = "delete" /\ i = 2
      /\ op = "create" => i \in 1..5
  <2>1. ASSUME op = "create" PROVE i \in 1..5 /\ (Program[op][i] = "order" => i = 4)
    BY <2>1, ProgramText
  <2>2. ASSUME op = "fulfill", Program[op][i] = "license" PROVE i = 4
    BY <2>2, ProgramText
  <2>3. ASSUME op = "generate", Program[op][i] = "license" PROVE i = 3
    BY <2>3, ProgramText
  <2>4. ASSUME Program[op][i] = "history" PROVE op = "delete"
    <3>1. op \notin {"createProduct", "setMerchant", "setApp", "create", "fulfill", "generate"}
      BY <2>4, ProgramText
    <3>2. op \notin {"updateProduct", "setProduct", "reject"}
      BY <2>4, ProgramText
    <3> QED
      BY <3>1, <3>2, ProgramText
  <2>5. ASSUME op = "delete", Program[op][i] = "history" PROVE i = 2
    BY <2>5, ProgramText
  <2> QED
    BY <2>1, <2>2, <2>3, <2>4, <2>5
<1>3. Program[op][i] = "app" => op \in {"createProduct", "setApp", "create", "fulfill", "generate"}
  BY ProgramText
<1>4. ASSUME Program[op][i] = "app" PROVE \E j \in 1..6 : j < i /\ Program[op][j] = "merchant"
  <2>1. CASE op = "fulfill"
    <3>1. i = 3 /\ Program[op][2] = "merchant"
      BY <1>4, <2>1, ProgramText
    <3> QED
      BY <3>1
  <2>2. CASE op # "fulfill"
    <3>1. i > 1 /\ Program[op][1] = "merchant"
      BY <1>3, <1>4, <2>2, ProgramText
    <3> QED
      BY <3>1
  <2> QED
    BY <2>1, <2>2
<1> QED
  BY <1>1, <1>2, <1>3, <1>4

-----------------------------------------------------------------------------
LEMMA TxTyped ==
    ASSUME OrdersInv, NEW t \in Transactions
    PROVE  /\ tx[t] \in TxRec
           /\ tx[t].op # "idle" => tx[t].op \in DOMAIN Program /\ tx[t].at \in 1..Len(Program[tx[t].op])
           /\ tx[t].op = "idle" => tx[t] = Idle
           /\ Asked(t) /\ ProductKnown(t) /\ Holds(t) /\ Locked(t)
BY DEF OrdersInv, TypeOK, TxRec, Asked, Input

LEMMA IdleTyped == Idle \in TxRec /\ Idle.op = "idle" /\ Idle.at = 1 /\ Idle.product = None
BY AttemptsAssumption DEF Idle, TxRec

LEMMA NothingDone ==
    ASSUME NEW t, tx'[t].at = 1, NEW st
    PROVE  ~Done(t, st)'
BY DEF Done

LEMMA DoneAdvances ==
    ASSUME NEW t, tx[t].at \in 1..6, tx'[t].at = tx[t].at + 1, tx'[t].op = tx[t].op, NEW st
    PROVE  Done(t, st)' <=> Done(t, st) \/ Program[tx[t].op][tx[t].at] = st
BY DEF Done

\* A transaction that commits has run every statement before.
LEMMA DoneAtCommit ==
    ASSUME OrdersInv, NEW t \in Transactions, Statement(t) = "commit"
    PROVE  LET op == tx[t].op IN
           /\ op \in {"createProduct", "setMerchant", "setApp", "create", "fulfill", "generate"} =>
                 Done(t, "merchant")
           /\ op \in {"createProduct", "setApp", "create", "fulfill", "generate"} => Done(t, "app")
           /\ op \in {"createProduct", "updateProduct", "setProduct", "create"} => Done(t, "product")
           /\ op \in {"create", "fulfill", "reject"} => Done(t, "order")
           /\ op \in {"fulfill", "generate", "delete"} => Done(t, "license")
           /\ op = "delete" => Done(t, "history")
<1> DEFINE op == tx[t].op
<1>1. op \in DOMAIN Program /\ tx[t].at = Len(Program[op])
  BY TxTyped, ProgramsEnd DEF Statement
<1>2. \A i \in 1..6 : i < Len(Program[op]) => Done(t, Program[op][i])
  BY <1>1 DEF Done
<1>3. CASE op = "createProduct"
  BY <1>2, <1>3, ProgramText
<1>4. CASE op \in {"updateProduct", "setProduct"}
  BY <1>2, <1>4, ProgramText
<1>5. CASE op = "setMerchant"
  BY <1>2, <1>5, ProgramText
<1>6. CASE op = "setApp"
  BY <1>2, <1>6, ProgramText
<1>7. CASE op = "create"
  BY <1>2, <1>7, ProgramText
<1>8. CASE op = "fulfill"
  BY <1>2, <1>8, ProgramText
<1>9. CASE op = "reject"
  BY <1>2, <1>9, ProgramText
<1>10. CASE op = "generate"
  BY <1>2, <1>10, ProgramText
<1>11. CASE op = "delete"
  BY <1>2, <1>11, ProgramText
<1> QED
  BY <1>1, <1>3, <1>4, <1>5, <1>6, <1>7, <1>8, <1>9, <1>10, <1>11, ProgramText

\* A row that a transaction has locked, or comes to lock, is one of its table.
LEMMA RowsNamed ==
    ASSUME OrdersInv, NEW t \in Transactions, tx[t].op # "idle",
           NEW i \in 1..6, i <= tx[t].at
    PROVE  /\ Program[tx[t].op][i] = "product" => tx[t].product \in Products
           /\ Program[tx[t].op][i] = "order" => tx[t].order \in Orders
           /\ Program[tx[t].op][i] = "license" => tx[t].key \in Keys
<1> DEFINE op == tx[t].op
<1>1. op \in DOMAIN Program /\ tx[t].at \in 1..Len(Program[op]) /\ Asked(t)
  BY TxTyped
<1>2. i \in 1..Len(Program[op])
  BY <1>1, ProgramsEnd
<1>3. Program[op][i] = "product" => tx[t].product \in Products
  BY <1>1, <1>2, ProgramsOrder DEF Asked, Input
<1>4. op = "create" /\ i = 4 => Done(t, "app")
  <2>1. op = "create" => Program[op][3] = "app"
    BY ProgramText
  <2> QED
    BY <1>1, <2>1 DEF Done
<1>5. Program[op][i] = "order" => tx[t].order \in Orders
  BY <1>1, <1>2, <1>4, ProgramsOrder DEF Asked, Input
<1>6. /\ op = "fulfill" /\ i = 4 => Done(t, "app")
      /\ op = "generate" /\ i = 3 => Done(t, "app")
  <2>1. /\ op = "fulfill" => Program[op][3] = "app"
        /\ op = "generate" => Program[op][2] = "app"
    BY ProgramText
  <2> QED
    BY <1>1, <2>1 DEF Done
<1>7. Program[op][i] = "license" => tx[t].key \in Keys
  BY <1>1, <1>2, <1>6, ProgramsOrder DEF Asked, Input
<1> QED
  BY <1>3, <1>5, <1>7

LEMMA DoneNamed ==
    ASSUME OrdersInv, NEW t \in Transactions
    PROVE  /\ Done(t, "product") => tx[t].product \in Products
           /\ Done(t, "order") => tx[t].order \in Orders
           /\ Done(t, "license") => tx[t].key \in Keys
           /\ Done(t, "history") => Done(t, "license")
           /\ Done(t, "app") => Done(t, "merchant")
<1>1. tx[t].op = "idle" => tx[t].at = 1
  BY TxTyped, IdleTyped
<1>2. tx[t].at \in 1..6
  BY TxTyped DEF TxRec
<1>3. ASSUME NEW st, Done(t, st)
      PROVE  /\ tx[t].op # "idle" /\ tx[t].op \in DOMAIN Program
             /\ \E i \in 1..Len(Program[tx[t].op]) : i < tx[t].at /\ Program[tx[t].op][i] = st
  <2>1. PICK i \in 1..6 : i < tx[t].at /\ Program[tx[t].op][i] = st
    BY <1>3 DEF Done
  <2>2. tx[t].op # "idle"
    BY <1>1, <2>1
  <2>3. tx[t].op \in DOMAIN Program /\ tx[t].at \in 1..Len(Program[tx[t].op])
    BY <2>2, TxTyped
  <2> QED
    BY <2>1, <2>2, <2>3, ProgramsEnd
<1>4. ASSUME Done(t, "product") PROVE tx[t].product \in Products
  <2>1. PICK i \in 1..6 : i < tx[t].at /\ Program[tx[t].op][i] = "product"
    BY <1>4 DEF Done
  <2>2. i <= tx[t].at /\ tx[t].op # "idle"
    BY <1>2, <1>3, <1>4, <2>1
  <2> QED
    BY <2>1, <2>2, RowsNamed
<1>5. ASSUME Done(t, "order") PROVE tx[t].order \in Orders
  <2>1. PICK i \in 1..6 : i < tx[t].at /\ Program[tx[t].op][i] = "order"
    BY <1>5 DEF Done
  <2>2. i <= tx[t].at /\ tx[t].op # "idle"
    BY <1>2, <1>3, <1>5, <2>1
  <2> QED
    BY <2>1, <2>2, RowsNamed
<1>6. ASSUME Done(t, "license") PROVE tx[t].key \in Keys
  <2>1. PICK i \in 1..6 : i < tx[t].at /\ Program[tx[t].op][i] = "license"
    BY <1>6 DEF Done
  <2>2. i <= tx[t].at /\ tx[t].op # "idle"
    BY <1>2, <1>3, <1>6, <2>1
  <2> QED
    BY <2>1, <2>2, RowsNamed
<1>7. Done(t, "history") => Done(t, "license")
  <2> SUFFICES ASSUME Done(t, "history") PROVE Done(t, "license")
    OBVIOUS
  <2>1. PICK i \in 1..Len(Program[tx[t].op]) : i < tx[t].at /\ Program[tx[t].op][i] = "history"
    BY <1>3
  <2>2. tx[t].op = "delete" /\ i = 2
    BY <1>3, <2>1, ProgramsOrder
  <2>3. Program[tx[t].op][1] = "license" /\ 1 < tx[t].at
    BY <1>2, <2>1, <2>2, ProgramText
  <2> QED
    BY <2>3 DEF Done
<1>8. Done(t, "app") => Done(t, "merchant")
  <2> SUFFICES ASSUME Done(t, "app") PROVE Done(t, "merchant")
    OBVIOUS
  <2>1. PICK i \in 1..Len(Program[tx[t].op]) : i < tx[t].at /\ Program[tx[t].op][i] = "app"
    BY <1>3
  <2>2. PICK j \in 1..6 : j < i /\ Program[tx[t].op][j] = "merchant"
    BY <1>3, <2>1, ProgramsOrder, SMTT(30)
  <2>3. j < tx[t].at
    BY <1>2, <1>3, <2>1, <2>2, ProgramsEnd
  <2> QED
    BY <2>2, <2>3 DEF Done
<1> QED
  BY <1>4, <1>5, <1>6, <1>7, <1>8

-----------------------------------------------------------------------------
\* A step of u changes only rows that u has locked, and takes no lock from anybody else.
OwnRowsOnly(u) ==
    /\ merchant' # merchant => owner["merchant"] = u
    /\ app' # app => owner["app"] = u
    /\ \A p \in Products : product'[p] # product[p] => owner[p] = u
    /\ \A o \in Orders : order'[o] # order[o] =>
          owner[o] = u /\ (order'[o].key \in Keys => owner[order'[o].key] = u)
    /\ \A k \in Keys : license'[k] # license[k] => owner[k] = u

Undisturbed(u) ==
    /\ \A t \in Transactions \ {u} :
          tx'[t] = tx[t] /\ \A r \in Rows : owner'[r] = t <=> owner[r] = t
    /\ OwnRowsOnly(u)

LEMMA OthersHold ==
    ASSUME OrdersInv, NEW u \in Transactions, Undisturbed(u), NEW t \in Transactions \ {u}
    PROVE  Asked(t)' /\ Holds(t)' /\ Locked(t)'
<1> DEFINE q == tx[t]
<1>1. tx'[t] = q /\ Asked(t) /\ Holds(t) /\ Locked(t) /\ q \in TxRec
  BY TxTyped DEF Undisturbed, OwnRowsOnly
<1>2. ASSUME NEW st PROVE Done(t, st)' <=> Done(t, st)
  BY <1>1 DEF Done
<1>3. Asked(t)'
  BY <1>1, <1>2 DEF Asked
<1>4. Locked(t)'
  BY <1>1, <1>2 DEF Locked, Undisturbed, OwnRowsOnly
<1>5. /\ "merchant" \in Rows /\ "app" \in Rows
      /\ Products \subseteq Rows /\ Orders \subseteq Rows /\ Keys \subseteq Rows
  BY DEF Rows
<1>6. /\ Done(t, "product") => q.product \in Products
      /\ Done(t, "order") => q.order \in Orders
      /\ Done(t, "license") => q.key \in Keys
      /\ Done(t, "history") => Done(t, "license")
  BY DoneNamed
<1>7. \A r \in Rows : owner[r] = t => owner'[r] = t /\ owner[r] # u
  BY DEF Undisturbed, OwnRowsOnly
<1>8. /\ Done(t, "merchant") =>
            owner'["merchant"] = t /\ (q.op # "setMerchant" => merchant' = "active")
      /\ Done(t, "app") => owner'["app"] = t /\ (q.op # "setApp" => app' = "active")
  BY <1>1, <1>5, <1>7 DEF Holds, Undisturbed, OwnRowsOnly
<1>9. Done(t, "product") => owner'[q.product] = t /\ product'[q.product] = product[q.product]
  BY <1>1, <1>5, <1>6, <1>7 DEF Holds, Undisturbed, OwnRowsOnly
<1>10. Done(t, "order") => owner'[q.order] = t /\ order'[q.order] = order[q.order]
  BY <1>1, <1>5, <1>6, <1>7 DEF Holds, Undisturbed, OwnRowsOnly
<1>11. Done(t, "license") => owner'[q.key] = t /\ license'[q.key] = license[q.key]
  BY <1>1, <1>5, <1>6, <1>7 DEF Holds, Undisturbed, OwnRowsOnly
<1>12. ASSUME Done(t, "history"), NEW o \in Orders PROVE order'[o].key # q.key
  <2>1. q.key \in Keys /\ owner[q.key] = t /\ order[o].key # q.key
    BY <1>1, <1>6, <1>12 DEF Holds
  <2> QED
    BY <1>5, <1>7, <2>1 DEF Undisturbed, OwnRowsOnly
<1>13. Holds(t)'
  BY <1>1, <1>2, <1>8, <1>9, <1>10, <1>11, <1>12 DEF Holds
<1> QED
  BY <1>3, <1>4, <1>13

\* A transaction that ends, is started again or begins holds nothing and has run nothing.
LEMMA RestartKeepsInv ==
    ASSUME OrdersInv, NEW u \in Transactions, NEW q \in TxRec, q.at = 1, Input(q),
           tx' = [tx EXCEPT ![u] = q], Release(u),
           BookInv', OwnRowsOnly(u),
           \A p \in Products :
              /\ product[p] # NoProduct => product'[p] # NoProduct
              /\ product'[p] # product[p] => p = tx[u].product,
           q.op \in {"updateProduct", "setProduct", "create"} => product'[q.product] # NoProduct,
           q.op = "createProduct" => product'[q.product] = NoProduct,
           \/ q.product = None \/ q.product = tx[u].product
           \/ product[q.product] # NoProduct
           \/ \A t \in Transactions : tx[t].product # q.product,
           q.op = "createProduct" => \A t \in Transactions : tx[t].product # q.product
    PROVE  OrdersInv'
<1>1. tx \in [Transactions -> TxRec] /\ owner \in [Rows -> Transactions \cup {None}]
  BY DEF OrdersInv, TypeOK
<1>2. tx' \in [Transactions -> TxRec] /\ tx'[u] = q /\ \A t \in Transactions \ {u} : tx'[t] = tx[t]
  BY <1>1
<1>3. /\ owner' \in [Rows -> Transactions \cup {None}]
      /\ \A r \in Rows : owner'[r] # u
      /\ \A t \in Transactions \ {u}, r \in Rows : owner'[r] = t <=> owner[r] = t
  BY <1>1, RowsAssumption DEF Release
<1>4. TypeOK'
  BY <1>2, <1>3 DEF TypeOK, BookInv
<1>5. Undisturbed(u)
  BY <1>2, <1>3 DEF Undisturbed
<1>6. \A t \in Transactions \ {u} : Asked(t)' /\ Holds(t)' /\ Locked(t)'
  BY <1>5, OthersHold
<1>7. ASSUME NEW st PROVE ~Done(u, st)'
  BY <1>2, NothingDone
<1>8. Asked(u)' /\ Holds(u)' /\ Locked(u)'
  BY <1>2, <1>3, <1>7 DEF Asked, Input, Holds, Locked
<1>9. ProductKnown(u)'
  BY <1>2 DEF ProductKnown
<1>10. ASSUME NEW t \in Transactions \ {u} PROVE ProductKnown(t)'
  <2>1. tx'[t] = tx[t] /\ Asked(t) /\ ProductKnown(t)
    BY <1>2, TxTyped
  <2>2. CASE tx[t].op = "createProduct"
    <3>1. tx[t].product \in Products /\ product[tx[t].product] = NoProduct
      BY <2>1, <2>2 DEF Asked, Input, ProductKnown
    <3>2. tx[t].product # tx[u].product /\ tx[t].product # q.product
      BY <2>1, <2>2, <3>1, NoneAssumption DEF ProductKnown
    <3>3. product'[tx[t].product] = NoProduct
      BY <3>1, <3>2
    <3> QED
      BY <1>2, <2>1, <2>2, <3>2, <3>3 DEF ProductKnown
  <2>3. CASE tx[t].op \in {"updateProduct", "setProduct", "create"}
    BY <2>1, <2>3 DEF ProductKnown, Asked, Input
  <2> QED
    BY <2>1, <2>2, <2>3 DEF ProductKnown
<1> QED
  BY <1>4, <1>6, <1>8, <1>9, <1>10 DEF OrdersInv

LEMMA BookUnchanged ==
    ASSUME OrdersInv, UNCHANGED book, NEW u
    PROVE  /\ BookInv' /\ OwnRowsOnly(u)
           /\ \A p \in Products :
                 /\ product[p] # NoProduct => product'[p] # NoProduct
                 /\ product'[p] # product[p] => p = tx[u].product
<1>1. BookInv /\ [BookNext]_book
  BY DEF OrdersInv
<1>2. BookInv'
  BY <1>1, BookStepInv
<1> QED
  BY <1>2 DEF book, OwnRowsOnly

LEMMA IdleInput == Input(Idle) /\ Idle.product = None /\ Idle.op = "idle" /\ Idle.at = 1
BY DEF Input, Idle

LEMMA AbandonKeepsInv ==
    ASSUME OrdersInv, NEW u \in Transactions, Refuse(u) \/ Fail(u)
    PROVE  OrdersInv'
<1>1. UNCHANGED book /\ tx' = [tx EXCEPT ![u] = Idle] /\ Release(u)
  BY DEF Refuse, Fail, End
<1> QED
  BY <1>1, BookUnchanged, IdleTyped, IdleInput, RestartKeepsInv

LEMMA RestartTyped ==
    ASSUME NEW op \in DOMAIN Program \cup {"idle"}, NEW attempt \in 1..MaxAttempts,
           NEW p \in Products \cup {None}, NEW o \in Orders \cup {None}
    PROVE  [Idle EXCEPT !.op = op, !.attempt = attempt, !.product = p, !.order = o] \in TxRec
BY IdleTyped DEF TxRec

\* Only placing and fulfilling an order are tried again, with what they were called with.
LEMMA RetryKeepsInv ==
    ASSUME OrdersInv, NEW u \in Transactions, Retry(u)
    PROVE  OrdersInv'
<1> DEFINE q == tx[u]
           new == [Idle EXCEPT !.op = q.op, !.attempt = q.attempt + 1, !.product = q.product,
                               !.order = IF q.op = "create" THEN None ELSE q.order]
<1>1. UNCHANGED book /\ tx' = [tx EXCEPT ![u] = new] /\ Release(u)
  BY DEF Retry
<1>2. q \in TxRec /\ q.op \in {"create", "fulfill"} /\ q.attempt < MaxAttempts
      /\ Input(q) /\ ProductKnown(u)
  BY TxTyped DEF Retry, Retryable, Asked
<1>3. /\ new \in TxRec /\ new.at = 1 /\ new.op = q.op /\ new.product = q.product
      /\ q.op = "fulfill" => new.order = q.order
  <2>1. q.attempt + 1 \in 1..MaxAttempts
    BY <1>2, AttemptsAssumption DEF TxRec
  <2>2. new \in TxRec
    <3>1. /\ q.op \in DOMAIN Program \cup {"idle"} /\ q.product \in Products \cup {None}
          /\ (IF q.op = "create" THEN None ELSE q.order) \in Orders \cup {None}
      BY <1>2 DEF TxRec
    <3> QED
      BY <2>1, <3>1, RestartTyped
  <2>3. /\ new.at = 1 /\ new.op = q.op /\ new.product = q.product
        /\ q.op = "fulfill" => new.order = q.order
    BY DEF Idle
  <2> QED
    BY <2>2, <2>3
<1> HIDE DEF new
<1>4. Input(new)
  BY <1>2, <1>3, ProgramsEnd, ProgramText DEF Input
<1>5. new.op = "create" => product'[new.product] # NoProduct
  BY <1>1, <1>2, <1>3 DEF ProductKnown, book
<1>6. new.op \in {"create", "fulfill"} /\ new.product = tx[u].product
  BY <1>2, <1>3
<1> QED
  BY <1>1, <1>3, <1>4, <1>5, <1>6, BookUnchanged, RestartKeepsInv

LEMMA BeginKeeps ==
    ASSUME OrdersInv, NEW u \in Transactions, NEW q \in TxRec, Begin(u, q),
           q.at = 1, q.op \in DOMAIN Program, Input(q),
           q.op \in {"updateProduct", "setProduct", "create"} => product[q.product] # NoProduct,
           q.op = "createProduct" =>
              product[q.product] = NoProduct /\ \A t \in Transactions : tx[t].product # q.product,
           q.op \in {"setMerchant", "setApp", "fulfill", "reject", "generate", "delete"} =>
              q.product = None
    PROVE  OrdersInv'
<1>1. UNCHANGED book /\ tx' = [tx EXCEPT ![u] = q] /\ UNCHANGED owner /\ tx[u] = Idle
  BY DEF Begin
<1>2. \A r \in Rows : owner[r] # u
  BY <1>1, TxTyped, IdleTyped DEF Locked, Done
<1>3. Release(u)
  BY <1>1, <1>2 DEF Release, OrdersInv, TypeOK
<1>4. product' = product
  BY <1>1 DEF book
<1>5. \/ q.product = None \/ product[q.product] # NoProduct
      \/ \A t \in Transactions : tx[t].product # q.product
  BY ProgramText
<1> QED
  BY <1>1, <1>3, <1>4, <1>5, BookUnchanged, RestartKeepsInv

LEMMA BeginKeepsInv ==
    ASSUME OrdersInv, NEW u \in Transactions, BeginAny(u)
    PROVE  OrdersInv'
<1>1. \A op \in DOMAIN Program : 1 \in 1..Len(Program[op])
  <2> TAKE op \in DOMAIN Program
  <2>1. PICK n \in 2..6 : n = Len(Program[op])
    BY ProgramsEnd
  <2>2. 1 \in 1..n
    OBVIOUS
  <2> QED
    BY <2>1, <2>2, Zenon
<1>2. CASE \E op \in DOMAIN Program, p \in Products, terms \in Terms : BeginProduct(u, op, p, terms)
  <2>1. PICK op \in DOMAIN Program, p \in Products, terms \in Terms : BeginProduct(u, op, p, terms)
    BY <1>2
  <2> DEFINE q == [Idle EXCEPT !.op = op, !.product = p, !.terms = terms]
  <2>2. Begin(u, q)
    BY <2>1 DEF BeginProduct
  <2>3. q \in TxRec
    BY <2>1, IdleTyped DEF TxRec
  <2>4. q.at = 1 /\ q.op = op /\ q.product = p /\ q.terms = terms
    BY DEF Idle
  <2> HIDE DEF q
  <2>5. /\ op \in {"createProduct", "updateProduct"}
        /\ op = "updateProduct" => product[p] # NoProduct
        /\ op = "createProduct" => product[p] = NoProduct /\ \A t \in Transactions : tx[t].product # p
    BY <2>1 DEF BeginProduct
  <2>6. Input(q)
    BY <1>1, <2>4, <2>5 DEF Input
  <2> QED
    BY <2>2, <2>3, <2>4, <2>5, <2>6, BeginKeeps
<1>3. CASE \E p \in Products, status \in Status : BeginSetProduct(u, p, status)
  <2>1. PICK p \in Products, status \in Status : BeginSetProduct(u, p, status)
    BY <1>3
  <2> DEFINE q == [Idle EXCEPT !.op = "setProduct", !.product = p, !.status = status]
  <2>2. Begin(u, q) /\ product[p] # NoProduct
    BY <2>1 DEF BeginSetProduct
  <2>3. q \in TxRec /\ "setProduct" \in DOMAIN Program
    BY IdleTyped, ProgramText DEF TxRec
  <2>4. q.at = 1 /\ q.op = "setProduct" /\ q.product = p /\ q.status = status
    BY DEF Idle
  <2> HIDE DEF q
  <2>5. Input(q)
    BY <1>1, <2>3, <2>4 DEF Input
  <2> QED
    BY <2>2, <2>3, <2>4, <2>5, BeginKeeps
<1>4. CASE \E op \in DOMAIN Program, status \in Status : BeginStatus(u, op, status)
  <2>1. PICK op \in DOMAIN Program, status \in Status : BeginStatus(u, op, status)
    BY <1>4
  <2> DEFINE q == [Idle EXCEPT !.op = op, !.status = status]
  <2>2. Begin(u, q) /\ op \in {"setMerchant", "setApp"}
    BY <2>1 DEF BeginStatus
  <2>3. q \in TxRec
    BY <2>1, IdleTyped DEF TxRec
  <2>4. q.at = 1 /\ q.op = op /\ q.product = None /\ q.status = status
    BY DEF Idle
  <2> HIDE DEF q
  <2>5. Input(q)
    BY <1>1, <2>2, <2>4 DEF Input
  <2> QED
    BY <2>2, <2>3, <2>4, <2>5, BeginKeeps
<1>5. CASE \E p \in Products : BeginCreate(u, p)
  <2>1. PICK p \in Products : BeginCreate(u, p)
    BY <1>5
  <2> DEFINE q == [Idle EXCEPT !.op = "create", !.product = p]
  <2>2. Begin(u, q) /\ product[p] # NoProduct
    BY <2>1 DEF BeginCreate
  <2>3. q \in TxRec /\ "create" \in DOMAIN Program
    BY IdleTyped, ProgramText DEF TxRec
  <2>4. q.at = 1 /\ q.op = "create" /\ q.product = p
    BY DEF Idle
  <2> HIDE DEF q
  <2>5. Input(q)
    BY <1>1, <2>3, <2>4 DEF Input
  <2> QED
    BY <2>2, <2>3, <2>4, <2>5, BeginKeeps
<1>6. CASE \E op \in DOMAIN Program, o \in Orders : BeginDecide(u, op, o)
  <2>1. PICK op \in DOMAIN Program, o \in Orders : BeginDecide(u, op, o)
    BY <1>6
  <2> DEFINE q == [Idle EXCEPT !.op = op, !.order = o]
  <2>2. Begin(u, q) /\ op \in {"fulfill", "reject"}
    BY <2>1 DEF BeginDecide
  <2>3. q \in TxRec
    BY <2>1, IdleTyped DEF TxRec
  <2>4. q.at = 1 /\ q.op = op /\ q.product = None /\ q.order = o
    BY DEF Idle
  <2> HIDE DEF q
  <2>5. Input(q)
    BY <1>1, <2>2, <2>4 DEF Input
  <2> QED
    BY <2>2, <2>3, <2>4, <2>5, BeginKeeps
<1>7. CASE BeginGenerate(u)
  <2> DEFINE q == [Idle EXCEPT !.op = "generate"]
  <2>1. Begin(u, q)
    BY <1>7 DEF BeginGenerate
  <2>2. q \in TxRec /\ "generate" \in DOMAIN Program
    BY IdleTyped, ProgramText DEF TxRec
  <2>3. q.at = 1 /\ q.op = "generate" /\ q.product = None
    BY DEF Idle
  <2> HIDE DEF q
  <2>4. Input(q)
    BY <1>1, <2>2, <2>3 DEF Input
  <2> QED
    BY <2>1, <2>2, <2>3, <2>4, BeginKeeps
<1>8. CASE \E k \in Keys : BeginDelete(u, k)
  <2>1. PICK k \in Keys : BeginDelete(u, k)
    BY <1>8
  <2> DEFINE q == [Idle EXCEPT !.op = "delete", !.key = k]
  <2>2. Begin(u, q)
    BY <2>1 DEF BeginDelete
  <2>3. q \in TxRec /\ "delete" \in DOMAIN Program
    BY IdleTyped, ProgramText DEF TxRec
  <2>4. q.at = 1 /\ q.op = "delete" /\ q.product = None /\ q.key = k
    BY DEF Idle
  <2> HIDE DEF q
  <2>5. Input(q)
    BY <1>1, <2>3, <2>4 DEF Input
  <2> QED
    BY <2>2, <2>3, <2>4, <2>5, BeginKeeps
<1> QED
  BY <1>2, <1>3, <1>4, <1>5, <1>6, <1>7, <1>8 DEF BeginAny

-----------------------------------------------------------------------------
\* What a commit writes are rows it holds, and together they are one atomic transaction.
CommitsAtomically(u) ==
    /\ BookNext
    /\ OwnRowsOnly(u)
    /\ \A p \in Products :
          /\ product[p] # NoProduct => product'[p] # NoProduct
          /\ product'[p] # product[p] => p = tx[u].product

LEMMA ProductCommit ==
    ASSUME OrdersInv, NEW u \in Transactions, CommitProduct(u)
    PROVE  CommitsAtomically(u)
<1> DEFINE q == tx[u]
           p == q.product
<1>1. /\ Statement(u) = "commit" /\ q.op \in {"createProduct", "updateProduct", "setProduct"}
      /\ UNCHANGED <<merchant, app, order, license>>
  BY DEF CommitProduct, Committing
<1>2. Input(q) /\ ProductKnown(u) /\ Holds(u) /\ p \in Products
  BY <1>1, TxTyped DEF Asked, Input
<1>3. Done(u, "product") /\ (q.op = "createProduct" => Done(u, "merchant") /\ Done(u, "app"))
  BY <1>1, DoneAtCommit
<1>4. owner[p] = u /\ (q.op = "createProduct" => InService)
  BY <1>2, <1>3 DEF Holds, InService
<1>5. product \in [Products -> ProductRec] /\ product[p] \in ProductRec
  BY <1>2 DEF OrdersInv, BookInv, BookTypeOK
<1>6. BookNext /\ \A x \in Products : x # p => product'[x] = product[x]
  <2>1. CASE q.op = "createProduct"
    <3>1. q.terms \in Terms /\ CreateProduct(p, q.terms)
      BY <1>1, <1>2, <1>4, <2>1 DEF CommitProduct, Committing, CreateProduct, Input, ProductKnown
    <3> QED
      BY <1>2, <1>5, <3>1 DEF CreateProduct, BookNext, ProductStep
  <2>2. CASE q.op = "updateProduct"
    <3>1. q.terms \in Terms /\ UpdateProduct(p, q.terms)
      BY <1>1, <1>2, <2>2 DEF CommitProduct, Committing, UpdateProduct, Input, ProductKnown
    <3> QED
      BY <1>2, <1>5, <3>1 DEF UpdateProduct, BookNext, ProductStep
  <2>3. CASE q.op = "setProduct"
    <3>1. q.status \in Status /\ product[p] # NoProduct /\ q.terms = product[p].terms
      BY <1>2, <1>3, <2>3 DEF Input, ProductKnown, Holds
    <3>2. [status |-> q.status, terms |-> product[p].terms] = [product[p] EXCEPT !.status = q.status]
      BY <1>5 DEF ProductRec
    <3>3. product' = [product EXCEPT ![p] = [status |-> q.status, terms |-> product[p].terms]]
      BY <2>3, <3>1 DEF CommitProduct, Committing
    <3>4. product' = [product EXCEPT ![p].status = q.status]
      BY <3>2, <3>3
    <3>5. SetProductStatus(p, q.status)
      BY <1>1, <3>1, <3>4 DEF SetProductStatus
    <3> QED
      BY <1>2, <1>5, <3>1, <3>3, <3>5 DEF BookNext, ProductStep
  <2> QED
    BY <1>1, <2>1, <2>2, <2>3
<1>7. product'[p] # NoProduct
  <2>1. None \notin Terms /\ "absent" \notin Status
    BY NoneAssumption DEF Status
  <2>2. CASE q.op = "createProduct"
    BY <1>2, <1>5, <2>2 DEF CommitProduct, Committing, NoProduct
  <2>3. CASE q.op = "updateProduct"
    BY <1>2, <1>5, <2>1, <2>3 DEF CommitProduct, Committing, NoProduct, Input, ProductRec
  <2>4. CASE q.op = "setProduct"
    BY <1>2, <1>5, <2>1, <2>4 DEF CommitProduct, Committing, NoProduct, Input
  <2> QED
    BY <1>1, <2>2, <2>3, <2>4
<1> QED
  BY <1>1, <1>4, <1>6, <1>7 DEF CommitsAtomically, OwnRowsOnly

LEMMA StatusCommit ==
    ASSUME OrdersInv, NEW u \in Transactions, CommitStatus(u)
    PROVE  CommitsAtomically(u)
<1>1. /\ Statement(u) = "commit" /\ tx[u].op \in {"setMerchant", "setApp"}
      /\ UNCHANGED <<product, order, license>>
  BY DEF CommitStatus, Committing
<1>2. Input(tx[u]) /\ Holds(u) /\ tx[u].status \in Status
  BY <1>1, TxTyped DEF Asked, Input
<1>3. Done(u, "merchant") /\ (tx[u].op = "setApp" => Done(u, "app"))
  BY <1>1, DoneAtCommit
<1>4. /\ owner["merchant"] = u
      /\ tx[u].op = "setApp" => owner["app"] = u /\ merchant = "active"
  BY <1>2, <1>3 DEF Holds
<1>5. BookNext
  BY <1>1, <1>2, <1>4
  DEF CommitStatus, Committing, SetMerchantStatus, SetAppStatus, BookNext, StatusStep
<1> QED
  BY <1>1, <1>4, <1>5 DEF CommitStatus, Committing, CommitsAtomically, OwnRowsOnly

LEMMA CreateCommit ==
    ASSUME OrdersInv, NEW u \in Transactions, CommitCreate(u)
    PROVE  CommitsAtomically(u)
<1> DEFINE q == tx[u]
           new == [status |-> "pending", terms |-> q.terms, key |-> None]
<1>1. /\ Statement(u) = "commit" /\ q.op = "create"
      /\ order' = [order EXCEPT ![q.order] = new]
      /\ UNCHANGED <<merchant, app, product, license>>
  BY DEF CommitCreate, Committing
<1>2. Done(u, "merchant") /\ Done(u, "product") /\ Done(u, "app") /\ Done(u, "order")
  BY <1>1, DoneAtCommit
<1>3. q.product \in Products /\ q.order \in Orders /\ Holds(u)
  BY <1>2, DoneNamed, TxTyped
<1>4. /\ InService /\ product[q.product].status = "active" /\ q.terms = product[q.product].terms
      /\ order[q.order] = NoOrder /\ owner[q.order] = u
  BY <1>1, <1>2, <1>3 DEF Holds, InService
<1>5. CreatePublic(q.order, q.product)
  BY <1>1, <1>4 DEF CreatePublic
<1>6. BookNext
  BY <1>3, <1>5 DEF BookNext, OrderStep
<1>7. order \in [Orders -> OrderRec]
  BY DEF OrdersInv, BookInv, BookTypeOK
<1>8. \A o \in Orders : order'[o] # order[o] => o = q.order /\ order'[o].key = None
  BY <1>1, <1>7
<1> QED
  BY <1>1, <1>4, <1>6, <1>8, NoneAssumption DEF CommitsAtomically, OwnRowsOnly

LEMMA FulfilledRecord ==
    ASSUME NEW r \in OrderRec, NEW k \in Keys
    PROVE  [status |-> "fulfilled", terms |-> r.terms, key |-> k]
              = [r EXCEPT !.status = "fulfilled", !.key = k]
<1> DEFINE a == [r EXCEPT !.status = "fulfilled"]
<1>1. a \in OrderRec /\ a = [status |-> "fulfilled", terms |-> r.terms, key |-> r.key]
  BY DEF OrderRec
<1>2. [r EXCEPT !.status = "fulfilled", !.key = k] = [a EXCEPT !.key = k]
  BY DEF OrderRec
<1> HIDE DEF a
<1>3. [a EXCEPT !.key = k] = [status |-> "fulfilled", terms |-> r.terms, key |-> k]
  BY <1>1 DEF OrderRec
<1> QED
  BY <1>2, <1>3

LEMMA FulfillCommit ==
    ASSUME OrdersInv, NEW u \in Transactions, CommitFulfill(u)
    PROVE  CommitsAtomically(u)
<1> DEFINE q == tx[u]
           o == q.order
           k == q.key
<1>1. /\ Statement(u) = "commit" /\ q.op = "fulfill"
      /\ license' = [license EXCEPT ![k] = [exists |-> TRUE, terms |-> q.terms, order |-> o]]
      /\ order' = [order EXCEPT ![o] = [status |-> "fulfilled", terms |-> q.terms, key |-> k]]
      /\ UNCHANGED <<merchant, app, product>>
  BY DEF CommitFulfill, Committing
<1>2. Done(u, "merchant") /\ Done(u, "app") /\ Done(u, "order") /\ Done(u, "license")
  BY <1>1, DoneAtCommit
<1>3. o \in Orders /\ k \in Keys /\ Holds(u)
  BY <1>2, DoneNamed, TxTyped
<1>4. /\ InService /\ order[o].status = "pending" /\ q.terms = order[o].terms
      /\ ~license[k].exists /\ owner[o] = u /\ owner[k] = u
  BY <1>1, <1>2, <1>3 DEF Holds, InService
<1>5. order \in [Orders -> OrderRec] /\ license \in [Keys -> LicenseRec] /\ order[o] \in OrderRec
  BY <1>3 DEF OrdersInv, BookInv, BookTypeOK
<1>6. [status |-> "fulfilled", terms |-> order[o].terms, key |-> k]
         = [order[o] EXCEPT !.status = "fulfilled", !.key = k]
  BY <1>3, <1>5, FulfilledRecord
<1>7. order' = [order EXCEPT ![o].status = "fulfilled", ![o].key = k]
  BY <1>1, <1>4, <1>5, <1>6
<1>8. Fulfill(o, k)
  BY <1>1, <1>4, <1>7 DEF Fulfill
<1>9. BookNext
  BY <1>3, <1>8 DEF BookNext, OrderStep
<1>10. /\ \A x \in Orders : order'[x] # order[x] => x = o /\ order'[x].key = k
       /\ \A x \in Keys : license'[x] # license[x] => x = k
  BY <1>1, <1>5
<1> QED
  BY <1>1, <1>4, <1>9, <1>10 DEF CommitsAtomically, OwnRowsOnly

LEMMA RejectCommit ==
    ASSUME OrdersInv, NEW u \in Transactions, CommitReject(u)
    PROVE  CommitsAtomically(u)
<1> DEFINE o == tx[u].order
<1>1. /\ Statement(u) = "commit" /\ tx[u].op = "reject"
      /\ order' = [order EXCEPT ![o].status = "rejected"]
      /\ UNCHANGED <<merchant, app, product, license>>
  BY DEF CommitReject, Committing
<1>2. Done(u, "order")
  BY <1>1, DoneAtCommit
<1>3. o \in Orders /\ Holds(u)
  BY <1>2, DoneNamed, TxTyped
<1>4. order[o].status = "pending" /\ owner[o] = u
  BY <1>1, <1>2, <1>3 DEF Holds
<1>5. BookNext
  BY <1>1, <1>3, <1>4 DEF Reject, BookNext, OrderStep
<1>6. order \in [Orders -> OrderRec] /\ PendingHasNoKey
  BY DEF OrdersInv, BookInv, BookTypeOK
<1>7. \A x \in Orders : order'[x] # order[x] => x = o /\ order'[x].key = None
  BY <1>1, <1>3, <1>4, <1>6 DEF PendingHasNoKey, OrderRec
<1> QED
  BY <1>1, <1>4, <1>5, <1>7, NoneAssumption DEF CommitsAtomically, OwnRowsOnly

LEMMA LicenseCommit ==
    ASSUME OrdersInv, NEW u \in Transactions, CommitLicense(u)
    PROVE  CommitsAtomically(u)
<1> DEFINE k == tx[u].key
<1>1. /\ Statement(u) = "commit" /\ tx[u].op \in {"generate", "delete"}
      /\ UNCHANGED <<merchant, app, product, order>>
  BY DEF CommitLicense, Committing
<1>2. /\ Done(u, "license") /\ (tx[u].op = "delete" => Done(u, "history"))
      /\ tx[u].op = "generate" => Done(u, "merchant") /\ Done(u, "app")
  BY <1>1, DoneAtCommit
<1>3. k \in Keys /\ Holds(u)
  BY <1>2, DoneNamed, TxTyped
<1>4. /\ owner[k] = u /\ (license[k].exists <=> tx[u].op = "delete")
      /\ tx[u].op = "delete" => \A o \in Orders : order[o].key # k
      /\ tx[u].op = "generate" => InService
  BY <1>2, <1>3 DEF Holds, InService
<1>5. BookNext
  <2>1. CASE tx[u].op = "generate"
    <3>1. Generate(k)
      BY <1>1, <1>4, <2>1 DEF CommitLicense, Committing, Generate
    <3> QED
      BY <1>3, <3>1 DEF BookNext, LicenseStep
  <2>2. CASE tx[u].op = "delete"
    <3>1. DeleteLicense(k)
      BY <1>1, <1>4, <2>2 DEF CommitLicense, Committing, DeleteLicense
    <3> QED
      BY <1>3, <3>1 DEF BookNext, LicenseStep
  <2> QED
    BY <1>1, <2>1, <2>2
<1>6. \A x \in Keys : x # k => license'[x] = license[x]
  BY DEF CommitLicense, OrdersInv, BookInv, BookTypeOK
<1> QED
  BY <1>1, <1>4, <1>5, <1>6 DEF CommitsAtomically, OwnRowsOnly

\* Each commit is a transaction of the atomic storefront.
LEMMA CommitKeepsInv ==
    ASSUME OrdersInv, NEW u \in Transactions, Commit(u)
    PROVE  BookNext /\ OrdersInv'
<1>1. CommitsAtomically(u)
  BY ProductCommit, StatusCommit, CreateCommit, FulfillCommit, RejectCommit, LicenseCommit DEF Commit
<1>2. tx' = [tx EXCEPT ![u] = Idle] /\ Release(u)
  BY DEF Commit, CommitProduct, CommitStatus, CommitCreate, CommitFulfill, CommitReject,
         CommitLicense, End
<1>3. BookInv'
  BY <1>1, BookStepInv DEF OrdersInv, CommitsAtomically
<1> QED
  BY <1>1, <1>2, <1>3, IdleTyped, IdleInput, RestartKeepsInv DEF CommitsAtomically

-----------------------------------------------------------------------------
\* What a statement that neither collides nor fails its check locks.
LEMMA WantsNamed ==
    ASSUME NEW u, ~Collides(u), Passes(u)
    PROVE  LET st == Statement(u) IN
           /\ st \in {"merchant", "audit"} => Wants(u) = {"merchant"}
           /\ st = "app" => Wants(u) = {"app"}
           /\ st = "product" => Wants(u) = {tx[u].product}
           /\ st = "order" => Wants(u) = {tx[u].order}
           /\ st = "license" => Wants(u) = {tx[u].key}
           /\ st \notin {"merchant", "audit", "app", "product", "order", "license"} => Wants(u) = {}
<1>1. Statement(u) = "order" => Wants(u) = {tx[u].order}
  BY DEF Wants, Inserted, Collides
<1>2. Statement(u) = "history" => Wants(u) = {}
  BY DEF Wants, Passes
<1> QED
  BY <1>1, <1>2 DEF Wants

\* What the method goes on with.
LEMMA ReadNamed ==
    ASSUME OrdersInv, NEW u \in Transactions, Statement(u) \notin {"none", "commit"},
           NEW q \in Read(u)
    PROVE  LET st == Statement(u)
               op == tx[u].op IN
           /\ q \in TxRec /\ q.op = op /\ q.at = tx[u].at /\ q.attempt = tx[u].attempt
           /\ q.product = tx[u].product /\ q.status = tx[u].status
           /\ IF st = "app" /\ op = "create" THEN q.order \in Orders ELSE q.order = tx[u].order
           /\ IF st = "app" /\ op \in {"fulfill", "generate"} THEN q.key \in Keys ELSE q.key = tx[u].key
           /\ IF st = "product" /\ op \in {"create", "setProduct"}
              THEN q.terms = product[tx[u].product].terms
              ELSE IF st = "order" /\ op \in {"fulfill", "reject"}
              THEN q.terms = order[tx[u].order].terms ELSE q.terms = tx[u].terms
<1> DEFINE st == Statement(u)
           op == tx[u].op
<1>1. tx[u] \in TxRec /\ op # "idle"
  BY TxTyped DEF Statement
<1>2. st = Program[op][tx[u].at] /\ tx[u].at \in 1..6 /\ tx[u].at <= tx[u].at
  BY <1>1 DEF Statement, TxRec
<1>3. /\ st = "product" => product[tx[u].product].terms \in Terms \cup {None}
      /\ st = "order" => order[tx[u].order].terms \in Terms \cup {None}
  BY <1>1, <1>2, RowsNamed DEF OrdersInv, BookInv, BookTypeOK, ProductRec, OrderRec
<1>4. CASE st = "product" /\ op \in {"create", "setProduct"}
  <2>1. q = [tx[u] EXCEPT !.terms = product[tx[u].product].terms]
    BY <1>4 DEF Read
  <2> QED
    BY <1>1, <1>3, <1>4, <2>1 DEF TxRec
<1>5. CASE st = "order" /\ op \in {"fulfill", "reject"}
  <2>1. q = [tx[u] EXCEPT !.terms = order[tx[u].order].terms]
    BY <1>5 DEF Read
  <2> QED
    BY <1>1, <1>3, <1>5, <2>1 DEF TxRec
<1>6. CASE st = "app" /\ op = "create"
  <2>1. PICK o \in Orders : q = [tx[u] EXCEPT !.order = o]
    BY <1>6 DEF Read
  <2> QED
    BY <1>1, <1>6, <2>1 DEF TxRec
<1>7. CASE st = "app" /\ op \in {"fulfill", "generate"}
  <2>1. PICK k \in Keys : q = [tx[u] EXCEPT !.key = k]
    BY <1>7 DEF Read
  <2> QED
    BY <1>1, <1>7, <2>1 DEF TxRec
<1>8. CASE /\ ~(st = "product" /\ op \in {"create", "setProduct"})
           /\ ~(st = "order" /\ op \in {"fulfill", "reject"})
           /\ ~(st = "app" /\ op \in {"create", "fulfill", "generate"})
  <2>1. q = tx[u]
    BY <1>8 DEF Read
  <2> QED
    BY <1>1, <1>8, <2>1
<1> QED
  BY <1>4, <1>5, <1>6, <1>7, <1>8

\* The random values are drawn before they are used.
LEMMA DrawnFirst ==
    ASSUME OrdersInv, NEW u \in Transactions, Statement(u) = "app"
    PROVE  /\ tx[u].op = "create" => ~Done(u, "order")
           /\ tx[u].op \in {"fulfill", "generate"} => ~Done(u, "license")
<1>1. tx[u].op \in DOMAIN Program /\ tx[u].at \in 1..Len(Program[tx[u].op])
      /\ Program[tx[u].op][tx[u].at] = "app"
  BY TxTyped DEF Statement
<1>2. ASSUME tx[u].op = "create" PROVE ~Done(u, "order")
  <2>1. tx[u].at = 3
    BY <1>1, <1>2, ProgramText
  <2> QED
    BY <1>2, <2>1, ProgramText DEF Done
<1>3. ASSUME tx[u].op = "fulfill" PROVE ~Done(u, "license")
  <2>1. tx[u].at = 3
    BY <1>1, <1>3, ProgramText
  <2> QED
    BY <1>3, <2>1, ProgramText DEF Done
<1>4. ASSUME tx[u].op = "generate" PROVE ~Done(u, "license")
  <2>1. tx[u].at = 2
    BY <1>1, <1>4, ProgramText
  <2> QED
    BY <1>4, <2>1, ProgramText DEF Done
<1> QED
  BY <1>2, <1>3, <1>4

LEMMA Advance ==
    ASSUME NEW n \in 2..6, NEW i \in 1..n, i # n
    PROVE  i + 1 \in 1..n /\ i + 1 \in 1..6
OBVIOUS

LEMMA AdvanceTyped ==
    ASSUME NEW q \in TxRec, NEW i \in 1..6, NEW new, new = [q EXCEPT !.at = i]
    PROVE  /\ new \in TxRec /\ new.at = i /\ new.op = q.op
           /\ new.product = q.product /\ new.order = q.order /\ new.key = q.key
           /\ new.terms = q.terms /\ new.status = q.status
<1>1. new \in TxRec
  BY DEF TxRec
<1>2. new.at = i
  BY DEF TxRec
<1>3. new.op = q.op /\ new.product = q.product /\ new.order = q.order
  BY DEF TxRec
<1>4. new.key = q.key /\ new.terms = q.terms /\ new.status = q.status
  BY DEF TxRec
<1> QED
  BY <1>1, <1>2, <1>3, <1>4

\* A statement takes free rows and reads them; nothing that was held is lost.
LEMMA ExecuteKeepsInv ==
    ASSUME OrdersInv, NEW u \in Transactions, Execute(u)
    PROVE  OrdersInv'
<1> DEFINE st == Statement(u)
           op == tx[u].op
           W == Wants(u)
<1>1. /\ st \notin {"none", "commit"} /\ ~Blocked(u) /\ ~Collides(u) /\ Passes(u)
      /\ owner' = [r \in Rows |-> IF r \in W THEN u ELSE owner[r]]
      /\ UNCHANGED book
  BY DEF Execute
<1>2. PICK q \in Read(u) : tx' = [tx EXCEPT ![u] = [q EXCEPT !.at = @ + 1]]
  BY DEF Execute
<1> DEFINE new == [q EXCEPT !.at = @ + 1]
<1>3. /\ op # "idle" /\ op \in DOMAIN Program /\ tx[u].at \in 1..Len(Program[op])
      /\ st = Program[op][tx[u].at] /\ tx[u].at \in 1..6 /\ tx[u].at <= tx[u].at
      /\ Asked(u) /\ ProductKnown(u) /\ Holds(u) /\ Locked(u)
  BY <1>1, TxTyped, ProgramsEnd DEF Statement
<1>4. tx[u].at + 1 \in 1..Len(Program[op]) /\ tx[u].at + 1 \in 1..6
  <2>1. Len(Program[op]) \in 2..6 /\ tx[u].at # Len(Program[op])
    BY <1>1, <1>3, ProgramsEnd
  <2> QED
    BY <1>3, <2>1, Advance
<1>5. q \in TxRec /\ q.op = op /\ q.at = tx[u].at /\ q.product = tx[u].product
      /\ q.status = tx[u].status
  BY <1>1, ReadNamed
<1>6. /\ new \in TxRec /\ new.op = op /\ new.at = tx[u].at + 1 /\ new.product = tx[u].product
      /\ new.status = tx[u].status /\ new.order = q.order /\ new.key = q.key /\ new.terms = q.terms
  <2>1. q.at + 1 \in 1..6 /\ new = [q EXCEPT !.at = q.at + 1]
    BY <1>4, <1>5
  <2> HIDE DEF new
  <2>2. /\ new \in TxRec /\ new.at = q.at + 1 /\ new.op = q.op
        /\ new.product = q.product /\ new.order = q.order /\ new.key = q.key
        /\ new.terms = q.terms /\ new.status = q.status
    BY <1>5, <2>1, AdvanceTyped
  <2> QED
    BY <1>5, <2>2
<1> HIDE DEF new
<1>7. /\ tx' \in [Transactions -> TxRec] /\ tx'[u] = new
      /\ \A t \in Transactions \ {u} : tx'[t] = tx[t]
  BY <1>2, <1>6 DEF OrdersInv, TypeOK, new
<1>8. \A r \in W \cap Rows : owner[r] \in {None, u}
  BY <1>1 DEF Blocked, RowHolders
<1>9. /\ owner' \in [Rows -> Transactions \cup {None}]
      /\ \A r \in Rows : owner[r] = u => owner'[r] = u
      /\ \A t \in Transactions \ {u}, r \in Rows : owner'[r] = t <=> owner[r] = t
  BY <1>1, <1>8, RowsAssumption DEF OrdersInv, TypeOK
<1>10. BookInv' /\ TypeOK'
  BY <1>1, <1>7, <1>9, BookUnchanged DEF TypeOK, BookInv
<1>11. ASSUME NEW t \in Transactions \ {u} PROVE Asked(t)' /\ Holds(t)' /\ Locked(t)'
  <2>1. Undisturbed(u)
    BY <1>1, <1>7, <1>9, BookUnchanged DEF Undisturbed
  <2> QED
    BY <2>1, OthersHold
<1>12. ASSUME NEW t \in Transactions PROVE ProductKnown(t)'
  <2>1. product' = product /\ \A v \in Transactions : tx'[v].op = tx[v].op /\ tx'[v].product = tx[v].product
    BY <1>1, <1>6, <1>7 DEF book
  <2> QED
    BY <2>1, TxTyped DEF ProductKnown
<1>13. ASSUME NEW s PROVE Done(u, s)' <=> Done(u, s) \/ st = s
  BY <1>3, <1>6, <1>7, DoneAdvances
<1>14. /\ q.order = tx[u].order \/ (st = "app" /\ op = "create" /\ ~Done(u, "order") /\ q.order \in Orders)
       /\ q.key = tx[u].key \/ (/\ st = "app" /\ op \in {"fulfill", "generate"}
                                 /\ ~Done(u, "license") /\ q.key \in Keys)
  <2>1. st = "app" => /\ op = "create" => ~Done(u, "order")
                      /\ op \in {"fulfill", "generate"} => ~Done(u, "license")
    BY DrawnFirst
  <2>2. /\ IF st = "app" /\ op = "create" THEN q.order \in Orders ELSE q.order = tx[u].order
        /\ IF st = "app" /\ op \in {"fulfill", "generate"} THEN q.key \in Keys ELSE q.key = tx[u].key
    BY <1>1, ReadNamed
  <2> QED
    BY <2>1, <2>2
<1>15. q.terms = tx[u].terms
       \/ (st = "product" /\ op \in {"create", "setProduct"} /\ q.terms = product[tx[u].product].terms)
       \/ (st = "order" /\ op \in {"fulfill", "reject"} /\ q.terms = order[tx[u].order].terms)
  BY <1>1, ReadNamed
<1>16. Asked(u)'
  <2>1. Input(tx[u])
    BY <1>3 DEF Asked
  <2>2. op \in {"createProduct", "updateProduct"} => q.terms = tx[u].terms
    BY <1>15
  <2>3. Input(new)
    BY <1>3, <1>4, <1>6, <1>14, <2>1, <2>2 DEF Input
  <2>4. op = "create" /\ (Done(u, "app") \/ st = "app") => q.order \in Orders
    <3>1. op = "create" /\ st = "app" => q.order \in Orders
      BY <1>1, ReadNamed
    <3>2. op = "create" /\ Done(u, "app") => tx[u].order \in Orders
      BY <1>3 DEF Asked
    <3> QED
      BY <1>14, <3>1, <3>2
  <2>5. op \in {"fulfill", "generate"} /\ (Done(u, "app") \/ st = "app") => q.key \in Keys
    <3>1. op \in {"fulfill", "generate"} /\ st = "app" => q.key \in Keys
      BY <1>1, ReadNamed
    <3>2. op \in {"fulfill", "generate"} /\ Done(u, "app") => tx[u].key \in Keys
      BY <1>3 DEF Asked
    <3> QED
      BY <1>14, <3>1, <3>2
  <2> QED
    BY <1>6, <1>7, <1>13, <2>3, <2>4, <2>5 DEF Asked
<1>17. /\ st = "product" => tx[u].product \in Products
       /\ st = "order" => tx[u].order \in Orders
       /\ st = "license" => tx[u].key \in Keys
  BY <1>3, RowsNamed
<1>18. /\ "merchant" \in Rows /\ "app" \in Rows
       /\ Products \subseteq Rows /\ Orders \subseteq Rows /\ Keys \subseteq Rows
  BY DEF Rows
<1>19. \A r \in Rows : owner'[r] = u <=> r \in W \/ owner[r] = u
  BY <1>1
<1>20. /\ Done(u, "product") => tx[u].product \in Products
       /\ Done(u, "order") => tx[u].order \in Orders
       /\ Done(u, "license") => tx[u].key \in Keys
       /\ Done(u, "history") => Done(u, "license")
  BY DoneNamed
<1>21. merchant' = merchant /\ app' = app /\ product' = product /\ order' = order
       /\ license' = license
  BY <1>1 DEF book
<1>22. Holds(u)'
  <2>1. Done(u, "merchant") \/ st = "merchant" =>
           owner'["merchant"] = u /\ (op # "setMerchant" => merchant = "active")
    BY <1>1, <1>3, <1>18, <1>19, WantsNamed DEF Holds, Passes
  <2>2. Done(u, "app") \/ st = "app" => owner'["app"] = u /\ (op # "setApp" => app = "active")
    BY <1>1, <1>3, <1>18, <1>19, WantsNamed DEF Holds, Passes
  <2>3. Done(u, "product") \/ st = "product" =>
           /\ owner'[tx[u].product] = u
           /\ op = "create" => product[tx[u].product].status = "active"
    BY <1>1, <1>3, <1>17, <1>18, <1>19, <1>20, WantsNamed DEF Holds, Passes
  <2>4. op \in {"create", "setProduct"} /\ (Done(u, "product") \/ st = "product") =>
           q.terms = product[tx[u].product].terms
    <3>1. ASSUME op \in {"create", "setProduct"}, st = "product"
          PROVE  q.terms = product[tx[u].product].terms
      BY <1>1, <3>1, ReadNamed
    <3>2. ASSUME op \in {"create", "setProduct"}, Done(u, "product"), st # "product"
          PROVE  q.terms = product[tx[u].product].terms
      BY <1>3, <1>15, <3>2 DEF Holds
    <3> QED
      BY <3>1, <3>2
  <2>5. Done(u, "order") \/ st = "order" =>
           /\ q.order = tx[u].order /\ owner'[q.order] = u
           /\ op = "create" => order[q.order] = NoOrder
           /\ op \in {"fulfill", "reject"} =>
                 order[q.order].status = "pending" /\ q.terms = order[q.order].terms
    <3>1. ASSUME st = "order"
          PROVE  /\ q.order = tx[u].order /\ owner'[q.order] = u
                 /\ op = "create" => order[q.order] = NoOrder
                 /\ op \in {"fulfill", "reject"} => order[q.order].status = "pending"
      BY <1>1, <1>14, <1>17, <1>18, <1>19, <3>1, WantsNamed DEF Collides, Passes
    <3>2. st = "order" /\ op \in {"fulfill", "reject"} => q.terms = order[tx[u].order].terms
      BY <1>1, ReadNamed
    <3>3. ASSUME Done(u, "order"), st # "order"
          PROVE  /\ q.order = tx[u].order /\ owner'[q.order] = u
                 /\ op = "create" => order[q.order] = NoOrder
                 /\ op \in {"fulfill", "reject"} =>
                       order[q.order].status = "pending" /\ q.terms = order[q.order].terms
      BY <1>3, <1>14, <1>15, <1>18, <1>19, <1>20, <3>3 DEF Holds
    <3> QED
      BY <3>1, <3>2, <3>3
  <2>6. Done(u, "license") \/ st = "license" =>
           /\ q.key = tx[u].key /\ owner'[q.key] = u
           /\ license[q.key].exists <=> op = "delete"
    <3>1. ASSUME st = "license"
          PROVE  /\ q.key = tx[u].key /\ owner'[q.key] = u
                 /\ license[q.key].exists <=> op = "delete"
      BY <1>1, <1>14, <1>17, <1>18, <1>19, <3>1, WantsNamed DEF Collides, Passes
    <3>2. ASSUME Done(u, "license")
          PROVE  /\ q.key = tx[u].key /\ owner'[q.key] = u
                 /\ license[q.key].exists <=> op = "delete"
      BY <1>3, <1>14, <1>18, <1>19, <1>20, <3>2 DEF Holds
    <3> QED
      BY <3>1, <3>2
  <2>7. Done(u, "history") \/ st = "history" => \A o \in Orders : order[o].key # q.key
    BY <1>1, <1>3, <1>14, <1>20 DEF Holds, Passes
  <2> QED
    BY <1>6, <1>7, <1>13, <1>21, <2>1, <2>2, <2>3, <2>4, <2>5, <2>6, <2>7 DEF Holds
<1>23. Locked(u)'
  <2> SUFFICES ASSUME NEW r \in Rows, owner'[r] = u
               PROVE  \/ r = "merchant" /\ (Done(u, "merchant")' \/ Done(u, "audit")')
                      \/ r = "app" /\ Done(u, "app")'
                      \/ r = new.product /\ Done(u, "product")'
                      \/ r = new.order /\ Done(u, "order")'
                      \/ r = new.key /\ Done(u, "license")'
    BY <1>7 DEF Locked
  <2>1. CASE r \in W
    <3>1. \/ r = "merchant" /\ st \in {"merchant", "audit"}
          \/ r = "app" /\ st = "app"
          \/ r = tx[u].product /\ st = "product"
          \/ r = tx[u].order /\ st = "order"
          \/ r = tx[u].key /\ st = "license"
      BY <1>1, <2>1, WantsNamed
    <3> QED
      BY <1>6, <1>13, <1>14, <3>1
  <2>2. CASE owner[r] = u
    <3>1. \/ r = "merchant" /\ (Done(u, "merchant") \/ Done(u, "audit"))
          \/ r = "app" /\ Done(u, "app")
          \/ r = tx[u].product /\ Done(u, "product")
          \/ r = tx[u].order /\ Done(u, "order")
          \/ r = tx[u].key /\ Done(u, "license")
      BY <1>3, <2>2 DEF Locked
    <3> QED
      BY <1>6, <1>13, <1>14, <3>1
  <2> QED
    BY <1>19, <2>1, <2>2
<1>24. \A t \in Transactions : Asked(t)' /\ ProductKnown(t)' /\ Holds(t)' /\ Locked(t)'
  BY <1>11, <1>12, <1>16, <1>22, <1>23
<1> QED
  BY <1>10, <1>24 DEF OrdersInv

-----------------------------------------------------------------------------
\* Nothing has been read or locked before the first transaction begins.
LEMMA InitOrders == Init => BookInit /\ OrdersInv
<1> SUFFICES ASSUME Init PROVE OrdersInv
  BY DEF Init
<1>1. BookInv
  BY BookInitInv DEF Init
<1>2. tx = [t \in Transactions |-> Idle] /\ owner = [r \in Rows |-> None]
  BY DEF Init
<1>3. TypeOK
  BY <1>1, <1>2, IdleTyped DEF TypeOK, BookInv
<1>4. ASSUME NEW t \in Transactions
      PROVE  Asked(t) /\ ProductKnown(t) /\ Holds(t) /\ Locked(t)
  <2>1. tx[t] = Idle /\ \A r \in Rows : owner[r] # t
    BY <1>2, RowsAssumption
  <2>2. \A st : ~Done(t, st)
    BY <2>1, IdleTyped DEF Done
  <2>3. Asked(t) /\ ProductKnown(t)
    BY <2>1, IdleInput DEF Asked, ProductKnown
  <2>4. Holds(t) /\ Locked(t)
    BY <2>1, <2>2 DEF Holds, Locked
  <2> QED
    BY <2>3, <2>4
<1> QED
  BY <1>1, <1>3, <1>4 DEF OrdersInv

\* Only a commit touches the tables, and it is one step of the atomic storefront.
LEMMA OrdersStep ==
    ASSUME OrdersInv, [Next]_vars
    PROVE  OrdersInv' /\ [BookNext]_book
<1>1. CASE UNCHANGED vars
  <2>1. UNCHANGED book /\ owner' = owner /\ tx' = tx
    BY <1>1 DEF vars
  <2>2. BookInv' /\ product' = product /\ merchant' = merchant /\ app' = app /\ order' = order
        /\ license' = license
    BY <2>1, BookUnchanged DEF book
  <2>3. TypeOK'
    BY <2>1, <2>2 DEF OrdersInv, TypeOK, BookInv
  <2>4. ASSUME NEW t \in Transactions
        PROVE  Asked(t)' /\ ProductKnown(t)' /\ Holds(t)' /\ Locked(t)'
    <3>1. \A st : Done(t, st)' <=> Done(t, st)
      BY <2>1 DEF Done
    <3>2. Asked(t) /\ ProductKnown(t) /\ Holds(t) /\ Locked(t)
      BY TxTyped
    <3>3. Asked(t)' /\ ProductKnown(t)'
      BY <2>1, <2>2, <3>1, <3>2 DEF Asked, ProductKnown
    <3>4. Holds(t)'
      BY <2>1, <2>2, <3>1, <3>2 DEF Holds
    <3>5. Locked(t)'
      BY <2>1, <3>1, <3>2 DEF Locked
    <3> QED
      BY <3>3, <3>4, <3>5
  <2> QED
    BY <2>1, <2>2, <2>3, <2>4 DEF OrdersInv
<1>2. CASE Next
  <2>1. PICK u \in Transactions :
           BeginAny(u) \/ Execute(u) \/ Refuse(u) \/ Commit(u) \/ Retry(u) \/ Fail(u)
    BY <1>2 DEF Next
  <2>2. CASE BeginAny(u)
    <3>1. UNCHANGED book
      BY <2>2 DEF BeginAny, BeginProduct, BeginSetProduct, BeginStatus, BeginCreate, BeginDecide,
                  BeginGenerate, BeginDelete, Begin
    <3> QED
      BY <2>2, <3>1, BeginKeepsInv
  <2>3. CASE Execute(u)
    <3>1. UNCHANGED book
      BY <2>3 DEF Execute
    <3> QED
      BY <2>3, <3>1, ExecuteKeepsInv
  <2>4. CASE Refuse(u) \/ Fail(u)
    <3>1. UNCHANGED book
      BY <2>4 DEF Refuse, Fail
    <3> QED
      BY <2>4, <3>1, AbandonKeepsInv
  <2>5. CASE Retry(u)
    <3>1. UNCHANGED book
      BY <2>5 DEF Retry
    <3> QED
      BY <2>5, <3>1, RetryKeepsInv
  <2>6. CASE Commit(u)
    BY <2>6, CommitKeepsInv
  <2> QED
    BY <2>1, <2>2, <2>3, <2>4, <2>5, <2>6
<1> QED
  BY <1>1, <1>2

LEMMA OrdersInvariant == Spec => []OrdersInv
<1>1. OrdersInv /\ [Next]_vars => OrdersInv'
  BY OrdersStep
<1> QED
  BY <1>1, InitOrders, PTL DEF Spec

\* Every variable of the statement-level storefront keeps its type.
THEOREM OrdersTyped == Spec => []TypeOK
<1>1. OrdersInv => TypeOK
  BY DEF OrdersInv
<1> QED
  BY <1>1, OrdersInvariant, PTL

\* Every transaction is atomic: statement by statement, with rollbacks, deadlock victims and
\* retries, MySQL implements the storefront whose transactions each run in one step.
THEOREM OrdersRefine == Spec => ImplementsOrderBook
<1>1. OrdersInv /\ [Next]_vars => [BookNext]_book
  BY OrdersStep
<1> QED
  BY <1>1, InitOrders, OrdersInvariant, PTL DEF Spec, ImplementsOrderBook, BookSpec

\* On MySQL too, a fulfilled order delivers an existing licence made for it on its own terms.
THEOREM MysqlOrdersDeliver == Spec => []FulfilledOrdersDeliver
  BY OrdersRefine, OrdersDeliver DEF ImplementsOrderBook

\* On MySQL too, no order ever has a second licence.
THEOREM MysqlLicenseUnique == Spec => []OneLicensePerOrder
  BY OrdersRefine, LicenseUnique DEF ImplementsOrderBook

\* On MySQL too, a decided order never changes and a placed one keeps its terms.
THEOREM MysqlOrdersFinal == Spec => OrdersSettleOnce
  BY OrdersRefine, OrdersFinal DEF ImplementsOrderBook

-----------------------------------------------------------------------------
\* Which methods can have run a statement, and that a creation locks the merchant first.
LEMMA DoneBy ==
    ASSUME OrdersInv, NEW t \in Transactions, NEW st, Done(t, st)
    PROVE  /\ st = "product" => tx[t].op \in {"createProduct", "updateProduct", "setProduct", "create"}
           /\ st = "order" => tx[t].op \in {"create", "fulfill", "reject"}
           /\ tx[t].op = "create" => Done(t, "merchant")
<1>1. PICK i \in 1..6 : i < tx[t].at /\ Program[tx[t].op][i] = st
  BY DEF Done
<1>2. tx[t].at \in 1..6 /\ tx[t].op # "idle"
  <2>1. tx[t].op = "idle" => tx[t].at = 1
    BY TxTyped, IdleTyped
  <2> QED
    BY <1>1, <2>1, TxTyped DEF TxRec
<1>3. tx[t].op \in DOMAIN Program /\ tx[t].at \in 1..Len(Program[tx[t].op])
  BY <1>2, TxTyped
<1>4. i \in 1..Len(Program[tx[t].op])
  BY <1>1, <1>3, ProgramsEnd
<1>5. tx[t].op = "create" => Done(t, "merchant")
  <2>1. Program["create"][1] = "merchant" /\ 1 \in 1..6 /\ 1 < tx[t].at
    BY <1>1, <1>2, ProgramText
  <2> QED
    BY <2>1 DEF Done
<1> QED
  BY <1>1, <1>3, <1>4, <1>5, ProgramsOrder

\* Who holds a row named it, in the table the row is in.
LEMMA HeldBy ==
    ASSUME OrdersInv, NEW t \in Transactions, NEW r \in Rows, owner[r] = t
    PROVE  /\ \E st : Done(t, st)
           /\ r = "app" => Done(t, "app")
           /\ r \in Products => r = tx[t].product /\ Done(t, "product")
           /\ r \in Orders => r = tx[t].order /\ Done(t, "order")
<1>1. \/ r = "merchant" /\ (Done(t, "merchant") \/ Done(t, "audit"))
      \/ r = "app" /\ Done(t, "app")
      \/ r = tx[t].product /\ Done(t, "product")
      \/ r = tx[t].order /\ Done(t, "order")
      \/ r = tx[t].key /\ Done(t, "license")
  BY TxTyped DEF Locked
<1>2. /\ Done(t, "product") => tx[t].product \in Products
      /\ Done(t, "order") => tx[t].order \in Orders
      /\ Done(t, "license") => tx[t].key \in Keys
  BY DoneNamed
<1>3. /\ "merchant" \notin Products /\ "merchant" \notin Orders /\ "merchant" # "app"
      /\ "app" \notin Products /\ "app" \notin Orders /\ "app" \notin Keys
      /\ \A x \in Products : x \notin Orders /\ x \notin Keys
      /\ \A x \in Orders : x \notin Keys
  BY RowsAssumption
<1> QED
  BY <1>1, <1>2, <1>3

\* The rows the creation of an order still waits for, and the statement that waits.
LEMMA CreateWants ==
    ASSUME OrdersInv, NEW t \in Transactions, tx[t].op = "create", NEW r \in Wants(t)
    PROVE  \/ r = "merchant" \/ r = "app"
           \/ r \in Products /\ r = tx[t].product
           \/ r \in Orders /\ r = tx[t].order /\ order[r] = NoOrder
<1>1. tx[t].at \in 1..Len(Program["create"]) /\ tx[t].op # "idle"
  BY TxTyped
<1>2. Statement(t) = Program["create"][tx[t].at] /\ tx[t].at \in 1..6 /\ tx[t].at <= tx[t].at
  BY <1>1, ProgramText DEF Statement
<1>3. Statement(t) \in {"merchant", "product", "app", "order", "commit"}
  BY <1>1, <1>2, ProgramText
<1>4. /\ Statement(t) = "product" => tx[t].product \in Products
      /\ Statement(t) = "order" => tx[t].order \in Orders
  BY <1>1, <1>2, RowsNamed
<1> QED
  BY <1>3, <1>4 DEF Wants, Inserted

LEMMA WantsRows ==
    ASSUME OrdersInv, NEW t \in Transactions
    PROVE  Wants(t) \subseteq Rows
<1>1. CASE tx[t].op = "idle"
  BY <1>1 DEF Wants, Statement
<1>2. CASE tx[t].op # "idle"
  <2>1. Statement(t) = Program[tx[t].op][tx[t].at] /\ tx[t].at \in 1..6 /\ tx[t].at <= tx[t].at
    BY <1>2, TxTyped DEF Statement, TxRec
  <2>2. /\ Statement(t) = "product" => tx[t].product \in Products
        /\ Statement(t) = "order" => tx[t].order \in Orders
        /\ Statement(t) = "license" => tx[t].key \in Keys
    BY <1>2, <2>1, RowsNamed
  <2> QED
    BY <2>2 DEF Wants, Inserted, Rows
<1> QED
  BY <1>1, <1>2

\* The heart of the lock order: whoever waits for a creation waits for one that holds the
\* merchant, and everybody the creation can wait for then edits its product or deletes a licence.
LEMMA CreationInCycle ==
    ASSUME OrdersInv, NEW T \in SUBSET Transactions, Deadlocked(T),
           NEW t \in T, tx[t].op = "create"
    PROVE  \E v \in T : tx[v].op \in {"updateProduct", "setProduct", "delete"}
<1>1. t \in Transactions /\ t # None
  BY RowsAssumption
<1>2. owner["merchant"] = t
  <2>1. PICK u \in T : t \in WaitsFor(u)
    BY DEF Deadlocked
  <2>2. t \notin GapHolders
    BY DEF GapHolders
  <2>3. PICK r \in Wants(u) : owner[r] = t
    BY <2>1, <2>2 DEF WaitsFor, RowHolders
  <2>4. r \in Rows
    BY <2>3, WantsRows
  <2>5. Done(t, "merchant")
    BY <1>1, <2>3, <2>4, HeldBy, DoneBy
  <2> QED
    BY <1>1, <2>5, TxTyped DEF Holds
<1>3. PICK v \in T : v \in WaitsFor(t)
  BY DEF Deadlocked
<1>4. CASE v \in GapHolders
  BY <1>4 DEF GapHolders
<1>5. CASE v \in RowHolders(t)
  <2>1. v \in Transactions /\ v # t
    BY <1>5 DEF RowHolders
  <2>2. PICK r \in Wants(t) : owner[r] = v
    BY <1>5 DEF RowHolders
  <2>3. r \in Rows
    BY <1>1, <2>2, WantsRows
  <2>4. ~Done(v, "merchant")
    BY <1>2, <2>1, TxTyped DEF Holds
  <2>5. PICK st : Done(v, st)
    BY <2>1, <2>2, <2>3, HeldBy
  <2>6. tx[v].op # "create"
    BY <2>1, <2>4, <2>5, DoneBy
  <2>7. r # "merchant"
    BY <1>2, <2>1, <2>2
  <2>8. r # "app"
    BY <2>1, <2>2, <2>3, <2>4, HeldBy, DoneNamed
  <2>9. CASE r \in Products /\ r = tx[t].product
    <3>1. r = tx[v].product /\ Done(v, "product")
      BY <2>1, <2>2, <2>3, <2>9, HeldBy
    <3>2. tx[v].op \in {"createProduct", "updateProduct", "setProduct"}
      BY <2>1, <2>6, <3>1, DoneBy
    <3>3. tx[v].op # "createProduct"
      BY <1>1, <2>1, <2>9, <3>1, TxTyped DEF ProductKnown
    <3> QED
      BY <3>2, <3>3
  <2>10. CASE r \in Orders /\ r = tx[t].order /\ order[r] = NoOrder
    <3>1. r = tx[v].order /\ Done(v, "order")
      BY <2>1, <2>2, <2>3, <2>10, HeldBy
    <3>2. tx[v].op \in {"fulfill", "reject"}
      BY <2>1, <2>6, <3>1, DoneBy
    <3>3. order[r].status = "pending"
      BY <2>1, <3>1, <3>2, TxTyped DEF Holds
    <3> QED
      BY <2>10, <3>3 DEF NoOrder
  <2> QED
    BY <1>1, <2>2, <2>7, <2>8, <2>9, <2>10, CreateWants
<1> QED
  BY <1>3, <1>4, <1>5 DEF WaitsFor

\* A customer's order meets a deadlock only when an administrator edits a product or deletes a
\* licence.
THEOREM OrdersLockOrder == Spec => []OrdersDeadlockOnlyWithAdmin
<1>1. OrdersInv => OrdersDeadlockOnlyWithAdmin
  BY CreationInCycle DEF OrdersDeadlockOnlyWithAdmin
<1> QED
  BY <1>1, OrdersInvariant, PTL
=============================================================================
