------------------------------ MODULE OrderBook ------------------------------
(***************************************************************************)
(* The storefront of one merchant's program: products, orders and the      *)
(* licences that settle them (src/services/order-service.js,               *)
(* product-service.js), one action per transaction, each atomic as the     *)
(* JSON store runs it.  MysqlOrders implements it statement by statement.  *)
(*                                                                         *)
(* An order is named by its order number and a licence by its key: both    *)
(* are random and the code checks that they are new.  Terms stand for what *)
(* a product sells (price, duration, devices).                             *)
(***************************************************************************)
CONSTANTS Products, Orders, Keys, Terms, None

ASSUME NoneAssumption == None \notin Orders \cup Keys \cup Products \cup Terms

VARIABLES
    merchant,   \* merchants.status
    app,        \* applications.status
    product,
    order,      \* terms is the productSnapshot, key the licence that settled the order
    license     \* order is the batch's sourceId, None for a generated batch

book == <<merchant, app, product, order, license>>

Status == {"active", "disabled"}

NoProduct == [status |-> "absent", terms |-> None]
NoOrder == [status |-> "absent", terms |-> None, key |-> None]
NoLicense == [exists |-> FALSE, terms |-> None, order |-> None]

ProductRec == [status : Status \cup {"absent"}, terms : Terms \cup {None}]

OrderRec == [status : {"absent", "pending", "fulfilled", "rejected"},
             terms : Terms \cup {None}, key : Keys \cup {None}]

LicenseRec == [exists : BOOLEAN, terms : Terms \cup {None}, order : Orders \cup {None}]

BookInit ==
    /\ merchant = "active"
    /\ app = "active"
    /\ product = [p \in Products |-> NoProduct]
    /\ order = [o \in Orders |-> NoOrder]
    /\ license = [k \in Keys |-> NoLicense]

-----------------------------------------------------------------------------
InService == merchant = "active" /\ app = "active"

CreateProduct(p, terms) ==
    /\ InService
    /\ product[p] = NoProduct
    /\ product' = [product EXCEPT ![p] = [status |-> "active", terms |-> terms]]
    /\ UNCHANGED <<merchant, app, order, license>>

UpdateProduct(p, terms) ==
    /\ product[p] # NoProduct
    /\ product' = [product EXCEPT ![p].terms = terms]
    /\ UNCHANGED <<merchant, app, order, license>>

SetProductStatus(p, status) ==
    /\ product[p] # NoProduct
    /\ product' = [product EXCEPT ![p].status = status]
    /\ UNCHANGED <<merchant, app, order, license>>

SetMerchantStatus(status) ==
    /\ merchant' = status
    /\ UNCHANGED <<app, product, order, license>>

SetAppStatus(status) ==
    /\ merchant = "active"
    /\ app' = status
    /\ UNCHANGED <<merchant, product, order, license>>

\* createPublic: the order keeps the terms the product has now.
CreatePublic(o, p) ==
    /\ InService
    /\ product[p].status = "active"
    /\ order[o] = NoOrder
    /\ order' = [order EXCEPT ![o] =
                    [status |-> "pending", terms |-> product[p].terms, key |-> None]]
    /\ UNCHANGED <<merchant, app, product, license>>

\* Fulfilling a fulfilled order answers with it and changes nothing; so does rejecting a
\* rejected one.
Fulfill(o, k) ==
    /\ order[o].status = "pending"
    /\ InService
    /\ ~license[k].exists
    /\ license' = [license EXCEPT ![k] =
                      [exists |-> TRUE, terms |-> order[o].terms, order |-> o]]
    /\ order' = [order EXCEPT ![o].status = "fulfilled", ![o].key = k]
    /\ UNCHANGED <<merchant, app, product>>

Reject(o) ==
    /\ order[o].status = "pending"
    /\ order' = [order EXCEPT ![o].status = "rejected"]
    /\ UNCHANGED <<merchant, app, product, license>>

\* LicenseService.generate: a licence for no order, on terms that are not the storefront's.
Generate(k) ==
    /\ InService
    /\ ~license[k].exists
    /\ license' = [license EXCEPT ![k] = [exists |-> TRUE, terms |-> None, order |-> None]]
    /\ UNCHANGED <<merchant, app, product, order>>

\* LICENSE_HAS_ORDER refuses a licence that settled an order.
DeleteLicense(k) ==
    /\ license[k].exists
    /\ \A o \in Orders : order[o].key # k
    /\ license' = [license EXCEPT ![k] = NoLicense]
    /\ UNCHANGED <<merchant, app, product, order>>

ProductStep ==
    \E p \in Products :
        \/ \E terms \in Terms : CreateProduct(p, terms) \/ UpdateProduct(p, terms)
        \/ \E status \in Status : SetProductStatus(p, status)

StatusStep == \E status \in Status : SetMerchantStatus(status) \/ SetAppStatus(status)

OrderStep ==
    \E o \in Orders :
        \/ \E p \in Products : CreatePublic(o, p)
        \/ \E k \in Keys : Fulfill(o, k)
        \/ Reject(o)

LicenseStep == \E k \in Keys : Generate(k) \/ DeleteLicense(k)

BookNext == ProductStep \/ StatusStep \/ OrderStep \/ LicenseStep

BookSpec == BookInit /\ [][BookNext]_book

(***************************************************************************)
(* Properties.                                                             *)
(***************************************************************************)

\* Every table keeps its type.
BookTypeOK ==
    /\ merchant \in Status /\ app \in Status
    /\ product \in [Products -> ProductRec]
    /\ order \in [Orders -> OrderRec]
    /\ license \in [Keys -> LicenseRec]

\* A fulfilled order can always be delivered: its licence still exists, was made for it, and
\* grants the terms the customer ordered, whatever the product became since.
FulfilledOrdersDeliver ==
    \A o \in Orders : order[o].status = "fulfilled" =>
        /\ order[o].key \in Keys
        /\ license[order[o].key] =
              [exists |-> TRUE, terms |-> order[o].terms, order |-> o]

\* fulfil is idempotent: no order ever has a licence besides the one it delivers.
OneLicensePerOrder ==
    \A k \in Keys, o \in Orders :
        license[k].order = o => order[o].status = "fulfilled" /\ order[o].key = k

\* An order is decided once and keeps the terms it was placed under: a fulfilled or rejected
\* order never changes, and a pending one only by being decided.
OrdersSettleOnce ==
    [][\A o \in Orders :
          /\ order[o].status \in {"fulfilled", "rejected"} => order'[o] = order[o]
          /\ order[o].status # "absent" => order'[o].terms = order[o].terms]_order
=============================================================================
