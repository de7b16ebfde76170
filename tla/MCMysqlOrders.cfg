SPECIFICATION Spec
CONSTANTS
    Transactions = {t1, t2}
    Products = {p1}
    Orders = {o1, o2}
    Keys = {k1, k2}
    Terms = {x, y}
    MaxAttempts = 2
    None = None
SYMMETRY Symmetry
INVARIANTS TypeOK FulfilledOrdersDeliver OneLicensePerOrder OrdersDeadlockOnlyWithAdmin
PROPERTIES ImplementsOrderBook OrdersSettleOnce
