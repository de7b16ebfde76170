SPECIFICATION Spec
CONSTANTS
    m1 = m1  a1 = a1  l1 = l1
    Merchants = {m1}
    Apps = {a1}
    Licenses = {l1}
    Delivered = {}
    Devices = {d1, d2}
    Bindings = {b1, b2}
    Sessions = {s1, s2}
    Requests = {r1, r2}
    MerchantOf <- MCMerchantOf
    DeviceLimits = {0, 1}
    Durations = {2}
    FixedExpiries = {3}
    SessionTtl = 2
    MaxTime = 3
    None = None
SYMMETRY Symmetry
INVARIANTS TypeOK DeviceLimitHolds OneSeatPerDevice SessionsHaveAuthority SessionsBounded BindingsHaveLicense
PROPERTIES ExpiryIsFinal RevocationIsFinal
