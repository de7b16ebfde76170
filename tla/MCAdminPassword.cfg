SPECIFICATION Spec
CONSTANTS
    p = p  u1 = u1  u2 = u2  m1 = m1
    Users = {p, u1, u2}
    Merchants = {m1}
    MerchantOf <- MCMerchantOf
    Sessions = {s1, s2}
    Requests = {r1, r2}
    MaxChanges = 2
    None = None
SYMMETRY Symmetry
INVARIANT SessionsUseCurrentPassword
