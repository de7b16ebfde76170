SPECIFICATION Spec
CONSTANTS
    Threads = {c1, c2, c3}
    Nonces = {c1, c2, c3}
    Bindings = {b1, b2}
    PendingTtl = 0
    AuthorizationTtls = {1, 2}
    HandleTtl = 2
    MaxHandles = 1
    MaxTime = 1
    None = None
    Plans = {{"activate", "verify", "unbind", "lease", "clearSession"}, {"notices"}}
    LeaseTtl = 1
    MaxSequence = 2
SYMMETRY Symmetry
INVARIANTS TypeOK LeasesBelongToAuthorization OnlyLiveRequestsGrant KeysAreOwned NoHonestRollback
PROPERTIES RefusedOnlyWhenFull
CHECK_DEADLOCK FALSE
