SPECIFICATION DeliverySpec
CONSTANTS
    m1 = m1  a1 = a1
    Merchants = {m1}
    Apps = {a1}
    Licenses = {l1}
    Delivered = {}
    Devices = {d1}
    Bindings = {b1, b2}
    Sessions = {s1, s2}
    Requests = {r1, r2}
    Artifacts = {x1}
    Leases = {i1, i2}
    MerchantOf <- MCMerchantOf
    ArtifactApp <- MCArtifactApp
    DeviceLimits = {0}
    Durations = {2}
    FixedExpiries = {}
    SessionTtl = 2
    LeaseTtl = 2
    MaxTime = 3
    None = None
SYMMETRY Symmetry
INVARIANTS DeliveryTypeOK RevokedArtifactsLeaseNothing LeasesHaveLicense LeasesBounded
PROPERTIES LeasesNeedAuthority
