SPECIFICATION Spec
CONSTANTS
    Transactions = {t1, t2}
    Devices = {d1, d2}
    Bindings = {b1, b2}
    Sessions = {s1, s2}
    MaxDevices = 1
    MaxAttempts = 2
    Calls = {"generate", "activate"}
    None = None
INVARIANTS DeviceLimitHolds
