SPECIFICATION FairSpec
CONSTANTS
    Transactions = {t1, t2}
    Devices = {d1}
    Bindings = {b1}
    Sessions = {s1}
    MaxDevices = 1
    MaxAttempts = 2
    Calls = {"generate", "activate", "verify", "unbind", "adminUnbind", "disconnect", "unbindAll", "delete", "setLicense", "setMerchant", "setApp"}
    None = None
PROPERTIES TransactionsEnd
