SPECIFICATION Spec
CONSTANTS
    Txns = {t1, t2, t3}
    MaxCrashes = 2
    None = None
INVARIANT AcknowledgedKept

\* Every call is answered and no crash is left: the store rests.
CHECK_DEADLOCK FALSE
