SPECIFICATION FairSpec
CONSTANTS
    Txns = {t1, t2, t3}
    MaxCrashes = 2
    None = None
INVARIANT TypeOK
PROPERTIES ReadsStayDurable ImplementsAtomicStore CallsAnswered
\* Once every call is answered and no crash is left to happen, the store may be idle for ever.
CHECK_DEADLOCK FALSE
