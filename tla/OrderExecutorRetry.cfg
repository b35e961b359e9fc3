SPECIFICATION Spec
CONSTANTS
    t1 = t1
    t2 = t2
    t3 = t3
    r1 = r1
    r2 = r2
    r3 = r3
    k1 = k1
    None = None
    Tasks = {t1, t2}
    OpsOf <- RetryOpsOf
    Requests = {r1, r2, r3}
    Keys = {k1}
    KeyOf <- RetryKeyOf
    QtyOf <- RetryQtyOf
    Streams = {"trade"}
    FilledWords = {"filled"}
    NewQtys = {}
    MaxQty = 1
    RiskSuspends = TRUE
INVARIANT NothingUnrecorded
INVARIANT CacheNamesOrder
INVARIANT OncePerCaller
CHECK_DEADLOCK FALSE
