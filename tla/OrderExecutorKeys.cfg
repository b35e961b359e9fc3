SPECIFICATION FairSpec
CONSTANTS
    t1 = t1
    t2 = t2
    t3 = t3
    r1 = r1
    r2 = r2
    r3 = r3
    k1 = k1
    None = None
    Tasks = {t1, t2, t3}
    OpsOf <- RaceOpsOf
    Requests = {r1, r2, r3}
    Keys = {k1}
    KeyOf <- RaceKeyOf
    QtyOf <- RaceQtyOf
    Streams = {"order_update"}
    FilledWords = {"filled"}
    NewQtys = {1}
    MaxQty = 1
    RiskSuspends = FALSE
INVARIANT AtMostOncePerKey
PROPERTY EveryCallReturns
PROPERTY KeepsPromise
CHECK_DEADLOCK FALSE
