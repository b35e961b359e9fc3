SPECIFICATION Spec
CONSTANTS
    t1 = t1
    t2 = t2
    t3 = t3
    r1 = r1
    r2 = r2
    r3 = r3
    k1 = k1
    None = None
    Tasks = {t1, t2}
    OpsOf <- OneOpsOf
    Requests = {r1}
    Keys = {k1}
    KeyOf <- OneKeyOf
    QtyOf <- OneQtyOf
    Streams = {}
    FilledWords = {"filled"}
    NewQtys = {}
    MaxQty = 2
    RiskSuspends = TRUE
INVARIANT NoOrderLost
CHECK_DEADLOCK FALSE
