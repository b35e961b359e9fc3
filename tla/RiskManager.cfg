SPECIFICATION FairSpec
CONSTANTS
    u1 = u1
    t1 = t1
    t2 = t2
    s1 = s1
    None = None
    Users = {u1}
    Tasks = {t1, t2}
    UserOf <- ToU1
    Strategies = {s1}
    Orders <- LimitOrder
    LimitLists <- ThreeLists
    NewLimits <- RateOf1
    AssetCaps = {1}
    Balances = {1}
    DefaultBalance = 4
    DefaultRate = 2
    Losses = {0, 2}
    Equities = {0, 2}
    Minute = 2
    MaxTrades = 3
INVARIANT TypeOK
INVARIANT TradesBounded
PROPERTY RateHolds
PROPERTY LossStops
PROPERTY HaltsEventually
