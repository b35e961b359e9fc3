SPECIFICATION Spec
CONSTANTS
    u1 = u1
    t1 = t1
    t2 = t2
    s1 = s1
    None = None
    Users = {u1}
    Tasks = {t1}
    UserOf <- ToU1
    Strategies = {s1}
    Orders <- TwoOrders
    LimitLists <- ThreeLists
    NewLimits <- RiskOf1
    AssetCaps = {1}
    Balances = {}
    DefaultBalance = 4
    DefaultRate = 2
    Losses = {2}
    Equities = {2}
    Minute = 2
    MaxTrades = 3
PROPERTY HardLimitsHold
