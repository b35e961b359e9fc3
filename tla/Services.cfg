SPECIFICATION MCSpec
CONSTANTS
    share1 = share1
    share2 = share2
    w1 = w1
    w2 = w2
    w3 = w3
    k1 = k1
    k2 = k2
    Nothing = Nothing
    Symbols = {share1}
    Prices = {3, 5}
    Quantities = {1, 2}
    Slippage = 1
    CommissionRate = 1
    InitialBalance = 10
    MaxTrades = 2
    NoPosition = Nothing
    MockSymbols = {"A", "B"}
    MockPrices = {2, 3}
    MockQuantities = {1, 2}
    MockFunds = 6
    MaxFilled = 3
    Closes = {1, 6, 20}
    Volumes = {0, 1}
    Period = 2
    Fast = 2
    Slow = 3
    Threshold = 3
    MinBars = 3
    Distances = {5, 100, 150}
    Capital = 1000
    RiskPercent = 1
    MaxBars = 4
    ClosePrices = {2, 3, 6}
    Sizes = {1, 2}
    Slip = 1
    RateOf = 1
    Funds = 20
    MaxLength = 4
    Results <- MCResults
    Equities = {4, 9, 10}
    InitialCapital = 10
    MaxResults = 6
    Years = 2
    MonthsOfYear = 2
    DaysOfMonth = 2
    Pnls <- MCPnls
    Invested = 5
    Entries = {0, 7}
    Exits = {2, 5, 8, 11, 12}
    MaxRecorded = 3
    Clauses <- MCSentences
    Numbers <- MCSaid
    Ratios <- MCWeighed
    MaxClauses = 3
    Processes = {w1, w2, w3}
    Limit = 2
    Window = 2
    MaxCount = 12
    Workers = {w1, w2}
    Spacing = 2
    Timeout = 3
    MaxNow = 8
    MaxOrders = 3
    Servers = {w1}
    Shares = {share1, share2}
    Ttl = 1
    MaxTime = 3
    Sockets = {k1, k2}
    Streamed = {share1}
    Brokers = {"zerodha", "kotak"}
    NoSocket = Nothing
INVARIANT CashAccounted
INVARIANT SignalsProtected
INVARIANT FiguresTrue
INVARIANT RatesBounded
INVARIANT TakenBackIsGone
PROPERTY SignalsSettle
PROPERTY QuotesFresh
PROPERTY SentencesStandAlone
PROPERTY StreamsAgain
CHECK_DEADLOCK FALSE
