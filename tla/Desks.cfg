SPECIFICATION Spec
CONSTANTS
    r1 = r1
    r2 = r2
    p1 = p1
    p2 = p2
    p3 = p3
    NoRow = NoRow
    None = None
    Requests = {r1, r2}
    Strategies = {"s1"}
    Traders = {"u1"}
    Names = {"n1"}
    Parameters <- MCParameters
    Edits <- MCEdits
    Instances = {"i1"}
    Positions = {p1, p2, p3}
    MaxOrders = 3
    PaperPositions = {p1, p2}
    Capital = 8
    Prices = {1, 2}
    Portion = 2
    Lot = 2
    Orders = {p1, p2}
    Rules = {"k1"}
    BrokerAccounts = {"b1"}
    OrderQuantity = 2
    Users = {"u1"}
    AdminEmail = "u1"
    Sessions = {"t1"}
    Threshold = 2
    LockPeriod = 1
    Timeout = 1
    MaxTime = 3
    Notes = {"n1"}
    Kinds = {"risk_alert"}
    Changes <- MCChanges
    Secrets = {p1, p2, p3}
    Tokens = {p1, p2, p3}
    Passwords = {"one", "two"}
    MaxHour = 3
    SavedOrders = {"o1"}
    SavedPositions = {p1, p2, p3}
    Entries = {"e1"}
    Keys = {"k1"}
    Products = {"x1"}
    OrderUpdates <- MCOrderUpdates
    PositionUpdates <- MCPositionUpdates
SYMMETRY Interchangeable
INVARIANT OrdersAccounted
INVARIANT LiveWasVouched
INVARIANT BooksBalance
INVARIANT KillSwitchHolds
INVARIANT SessionsEnd
INVARIANT NotifiedAsPreferred
INVARIANT DuplicatesRaced
PROPERTY EndedStaysEnded
PROPERTY DecisionsStand
PROPERTY SecretSettles
CHECK_DEADLOCK FALSE
