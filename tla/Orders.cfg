SPECIFICATION Spec
CONSTANTS
    Strategies = {"s1", "s2"}
    Orders = {"o1"}
    Owner <- Placing
    Listed <- SameSymbol
    Size = 2
    Fetches = {"open"}
    Cancels = {"one", "all"}
    Losses = 1

    Trades = {"t1", "t2"}
    OpenOrders = {"o1", "o2"}
    Requests = {"all", "r1", "r2"}
    Target <- AllAndEach
    Bulk = {"all"}
    MaxLen = 1
    Batch = 1

    Qty = 3
    Price = 3
    Prices = {2, 3}
    Calls = {"NEW", "FILLED", "CANCELED"}
    MaxReports = 8
CHECK_DEADLOCK FALSE
INVARIANTS
    OrdersTypeOK
    ReportTrue
    NoTradeMissed
    CancelAnswerTrue
    EarlyMessageUsed
    
    StatusTrue
    Forward
