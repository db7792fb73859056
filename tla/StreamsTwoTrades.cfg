SPECIFICATION Spec
CONSTANTS
    Trades = {t1, t2}
    Subs = {book, orders, other}
    Tasks = {m1, u1, m2, u2}
    Rpcs = {r1}
    MarketTypes = {depth}
    UserTypes = {report}
    TradeOf <- MCTradeOf
    TypesOf <- MCTypesOf
    Capacity <- MCCapacity
    LifoSubs = {book}
    MarketCount <- MCMarketCount
    Combined = TRUE
    MayLeave = {book}
    LateSubscribe = FALSE
    CancelEnds = TRUE
    Token = Token
    NoSub = NoSub
    t1 = t1  t2 = t2
    book = book  orders = orders  klines = klines  other = other
    m1 = m1  u1 = u1  n1 = n1  m2 = m2  u2 = u2
    r1 = r1  q1 = q1
    depth = depth  kline = kline  report = report
    One = {orders, other}
CHECK_DEADLOCK FALSE
INVARIANTS
    Isolation
    NoUntrackedTask
