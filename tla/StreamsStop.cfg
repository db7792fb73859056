SPECIFICATION Spec
CONSTANTS
    Trades = {t1}
    Subs = {book, orders, klines}
    Tasks = {m1, u1, n1}
    Rpcs = {r1}
    MarketTypes = {depth, kline}
    UserTypes = {report}
    TradeOf <- MCTradeOf
    TypesOf <- MCTypesOf
    Capacity <- MCCapacity
    LifoSubs = {book}
    MarketCount <- MCMarketCount
    Combined = FALSE
    MayLeave = {book}
    LateSubscribe = FALSE
    CancelEnds = TRUE
    Token = Token
    NoSub = NoSub
    t1 = t1  t2 = t2
    book = book  orders = orders  klines = klines  other = other
    m1 = m1  u1 = u1  n1 = n1  m2 = m2  u2 = u2
    r1 = r1  q1 = q1
    depth = depth  kline = kline  report = report
    One = {klines}
CHECK_DEADLOCK FALSE
INVARIANTS
    TypeOK
    OverflowNeverBlocksStop
PROPERTY
    ImplementsContract
