SPECIFICATION Spec
CONSTANTS
    market = market
    private = private
    Streams = {market, private}
    Kind <- HtxStreams
    MaxConnects = 3

    Requests = {r1, r2, r3, r4}
    Limit = 3
    Headers = FALSE
    Failures = 2

    Calls = {c1, c2, c3, c4}
    MaxSessions = 3

    t1 = t1
    t2 = t2
    t3 = t3
    acc1 = acc1
    acc2 = acc2
    Trades = {t1, t2, t3}
    Accounts = {acc1, acc2}
    AccountOf <- TwoAccounts
    Ids = {i1, i2, i3}

    Clients = {bybit1, bybit2, okx, huobi}
    ByBit = {bybit1, bybit2}
    Flagging = {bybit1, bybit2, okx}
    Busy = {bybit1}
    Pause = 4
    ShortPause = 1
CHECK_DEADLOCK FALSE
SYMMETRY Symmetry
INVARIANTS
    TypesOK
    FirstAlone
    Restored
    OneClient
PROPERTIES
    NoFalseTimeout
    PauseKept
