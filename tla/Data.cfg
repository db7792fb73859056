SPECIFICATION Spec
CONSTANTS
    Pollers = {"t1", "t2"}
    Transfers = {"x1", "x2", "x3"}
    Concerned <- TransfersConcern
    ListedOn <- TransfersListed
    Window = 1
    Limit = 1
    BybitPage = 3
    Symbol <- SymbolsTraded
    MaxEnds = 1
    MaxLoads = 1

    SidesOn <- SidesShown
    PricesOn <- PricesShown
    Sizes = {1, 2}
    BfxDepth = 2
    Shown = 1
    MaxWaiting = 1

    AskedOn <- IntervalsAsked
    MaxLimit = 12
    MaxPerAnswer = 9
    Now = 20
    MonthStart <- MonthsBegin

    Trades = {"t1", "t2"}
    CallsOn <- MarketCalls
    MaxStamp = 2
    MaxStarts = 1
    MaxMessages = 3
    Timeout = 1

    Assets = {"base", "quote"}
    Pair = {"base"}
    Account = "sub"
    TwoFactor = FALSE
    AskedAssets = {""}
    MaxFunds = 2
    MaxDrops = 1
CHECK_DEADLOCK FALSE
INVARIANTS
    DataTypeOK
    TransferTold
    BookTrue
    CandlesTrue
    CheckTrue
    MarketForward
    FundsTrue
    AllMoved
PROPERTIES
    EveryCallOnce
