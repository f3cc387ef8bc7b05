SPECIFICATION Spec
CONSTANTS
    RawMarkets     <- MCRawMarkets
    Strip          <- MCStrip
    GmxMarkets     <- MCGmxMarkets
    Symbols        <- MCSymbols
    Signals        <- GoodSignals
    SettingsSpace  <- LiveSettings
    MarkPrices     <- MCMarkPrices
    FailingReads   <- NoRead
    WorldMoves     <- KeeperMoves
    MaxSignals     = 2
    Cap            = 10
    MaxConcurrent  = 1
    CooldownWindow = 1
    MaxTime        = 0
    TruePrice      = 150
    LotMin         = 1
    MinNotional    = 5
INVARIANT
    OneSidePerMarket
CHECK_DEADLOCK FALSE
