SPECIFICATION Spec
CONSTANTS
    RawMarkets     <- MCRawMarkets
    Strip          <- MCStrip
    GmxMarkets     <- MCGmxMarkets
    Symbols        <- MCSymbols
    Signals        <- OneSignal
    SettingsSpace  <- LiveSettings
    MarkPrices     <- MCMarkPrices
    FailingReads   <- NoRead
    WorldMoves     <- NoMove
    MaxSignals     = 1
    Cap            = 10
    MaxConcurrent  = 1
    CooldownWindow = 1
    MaxTime        = 0
    TruePrice      = 150
    LotMin         = 1
    MinNotional    = 5
INVARIANT
    RevertIsNotSuccess
CHECK_DEADLOCK FALSE
