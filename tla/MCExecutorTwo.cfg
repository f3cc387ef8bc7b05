SPECIFICATION Spec
CONSTANTS
    RawMarkets     <- MCRawMarkets
    Strip          <- MCStrip
    GmxMarkets     <- MCGmxMarkets
    Symbols        <- MCSymbols
    Signals        <- OneSignal
    SettingsSpace  <- LiveSettings
    MarkPrices     <- MCMarkPrices
    FailingReads   <- CooldownReads
    WorldMoves     <- NoMove
    MaxSignals     = 2
    Cap            = 10
    MaxConcurrent  = 1
    CooldownWindow = 1
    MaxTime        = 1
    TruePrice      = 150
    LotMin         = 1
    MinNotional    = 5
INVARIANT
    AuditComplete
PROPERTIES
    LossCoolsDown
    KeepsPromise
CHECK_DEADLOCK FALSE
