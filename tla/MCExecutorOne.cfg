SPECIFICATION FairSpec
CONSTANTS
    RawMarkets     <- MCRawMarkets
    Strip          <- MCStrip
    GmxMarkets     <- MCGmxMarkets
    Symbols        <- MCSymbols
    Signals        <- AllSignals
    SettingsSpace  <- AllSettings
    MarkPrices     <- MCMarkPrices
    FailingReads   <- EveryRead
    WorldMoves     <- EveryMove
    MaxSignals     = 1
    Cap            = 10
    MaxConcurrent  = 1
    CooldownWindow = 1
    MaxTime        = 0
    TruePrice      = 150
    LotMin         = 1
    MinNotional    = 5
INVARIANTS
    TypeOK
    RecordsTell
    TaskNeverStuck
PROPERTIES
    LadderHolds
    DryRunsBookNoLoss
    UsesGuard
    SignalSettles
CHECK_DEADLOCK FALSE
