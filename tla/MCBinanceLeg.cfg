SPECIFICATION OrdersSpec
CONSTANTS
    Ids         <- MCIds
    Markets     <- MCMarkets
    Symbols     <- MCSymbols
    Listed      <- MCSymbols
    MarkPrices  <- MCMarkPrices
    Notionals   <- MCNotionals
    TruePrice   = 3
    LotMin      = 2
    MinNotional = 7
    TTL         = 1
    Latency     = 1
    MaxTime     = 3
    MaxStep     = 1
INVARIANTS
    TypeOK
    PostedOnlyWhenLive
    SizeAcceptable
    VerdictTruthful
    ServedAgeBounded
    LookupTruthful
PROPERTIES
    FilledStaysFilled
CHECK_DEADLOCK FALSE
