SPECIFICATION PartSpec
CONSTANTS
    Ids           <- MCIds
    Worlds        <- MCWorlds
    MaxMoves      = 2
    MarketList    <- MCMarketList
    Rates         <- MCRates
    MaxSweeps     = 2
    MaxDrops      = 1
    NumMarkets    = 2
    MaxDrifts     = 2
    Aliases       <- MCAliases
    Addresses     <- MCAddresses
    MarketAddress <- MCMarketAddress
    Collaterals   <- MCCollaterals
    MaxPositions  = 3
    MaxFlips      = 2
INVARIANTS
    TypeOK
    BroadcastGated
    ResultTruthful
    AnswerTrue
    PipelineTypeOK
    PayloadTrue
    EveryMarketPolled
    CliTypeOK
    WatchdogTells
    AlertsTell
    ShakedownTells
    SmokesTell
    MatrixDecides
    NoSecondSide
PROPERTIES
    ReadKeepsPromise
    HeardOnceInOrder
    SweepEnds
    FailureStopsAll
    Reconnects
\* The leg stops after two dispatches, a command after its last request.
CHECK_DEADLOCK FALSE
