SPECIFICATION FairSpec
CONSTANTS
    RawMarkets     <- MCRawMarkets
    Strip          <- MCStrip
    Notionals      <- MCNotionals
    Cap            = 10
    PnlFloor       <- MCPnlFloor
    MaxConcurrent  = 1
    CooldownWindow = 2
    DayLength      = 2
    ArmedSets      <- MCArmedSets
    MaxTime        = 3
    MaxOpen        = 1
    PnlSteps       <- MCPnlSteps
    FailingReads   <- MCFailingReads
    PnlBound       = 2
INVARIANTS
    TypeOK
    TripStands
    StandingReasonDenies
PROPERTY
    CheckDecides
