SPECIFICATION FairSpec
CONSTANTS
    Recent = 2
    Stale = 3
    RealRates = {0, 24}
    SyntheticRates = {18}
    MinFit = 2
    RetrainEvery = 2
    Capacity = 20
    WarmRates = {100}
    Hysteresis = 3
    DefaultLimit = 100
    TickLengths = {1}
INVARIANTS TypeOK ForecastAligned Freshness
PROPERTIES SilenceIsNoSpike ThrottleLifted
