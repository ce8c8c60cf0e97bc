SPECIFICATION Spec
CONSTANTS
    Recent = 2
    Stale = 6
    RealRates = {0, 24}
    SyntheticRates = {18}
    MinFit = 2
    RetrainEvery = 2
    Capacity = 20
    WarmRates = {27}
    Hysteresis = 3
    DefaultLimit = 100
    TickLengths = {1, 2}
INVARIANTS StaleButReal

