SPECIFICATION Spec
CONSTANTS
    us = us
    eu = eu
    Regions = {us, eu}
    Hysteresis = 2
    PolicyTTL = 3
    OverrideTTL = 3
    DefaultLimit = 100
    StaticLimit = 10
    Faults = {"agent", "redis"}
SYMMETRY Symmetry
INVARIANTS TypeOK NoCompounding BeliefMatchesKey NoOverrideGap
PROPERTIES NoFlapping
CHECK_DEADLOCK FALSE
