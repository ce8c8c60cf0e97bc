SPECIFICATION Spec
CONSTANTS
    us = us
    eu = eu
    Regions = {us, eu}
    Hysteresis = 2
    PolicyTTL = 3
    OverrideTTL = 3
    DefaultLimit = 100
    StaticLimit = 10
    Faults = {}
SYMMETRY Symmetry
INVARIANTS PolicyAdopted
CHECK_DEADLOCK FALSE
