SPECIFICATION FairSpec
CONSTANTS
    us = us
    eu = eu
    Regions = {us, eu}
    Normal = 2
    Peak = 3
    Plans <- MCPlans
    Gaps = {0, 1, 2}
    Segment = 2
    Timeout = 2
    MaxConnections = 2
    MaxTasks = 3
    MaxLate = 1
INVARIANTS TypeOK Accounted NoneStranded PoolSuffices
PROPERTIES Finishes
