SPECIFICATION FairSpec
CONSTANTS
    us = us
    eu = eu
    u1 = u1
    u2 = u2
    Regions = {us, eu}
    Users = {u1}
    LastWindow = 1
    Sources = {us}
    MaxCount = 1
    MaxWire = 1
    ChunkSize = 1
    BufferCap = 1
    Faults = {"redis", "link", "partition"}
PROPERTIES Convergence
CHECK_DEADLOCK FALSE
