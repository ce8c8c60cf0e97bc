SPECIFICATION Spec
CONSTANTS
    us = us
    eu = eu
    u1 = u1
    u2 = u2
    Regions = {us, eu}
    Users = {u1}
    LastWindow = 0
    Sources = {us}
    MaxCount = 2
    MaxWire = 2
    ChunkSize = 1
    BufferCap = 1
    Faults = {"gateway", "redis", "wipe", "link", "sync", "timeout", "partition"}
INVARIANTS TypeOK TruthInv NoInvention
PROPERTIES MonotoneSlots BlockedOriginDrains
CHECK_DEADLOCK FALSE
