SPECIFICATION Spec
CONSTANTS
    us = us
    eu = eu
    u1 = u1
    u2 = u2
    Regions = {us, eu}
    Users = {u1}
    LastWindow = 2
    Sources = {us}
    MaxCount = 1
    MaxWire = 1
    ChunkSize = 1
    BufferCap = 1
    Faults = {"link"}
INVARIANTS OwnSlotExact
PROPERTIES ImplementsViews
CHECK_DEADLOCK FALSE
